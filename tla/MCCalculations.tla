--------------------------- MODULE MCCalculations ---------------------------
EXTENDS Calculations

Base == [model |-> "flat", metric |-> "", flat |-> 0, unit |-> 0, tiers |-> <<>>,
         outcome |-> NoOutcome]

Tier(limit, unit) == [upTo |-> limit, unit |-> unit]

FlatFee == [Base EXCEPT !.flat = 290000]
FreeFlat == Base
FlatMetered == [Base EXCEPT !.flat = 50050, !.metric = "tickets"]
Usage == [Base EXCEPT !.model = "usage", !.metric = "calls", !.unit = 1200]
Metricless == [Base EXCEPT !.model = "usage", !.unit = 1200]
UsageTiny == [Base EXCEPT !.model = "usage", !.metric = "calls", !.unit = 33]
Resolved == [Base EXCEPT !.model = "outcome", !.metric = "tickets", !.unit = 9900]
Capped == [Base EXCEPT !.model = "outcome", !.metric = "tickets", !.unit = 9900,
                       !.outcome = [NoOutcome EXCEPT !.price = 5000, !.cap = {2}, !.when = {"csat"}]]
Rebate == [Base EXCEPT !.model = "outcome", !.metric = "tickets", !.unit = -9900]
TinyOutcome == [Base EXCEPT !.model = "outcome", !.metric = "tickets", !.unit = 49]
Tiered == [Base EXCEPT !.model = "tiered", !.metric = "calls",
                       !.tiers = <<Tier({2}, 1000), Tier({4}, 505), Tier({}, 77)>>]
TieredEnds == [Base EXCEPT !.model = "tiered", !.metric = "calls",
                           !.tiers = <<Tier({1}, 1000), Tier({3}, 250)>>]
TieredWrong == [Base EXCEPT !.model = "tiered", !.metric = "calls",
                            !.tiers = <<Tier({3}, 1000), Tier({2}, 250)>>]
Credit == [Base EXCEPT !.model = "credit", !.metric = "calls",
                       !.outcome = [NoOutcome EXCEPT !.rate = 500, !.perUnit = 2]]
Hybrid == [Base EXCEPT !.model = "hybrid", !.metric = "calls", !.flat = 100000, !.unit = 300]

Rules == {FlatFee, FreeFlat, FlatMetered, Usage, Metricless, UsageTiny, Resolved, Capped, Rebate, TinyOutcome,
          Tiered, TieredEnds, TieredWrong, Credit, Hybrid}

MCPlans == {<<>>} \union {<<r>> : r \in Rules} \union {<<r, s>> : r, s \in Rules}

MCTestPlans ==
    {<<>>, <<Usage>>, <<Capped>>, <<Tiered>>, <<FlatFee, Usage>>, <<Resolved, Usage>>}

Good == [props |-> {"csat"}, validated |-> TRUE]
Poor == [props |-> {}, validated |-> TRUE]
Unproved == [props |-> {"csat"}, validated |-> FALSE]

Events(n, outcomes) ==
    [m \in {"calls", "tickets"} |->
        IF m = "calls" THEN [count |-> n, outcomes |-> <<>>]
        ELSE [count |-> 1, outcomes |-> outcomes]]

MCEventSets ==
    {Events(0, <<>>), Events(3, <<Good, Good, Good, Poor>>), Events(5, <<Good, Unproved, Poor>>)}

MCCustomers == {[country |-> c, isBusiness |-> b] : c \in {"NL", "FI"}, b \in BOOLEAN}

PolicyOf(conditions, action, priority) ==
    [conditions |-> conditions, action |-> action, priority |-> priority]
If(field, operator, value) == [field |-> field, operator |-> operator, value |-> value]
Business == If("invoice.customer.is_business", "eq", Number(1))
Dutch == If("invoice.customer.country_code", "in", {Text("NL"), Text("BE")})
Small == If("invoice.total", "lt", Number(50000000))
\* The texts "100.00" and "0.01".
FromText == If("invoice.total", "gte", Text(PlaceOf(1000000)))
NotFree == If("invoice.total", "ne", Text(PlaceOf(100)))
Missing == If("quote.total", "ne", Number(0))

MCPolicySets ==
    {<<>>,
     <<PolicyOf(<<Business>>, "allow", 10), PolicyOf(<<Business>>, "reject", 20)>>,
     <<PolicyOf(<<Business, Small>>, "auto_approve", 10)>>,
     <<PolicyOf(<<Small, Business>>, "auto_approve", 10)>>,
     <<PolicyOf(<<Small>>, "auto_approve", 10), PolicyOf(<<Business>>, "reject", 10)>>,
     <<PolicyOf(<<Business>>, "reject", 5), PolicyOf(<<Small>>, "auto_approve", 5)>>,
     <<PolicyOf(<<FromText, Dutch>>, "reject", 7), PolicyOf(<<NotFree>>, "require_approval", 8)>>,
     <<PolicyOf(<<>>, "require_approval", 10), PolicyOf(<<>>, "allow", 10),
       PolicyOf(<<Missing>>, "reject", 1)>>}

MCCountries == {"NL", "BE", "DE", "FI", "US", "BR"}
MCSubtotals == {0, 100, 123400, 3999900}
MCAnnualSales == {{}, {9999}, {10000}, {10001}}

MCAmounts == {0, 100, 50000, 119900, 6250000, 6250100, 70000000}
MCMethods == {"ideal", "card", "sepa_dd", "ach", "paypal"}
MCPaymentGroups ==
    {[psp |-> p, method |-> m, count |-> n, volume |-> v, fees |-> f] :
        p \in {"mollie", "adyen", "stripe"}, m \in MCMethods, n \in {1, 3},
        v \in {0, 300000, 1000000}, f \in {2000, 9000, 40000}}

MCOverrides ==
    {[m \in M |-> q] : M \in SUBSET {"", "calls", "tickets"}, q \in {0, 3}}
MCDiscounts == {0, 15}
MCTerms == {1, 12}
MCHashes == {0, 1, 2}

Is(name, value) == [name |-> name, key |-> name, operator |-> "eq", value |-> value]
NotEscalated == Is("escalated", 0)
Fast == [name |-> "time_lt", key |-> "time", operator |-> "lt", value |-> 2]
FastOrEqual == [name |-> "time_lte", key |-> "time", operator |-> "lte", value |-> 2]
Late == [name |-> "time_gt", key |-> "time", operator |-> "gt", value |-> 2]
Liked == [name |-> "csat_gte", key |-> "csat", operator |-> "gte", value |-> 2]

OutcomeOf(conditions) ==
    [Resolved EXCEPT !.outcome = [NoOutcome EXCEPT !.when = conditions]]
FirstRules ==
    {OutcomeOf(c) : c \in {{}, {NotEscalated}, {Fast}, {FastOrEqual}, {Late}, {Liked},
                           {NotEscalated, Liked}, {Fast, Liked}}}

MCOutcomePlans ==
    {<<r>> : r \in FirstRules} \union
    {<<r, s>> : r \in FirstRules, s \in {OutcomeOf({}), OutcomeOf({Is("escalated", 1)})}}

MCOutcomeEvents ==
    [properties : UNION {[N -> {NoNumber, 0, 1, 2, 3}] :
                            N \in (SUBSET {"escalated", "time", "csat"}) \union {{"time", "time_lt"}}},
     linked : BOOLEAN, loads : BOOLEAN]
=============================================================================
