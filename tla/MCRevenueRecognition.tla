------------------------ MODULE MCRevenueRecognition ------------------------
(* The plan of a: a flat fee and an outcome price.  The plan of b: prices in *)
(* sevenths, whose rounded shares exceed the total, and a tiered rule        *)
(* without a price.  The plan of c has no rules.  The first period touches   *)
(* three calendar months (30 days from January 30).                          *)
EXTENDS RevenueRecognition

CONSTANTS a, b, c, r1, m1, m2

MCSubs == {a, b, c}
Rule(model, flat, unit) == [model |-> model, flat |-> flat, unit |-> unit]
MCRules == [s \in MCSubs |->
    CASE s = a -> <<Rule("flat", 5, 0), Rule("outcome", 0, 3)>>
      [] s = b -> <<Rule("usage", 0, 2000), Rule("credit", 2000, 1), Rule("flat", 3000, 0),
                    Rule("tiered", 0, 0)>>
      [] s = c -> <<>>]
MCLastMonth == [p \in 0..1 |-> 2]
MCRequests == {r1}
MCMessages == {m1, m2}

MCMalformed == {"unreadable", "no object"}
=============================================================================
