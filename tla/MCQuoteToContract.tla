------------------------- MODULE MCQuoteToContract -------------------------
(* Two quotes, three calls of any kind, one run of the agent; no rules, a    *)
(* limit on discounts with an approval below it, and a limit on the term     *)
(* before a number that no discount can be compared to.                      *)
EXTENDS QuoteToContract, TLC

CONSTANTS q1, q2, s1, s2, s3, r1

MCQuotes == {q1, q2}
MCSessions == {s1, s2, s3}
MCRuns == {r1}

Rule(field, value, action, priority) ==
    [conditions |-> <<[field |-> field, operator |-> "gt", value |-> value]>>,
     action |-> action, priority |-> priority]

\* The discounts "15", "30" and "5", by their places in alphabetical order.
MCRequests == {[discount |-> d, term |-> t] : d \in {15, 30, 50}, t \in {12, 36}}
MCRuleLists ==
    {<<>>,
     <<Rule("quote.discount_pct", Text(20), "require_approval", 1),
       Rule("quote.discount_pct", Text(40), "reject", 2)>>,
     <<Rule("quote.term_months", Number(24), "reject", 1),
       Rule("quote.discount_pct", Number(20), "require_approval", 2)>>}

MCSymmetry == Permutations(MCSessions) \union Permutations(MCQuotes)
=============================================================================
