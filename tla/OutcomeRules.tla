---------------------------- MODULE OutcomeRules ----------------------------
(***************************************************************************)
(* The conditions of an outcome rule (billable_when) as the validation     *)
(* agent reads them (agents/outcome_agent.py), beside the pricing engine   *)
(* that reads them again (billing/pricing.py).                             *)
(*                                                                         *)
(* A condition is [name, key, operator, value]: name is the key it has in  *)
(* the rule; if that ends in _lt, _lte, _gt or _gte, key is the rest and   *)
(* operator the suffix; otherwise the two are equal and operator is "eq".  *)
(* The properties of an event are a function from names to values, numbers *)
(* (NoNumber stands for a text).  An event is [properties,                 *)
(* linked, loads]: linked if its row names the subscription (POST          *)
(* /v1/events never does), loads unless the database fails.                *)
(***************************************************************************)
EXTENDS BillingEngine

NoNumber == -1

\* load_event: the conditions of the plan's first outcome rule for the metric.
LoadedConditions(event, rules) ==
    LET found == {i \in DOMAIN rules : rules[i].model = "outcome"} IN
    IF event.linked /\ found # {} THEN rules[Min(found)].outcome.when ELSE {}

\* Mutant: a property that is not there meets its condition.
CheckRulesWhenPresent(conditions, properties) ==
    LET present == {c \in conditions : c.key \in DOMAIN properties} IN
    IF \E c \in present : c.operator # "eq" /\ properties[c.key] = NoNumber THEN "raised"
    ELSE IF \A c \in present :
                IF c.operator = "eq" THEN properties[c.key] = c.value
                ELSE Compares(c.operator, properties[c.key], c.value)
    THEN "validated" ELSE "rejected"

\* check_rules: every condition is looked at, so float() raises whatever the others say.
CheckRules(conditions, properties) ==
    LET present == {c \in conditions : c.key \in DOMAIN properties} IN
    IF \E c \in present : c.operator # "eq" /\ properties[c.key] = NoNumber THEN "raised"
    ELSE IF /\ present = conditions
            /\ \A c \in present :
                  IF c.operator = "eq" THEN properties[c.key] = c.value
                  ELSE Compares(c.operator, properties[c.key], c.value)
    THEN "validated" ELSE "rejected"

\* What outcome_status becomes; a run that raises leaves it alone.
Verdict(event, rules) ==
    IF ~event.loads THEN "rejected"
    ELSE CheckRules(LoadedConditions(event, rules), event.properties)

\* calculate_outcome compares each condition's whole name and its value.
PricedRule(rule) ==
    [rule EXCEPT !.outcome.when = {<<c.name, c.value>> : c \in rule.outcome.when}]

\* The rules that calculate_outcome would count the event for, were it to price it.
Counted(event, rules) ==
    LET outcome == [props |-> {<<n, event.properties[n]>> : n \in DOMAIN event.properties},
                    validated |-> TRUE]
    IN  {i \in DOMAIN rules : BillableCount(PricedRule(rules[i]), <<outcome>>) # 0}
=============================================================================
