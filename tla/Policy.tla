------------------------------- MODULE Policy -------------------------------
(***************************************************************************)
(* The policy engine (policy/engine.py, policy/rules.py): pure functions   *)
(* of a context and a list of rules.                                       *)
(*                                                                         *)
(* A context is a function from the dotted names of its fields to values;  *)
(* a rule is [conditions, action, priority], its conditions a sequence of  *)
(* [field, operator, value].  A value is a number or a text; a text is its *)
(* place in alphabetical order, where something asks for the order.        *)
(***************************************************************************)
EXTENDS Integers, Sequences, FiniteSets, SequencesExt

ActionType == {"auto_approve", "require_approval", "reject", "allow"}

Number(n) == [kind |-> "number", n |-> n]
Text(n) == [kind |-> "text", n |-> n]

Ordering == {"lt", "lte", "gt", "gte"}

Compares(operator, a, b) ==
    \/ operator = "lt"  /\ a < b
    \/ operator = "lte" /\ a <= b
    \/ operator = "gt"  /\ a > b
    \/ operator = "gte" /\ a >= b

\* A number and a text are never equal, and cannot be ordered: that raises.
Raises(c, context) ==
    /\ c.field \in DOMAIN context
    /\ c.operator \in Ordering
    /\ context[c.field].kind # c.value.kind

\* evaluate_condition returns true.  A field that is missing makes it false, whatever
\* the operator; the value of in and not_in is a set of values.  (No rule here has
\* contains, the search in a text.)
EvaluateCondition(c, context) ==
    /\ c.field \in DOMAIN context
    /\ LET x == context[c.field] IN
          \/ c.operator = "eq" /\ x = c.value
          \/ c.operator = "ne" /\ x # c.value
          \/ c.operator = "in" /\ x \in c.value
          \/ c.operator = "not_in" /\ x \notin c.value
          \/ /\ c.operator \in Ordering
             /\ x.kind = c.value.kind
             /\ Compares(c.operator, x.n, c.value.n)

\* evaluate_conditions returns true ...
EvaluateConditions(conditions, context) ==
    \A i \in DOMAIN conditions : EvaluateCondition(conditions[i], context)

\* ... or raises: all() looks at them in their order, up to the first that is false.
ConditionsRaise(conditions, context) ==
    \E i \in DOMAIN conditions :
        /\ Raises(conditions[i], context)
        /\ \A j \in 1..(i - 1) : EvaluateCondition(conditions[j], context)

Before(rules, i, j) ==
    \/ rules[i].priority < rules[j].priority
    \/ rules[i].priority = rules[j].priority /\ i < j

\* sorted(rules, key=priority) is stable: the k-th has k - 1 before it.
ByPriority(rules) ==
    [k \in DOMAIN rules |->
        CHOOSE i \in DOMAIN rules : Cardinality({j \in DOMAIN rules : Before(rules, j, i)}) = k - 1]

Unmatched == [rule |-> 0, action |-> "allow", matched |-> FALSE]

\* Mutant: the first match wins, a reject after it is not looked for.
EvaluateFirst(context, rules) ==
    LET Visit(found, i) ==
            IF found.matched \/ ~EvaluateConditions(rules[i].conditions, context)
            THEN found
            ELSE [rule |-> i, action |-> rules[i].action, matched |-> TRUE]
    IN  FoldLeft(Visit, Unmatched, ByPriority(rules))

\* PolicyEngine.evaluate, when it does not raise: a reject returns at once, another
\* match is kept if it is the first.
Evaluate(context, rules) ==
    LET Visit(found, i) ==
            IF \/ found.action = "reject"
               \/ ~EvaluateConditions(rules[i].conditions, context)
               \/ found.matched /\ rules[i].action # "reject"
            THEN found
            ELSE [rule |-> i, action |-> rules[i].action, matched |-> TRUE]
    IN  FoldLeft(Visit, Unmatched, ByPriority(rules))

\* evaluate raises: it comes to conditions that do, with no reject before them.
EvaluateRaises(context, rules) ==
    LET order == ByPriority(rules) IN
    \E k \in DOMAIN order :
        /\ ConditionsRaise(rules[order[k]].conditions, context)
        /\ \A j \in 1..(k - 1) :
              ~ /\ rules[order[j]].action = "reject"
                /\ EvaluateConditions(rules[order[j]].conditions, context)

\* PolicyEngine.evaluate_all: the indices of the rules that match, in order.
EvaluateAll(context, rules) ==
    LET Visit(all, i) ==
            IF EvaluateConditions(rules[i].conditions, context) THEN Append(all, i) ELSE all
    IN  FoldLeft(Visit, <<>>, ByPriority(rules))

\* check_threshold (policy/thresholds.py), without the percentage.
CheckThreshold(value, limit) ==
    [within_limit |-> value < limit,
     remaining |-> IF limit > value THEN limit - value ELSE 0]

-----------------------------------------------------------------------------
\* What the engine promises ("reject wins immediately, otherwise the first matching
\* rule wins"), without the loop: the verdict comes from the matching rules alone, a
\* reject among them prevails, then the least priority, then the order given; and
\* it is a reject or the head of what evaluate_all reports.
VerdictIsRight(context, rules) ==
    LET verdict == Evaluate(context, rules)
        M == {i \in DOMAIN rules : EvaluateConditions(rules[i].conditions, context)}
        R == {i \in M : rules[i].action = "reject"}
        best == IF R # {} THEN R ELSE M
        all == EvaluateAll(context, rules)
    IN  /\ verdict.matched <=> M # {}
        /\ Range(all) = M
        /\ M # {} =>
              /\ verdict.rule \in best
              /\ verdict.action = rules[verdict.rule].action
              /\ \A j \in best :
                    \/ rules[j].priority > rules[verdict.rule].priority
                    \/ rules[j].priority = rules[verdict.rule].priority /\ j >= verdict.rule
              /\ R = {} => verdict.rule = Head(all)
=============================================================================
