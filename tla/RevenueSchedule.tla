--------------------------- MODULE RevenueSchedule ---------------------------
(***************************************************************************)
(* The pure part of revenue recognition (revenue_recognition/*.py): from   *)
(* the pricing rules of a plan to obligations, allocated amounts and       *)
(* monthly entries.  Amounts are whole numbers of 0.0001; a share of the   *)
(* price is a whole number of 1/PctScale.                                  *)
(***************************************************************************)
EXTENDS Rounding, Sequences, FiniteSetsExt, Functions

CONSTANT PctScale   \* six places: 1000000

ASSUME PctScaleAssumption == PctScale \in Nat \ {0}

SumOf(amounts) == SumFunction(amounts)

-----------------------------------------------------------------------------
(* Obligations *)

ObligationOf(model) ==
    CASE model = "outcome" -> [type |-> "outcome_delivery", method |-> "point_in_time"]
      [] model \in {"usage", "tiered", "credit"} ->
            [type |-> "usage_consumption", method |-> "point_in_time"]
      [] OTHER -> [type |-> "platform_access", method |-> "over_time"]

\* The flat amount, else the unit amount, else nothing; 0 stands for none as well.
StandalonePrice(rule) ==
    IF rule.flat > 0 THEN rule.flat ELSE IF rule.unit > 0 THEN rule.unit ELSE 0

Obligations(rules) ==
    [i \in DOMAIN rules |->
        [type |-> ObligationOf(rules[i].model).type,
         method |-> ObligationOf(rules[i].model).method,
         price |-> StandalonePrice(rules[i])]]

TotalPrice(obligations) == SumOf([i \in DOMAIN obligations |-> obligations[i].price])

-----------------------------------------------------------------------------
(* Allocation *)

AllocationPct(obligations, i) ==
    IF TotalPrice(obligations) = 0 THEN HalfUp(PctScale, Len(obligations))
    ELSE HalfUp(obligations[i].price * PctScale, TotalPrice(obligations))

Share(total, obligations, i) == HalfUp(total * AllocationPct(obligations, i), PctScale)

\* Mutant: every obligation gets its rounded share.
AllocateShares(total, obligations) ==
    [i \in DOMAIN obligations |-> Share(total, obligations, i)]

\* The last one absorbs the residual, whatever its sign.
Allocate(total, obligations) ==
    [i \in DOMAIN obligations |->
        IF i < Len(obligations) THEN Share(total, obligations, i)
        ELSE total - SumOf([j \in 1..(i - 1) |-> Share(total, obligations, j)])]

-----------------------------------------------------------------------------
(* Monthly entries *)

Recognized(total, n) ==
    [i \in 1..n |-> IF i = n THEN total - (n - 1) * HalfUp(total, n) ELSE HalfUp(total, n)]

\* Months first..last, both included; a month is a number.
Schedule(obligation, total, first, last) ==
    IF obligation.method = "point_in_time"
    THEN <<[period |-> first, recognized |-> total, deferred |-> 0]>>
    ELSE [i \in 1..(last - first + 1) |->
            [period |-> first + i - 1,
             recognized |-> Recognized(total, last - first + 1)[i],
             deferred |-> total - SumOf([j \in 1..i |-> Recognized(total, last - first + 1)[j]])]]

RecognizedOf(entries) == SumOf([i \in DOMAIN entries |-> entries[i].recognized])

-----------------------------------------------------------------------------
(* Rows *)

Entry(period, type, amount) == [period |-> period, type |-> type, amount |-> amount]

\* A RevenueSchedule and its RevenueEntry rows, as the endpoint makes them.
Row(obligation, total, entries) ==
    [obligation |-> obligation, total |-> total,
     recognized |-> RecognizedOf(entries),
     deferred |-> Max({total - RecognizedOf(entries), 0}),
     entries |-> {Entry(entries[i].period, "recognized", entries[i].recognized) :
                     i \in DOMAIN entries}
                 \union {Entry(entries[i].period, "deferred", entries[i].deferred) :
                     i \in {j \in DOMAIN entries : entries[j].deferred > 0}}]
=============================================================================
