--------------------------- MODULE MCBillingCycle ---------------------------
(* Three subscriptions, one of a plan without rules, two workers, two API    *)
(* calls and a run of the agent.                                             *)
EXTENDS BillingCycle

CONSTANTS a, b, c, w1, w2, r1, r2, g

MCSubs == {a, b, c}
MCBillable == {a, b}
MCWorkers == {w1, w2}
MCRequests == {r1, r2}
MCRuns == {g}
MCRow == [r \in MCRequests |-> IF r = r1 THEN b ELSE c]
=============================================================================
