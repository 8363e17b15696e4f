--------------------------- MODULE AgentTransfers ---------------------------
(***************************************************************************)
(* What an agent-to-agent payment promises, with no graph, no ledger rows  *)
(* and no payment provider: a transfer first holds an amount and then      *)
(* moves it from one party to the other, at most once and all of it.       *)
(***************************************************************************)
EXTENDS Integers

CONSTANTS
    Ids,        \* transfers
    Parties,    \* whoever has a balance
    Sums        \* the amounts that may be asked for

VARIABLES
    transfer,   \* a record per transfer
    balance     \* the money of each party

New == [stage |-> "new"]

Init ==
    /\ transfer = [i \in Ids |-> New]
    /\ balance \in [Parties -> Int]

Hold(i, from, to, amount) ==
    /\ transfer[i] = New
    /\ amount > 0
    /\ from # to
    /\ transfer' = [transfer EXCEPT ![i] =
            [stage |-> "held", from |-> from, to |-> to, amount |-> amount]]
    /\ UNCHANGED balance

Pay(i) ==
    /\ transfer[i].stage = "held"
    /\ transfer' = [transfer EXCEPT ![i].stage = "paid"]
    /\ balance' = [balance EXCEPT ![transfer[i].from] = @ - transfer[i].amount,
                                  ![transfer[i].to]   = @ + transfer[i].amount]

Next ==
    \E i \in Ids :
        \/ \E from, to \in Parties, amount \in Sums : Hold(i, from, to, amount)
        \/ Pay(i)

Spec == Init /\ [][Next]_<<transfer, balance>>
=============================================================================
