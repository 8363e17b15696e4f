-------------------------- MODULE MCA2ASettlement --------------------------
(* Payments between a funded buyer, a seller, an active agent with no IBAN   *)
(* and an agent that is not active.                                          *)
EXTENDS A2ASettlement

CONSTANTS i1, i2, buyer, seller, unbanked, inactive

Payload(from, to, amount) ==
    [buyer |-> from, seller |-> to, amount |-> amount]

MCAgents == {buyer, seller, unbanked, inactive}
MCActiveAgents == {buyer, seller, unbanked}
MCWithIban == {buyer, seller, inactive}
MCOpening == [a \in MCAgents |-> IF a = buyer THEN 2 ELSE 0]

\* Two intents: every way a payload can be rejected beside ones that can settle.
TwoIntents == {i1, i2}
AllRequests ==
    {Payload(buyer, seller, 1), Payload(buyer, seller, 2), Payload(seller, buyer, 1),
     Payload(buyer, unbanked, 1), Payload(buyer, inactive, 1), Payload(buyer, buyer, 1),
     Payload(buyer, seller, 0)}

\* The result codes that the docstrings of adyen_client.py and settle name.
DocumentedCodes == {"Authorised", "Pending", "Refused"}
=============================================================================
