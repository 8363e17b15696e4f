--------------------------- MODULE MCCreditLedger ---------------------------
(* Three sessions: one that changes the row between another's read and write *)
(* and a third that was refused, died or commits in between.                 *)
EXTENDS CreditLedger

CONSTANTS s1, s2, s3

MCSessions == {s1, s2, s3}

Ask(op, amount) == [op |-> op, amount |-> amount]

MCRequests ==
    {Ask("purchase", 2), Ask("refund", 1), Ask("consume", 1), Ask("consume", 2),
     Ask("adjust", -1), Ask("adjust", 1), Ask("adjust", 0), Ask("read", 0)}
=============================================================================
