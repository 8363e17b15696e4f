------------------------ MODULE MCPaymentCollection ------------------------
(* Two invoices of one poll: one customer pays with Stripe and is overdue,  *)
(* one pays with Mollie.                                                    *)
EXTENDS PaymentCollection

CONSTANTS i1, i2

MCInvoices == {i1, i2}
MCMethodOf == [i \in MCInvoices |-> IF i = i1 THEN "stripe" ELSE "mollie"]
MCCreatedAt == [i \in MCInvoices |-> IF i = i1 THEN 1 ELSE 2]
MCOverdue == {i1}
=============================================================================
