------------------------------ MODULE MCLedger ------------------------------
(* A small ledger: three accounts, three transactions, and an amount that     *)
(* create_transfer rejects beside two it accepts.                           *)
EXTENDS Ledger, TLC

CONSTANTS a1, a2, a3, t1, t2, t3

MCAccounts == {a1, a2, a3}
MCTransactions == {t1, t2, t3}
MCAmounts == 0..2
MCSymmetry == Permutations(MCAccounts) \union Permutations(MCTransactions)
=============================================================================
