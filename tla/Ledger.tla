------------------------------- MODULE Ledger -------------------------------
(***************************************************************************)
(* The double-entry ledger of billing/ledger.py over the ledger_entries    *)
(* table of models/ledger.py.                                              *)
(*                                                                         *)
(* A row of the table is a record; the table is the set of its rows.       *)
(* create_transfer inserts its two rows in one commit, settle_transaction  *)
(* and fail_transaction rewrite every row of a transaction in one UPDATE   *)
(* and commit, so each is one action.  The reads (get_balance,             *)
(* get_available_balance) run several statements under READ COMMITTED, so  *)
(* they are operators over the table here and separate steps in the        *)
(* modules that call them.                                                 *)
(*                                                                         *)
(* Currency, description and timestamps are left out: no guard of          *)
(* ledger.py reads them.                                                   *)
(***************************************************************************)
EXTENDS Integers, FiniteSets, FiniteSetsExt

CONSTANTS
    Accounts,       \* account ids
    Transactions,   \* the uuid4 values that transactions can draw
    Amounts         \* the amounts callers pass, the rejected ones included

ASSUME AmountsAssumption == Amounts \subseteq Int

VARIABLE entries    \* the rows of ledger_entries

EntryType == {"debit", "credit"}
LedgerStatus == {"pending", "settled", "failed"}

LedgerEntry ==
    [transaction_id : Transactions, account_id : Accounts,
     entry_type : EntryType, amount : Amounts, status : LedgerStatus]

-----------------------------------------------------------------------------
(* Queries over a set of rows. *)

RowsOf(t) == {e \in entries : e.transaction_id = t}

SumAmounts(rows) == MapThenSumSet(LAMBDA e : e.amount, rows)

\* SELECT coalesce(sum(amount), 0) for an account, entry type and status.
SumWhere(account, type, status) ==
    SumAmounts({e \in entries : /\ e.account_id = account
                                /\ e.entry_type = type
                                /\ e.status = status})

\* get_balance when nothing commits between its two SELECTs.
GetBalance(account) ==
    SumWhere(account, "credit", "settled") - SumWhere(account, "debit", "settled")

\* get_available_balance when nothing commits between its three SELECTs.
GetAvailableBalance(account) ==
    GetBalance(account) - SumWhere(account, "debit", "pending")

-----------------------------------------------------------------------------
(* Operations.  A rejected call (ValueError) changes no row: its guard      *)
(* is false.                                                                *)

\* Mutant: the seller is credited one unit less than the buyer pays.
PairWithFee(t, from, to, amount) ==
    {[transaction_id |-> t, account_id |-> from, entry_type |-> "debit",
      amount |-> amount, status |-> "pending"],
     [transaction_id |-> t, account_id |-> to, entry_type |-> "credit",
      amount |-> amount - 1, status |-> "pending"]}

PairOf(t, from, to, amount) ==
    {[transaction_id |-> t, account_id |-> from, entry_type |-> "debit",
      amount |-> amount, status |-> "pending"],
     [transaction_id |-> t, account_id |-> to, entry_type |-> "credit",
      amount |-> amount, status |-> "pending"]}

\* t is fresh because it comes from uuid4.
CreateTransfer(t, from, to, amount) ==
    /\ amount > 0
    /\ RowsOf(t) = {}
    /\ entries' = entries \union PairOf(t, from, to, amount)

\* Mutant: the UPDATE reaches the debit row only.
WithStatusDebitOnly(t, status) ==
    {IF e.transaction_id = t /\ e.entry_type = "debit"
        THEN [e EXCEPT !.status = status] ELSE e : e \in entries}

WithStatus(t, status) ==
    {IF e.transaction_id = t THEN [e EXCEPT !.status = status] ELSE e : e \in entries}

Balanced(t) ==
    SumAmounts({e \in RowsOf(t) : e.entry_type = "debit"})
        = SumAmounts({e \in RowsOf(t) : e.entry_type = "credit"})

\* No guard on the status the rows had before.
SettleTransaction(t) ==
    /\ RowsOf(t) # {}
    /\ Balanced(t)
    /\ entries' = WithStatus(t, "settled")

\* Mutant: a failed transaction goes back to pending.
FailReopens(t) ==
    /\ RowsOf(t) # {}
    /\ entries' = WithStatus(t, "pending")

FailTransaction(t) ==
    /\ RowsOf(t) # {}
    /\ entries' = WithStatus(t, "failed")

-----------------------------------------------------------------------------
Init == entries = {}

Next ==
    \/ \E t \in Transactions, from, to \in Accounts, amount \in Amounts :
            CreateTransfer(t, from, to, amount)
    \/ \E t \in Transactions : SettleTransaction(t)
    \/ \E t \in Transactions : FailTransaction(t)

Spec == Init /\ [][Next]_entries

-----------------------------------------------------------------------------
(* Properties *)

\* The table holds well-formed rows only.
TypeOK == entries \subseteq LedgerEntry

\* models/ledger.py: "exactly two entries that share the same transaction_id:
\* one debit (buyer) and one credit (seller)" -- no transaction has two rows of
\* one type ...
OneRowPerType ==
    \A e, f \in entries :
        (e.transaction_id = f.transaction_id /\ e.entry_type = f.entry_type) => e = f

\* ... and every row has its counterpart, of the same positive amount and in the
\* same status: no sequence of settlements and failures can split a pair.
Counterpart(e, f) ==
    /\ f.transaction_id = e.transaction_id
    /\ f.entry_type # e.entry_type
    /\ f.amount = e.amount
    /\ f.status = e.status

DoubleEntry ==
    /\ OneRowPerType
    /\ \A e \in entries : e.amount > 0 /\ \E f \in entries : Counterpart(e, f)

\* Who owes whom and how much never changes once written: a step of the ledger
\* adds rows or moves statuses, and it never takes a transaction back to pending
\* (settle_transaction and fail_transaction are the only writers).
PostingsImmutable ==
    [][\A e \in entries : \E f \in entries' :
            /\ f = [e EXCEPT !.status = f.status]
            /\ f.status = "pending" => e.status = "pending"]_entries
=============================================================================
