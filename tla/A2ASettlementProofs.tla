------------------------ MODULE A2ASettlementProofs ------------------------
(***************************************************************************)
(* The settlement graph for any number of intents, agents and requests.    *)
(*                                                                         *)
(* Most properties follow from an inductive invariant, IInv: where a graph *)
(* is (pc) determines what it may have written (Progress), and the rows of *)
(* an intent are its request's, settled exactly when the graph settled     *)
(* them (RowsFollow).  MoneyInv adds what the sums of get_balance are:     *)
(* what each graph has read still bounds what is in the table, unless a    *)
(* race was recorded.  The last section shows that the graphs implement    *)
(* AgentTransfers.                                                         *)
(***************************************************************************)
EXTENDS A2ASettlement, FiniteSetTheorems, TLAPS

LP == INSTANCE LedgerProofs WITH Transactions <- Intents \union Agents

AfterReserve == {"execute", "awaiting", "settle", "end", "done", "lost"}

\* The ledger of the intents keeps double entry.
PairsIntact == L!DoubleEntry

Progress(i) ==
    /\ pc[i] # "idle" => request[i] \in Requests
    /\ L!RowsOf(i) # {} => pc[i] \in AfterReserve
    /\ pc[i] = "settle" => psp[i] \in ResultCodes \ {Refused}
    /\ settlement[i] = "settled" =>
          /\ pc[i] \in {"end", "done", "lost"}
          /\ ~ error[i]
          /\ L!RowsOf(i) # {}
          /\ psp[i] \in ResultCodes \ {Refused}
    /\ error[i] => pc[i] \in {"end", "done", "lost"}
    /\ pc[i] \in {"end", "done"} => error[i] \/ settlement[i] = "settled"
    /\ pc[i] = "done" => answer[i] # "none"
    /\ answer[i] # "none" =>
          pc[i] = "done" /\ answer[i] = IF error[i] THEN "failed" ELSE "settled"

RowsFollow ==
    \A e \in entries : e.transaction_id \in Intents =>
        LET i == e.transaction_id IN
        /\ e.account_id = IF e.entry_type = "debit" THEN request[i].buyer ELSE request[i].seller
        /\ e.amount = request[i].amount
        /\ e.status = IF settlement[i] = "settled" THEN "settled" ELSE "pending"

IInv ==
    /\ StateTypeOK
    /\ PairsIntact
    /\ RowsFollow
    /\ \A i \in Intents : Progress(i)

-----------------------------------------------------------------------------
LEMMA AmountsAreInts == Amounts \subseteq Int
BY AgentsAssumption, RequestsAssumption DEF Amounts

\* The actions of an intent that neither write rows nor settle anything keep the
\* rows' part of the invariant.
LEMMA RowsUntouched ==
    ASSUME IInv, NEW i \in Intents, UNCHANGED <<entries, request>>,
           \A j \in Intents : settlement'[j] = "settled" <=> settlement[j] = "settled"
    PROVE  PairsIntact' /\ RowsFollow' /\ L!TypeOK' /\ \A j : L!RowsOf(j)' = L!RowsOf(j)
<1>1. PairsIntact'
  BY DEF IInv, PairsIntact, L!DoubleEntry, L!OneRowPerType, L!Counterpart
<1>2. RowsFollow'
  BY DEF IInv, RowsFollow
<1>3. L!TypeOK'
  BY DEF IInv, StateTypeOK, L!TypeOK, L!LedgerEntry
<1>4. \A j : L!RowsOf(j)' = L!RowsOf(j)
  BY DEF L!RowsOf
<1> QED
  BY <1>1, <1>2, <1>3, <1>4

LEMMA InitEstablishes == Init => IInv
<1> SUFFICES ASSUME Init PROVE IInv
  OBVIOUS
<1>1. \A e \in entries : \E a \in Agents : Opening[a] > 0 /\ e \in OpeningRows(a)
  BY DEF Init, Funded
<1>2. \A e \in entries : e.transaction_id \in Agents /\ e.transaction_id \notin Intents
  BY <1>1, AgentsAssumption DEF OpeningRows, OpeningRow
<1>3. L!TypeOK
  BY <1>1, AgentsAssumption
     DEF OpeningRows, OpeningRow, L!TypeOK, L!LedgerEntry, L!EntryType, L!LedgerStatus,
         Accounts, Amounts
<1>4. StateTypeOK
  BY <1>3 DEF Init, StateTypeOK, Labels
<1>5. L!OneRowPerType
  BY <1>1 DEF OpeningRows, OpeningRow, L!OneRowPerType
<1>6. \A e \in entries : e.amount > 0 /\ \E f \in entries : L!Counterpart(e, f)
  <2> SUFFICES ASSUME NEW e \in entries
               PROVE  e.amount > 0 /\ \E f \in entries : L!Counterpart(e, f)
    OBVIOUS
  <2>1. PICK a \in Agents : Opening[a] > 0 /\ e \in OpeningRows(a)
    BY <1>1
  <2>2. OpeningRows(a) \subseteq entries
    BY <2>1 DEF Init, Funded
  <2> QED
    BY <2>1, <2>2 DEF OpeningRows, OpeningRow, L!Counterpart
<1>7. RowsFollow
  BY <1>2 DEF RowsFollow
<1>8. \A i \in Intents : L!RowsOf(i) = {}
  BY <1>2 DEF L!RowsOf
<1>9. \A i \in Intents : Progress(i)
  BY <1>8 DEF Init, Progress
<1> QED
  BY <1>4, <1>5, <1>6, <1>7, <1>9 DEF IInv, PairsIntact, L!DoubleEntry

-----------------------------------------------------------------------------
(* The actions that write rows are steps of the ledger. *)

LEMMA ReserveIsLedgerStep ==
    ASSUME IInv, NEW i \in Intents, Reserve(i)
    PROVE  /\ L!CreateTransfer(i, request[i].buyer, request[i].seller, request[i].amount)
           /\ request[i].buyer \in Accounts /\ request[i].seller \in Accounts
           /\ request[i].amount \in Amounts
<1>1. request[i] \in Requests
  BY DEF IInv, Progress, Reserve
<1> QED
  BY <1>1, RequestsAssumption DEF Reserve, Accounts, Amounts

\* The invariant proved of Ledger, as the module of its proofs names it.
LEMMA LedgerInvariant ==
    /\ LP!IInv <=> L!TypeOK /\ PairsIntact
    /\ LP!IInv' <=> L!TypeOK' /\ PairsIntact'
BY DEF LP!IInv, PairsIntact, LP!TypeOK, L!TypeOK, LP!DoubleEntry, L!DoubleEntry,
       LP!OneRowPerType, L!OneRowPerType, LP!Counterpart, L!Counterpart, LP!LedgerEntry,
       L!LedgerEntry, LP!EntryType, L!EntryType, LP!LedgerStatus, L!LedgerStatus

LEMMA ReserveKeepsLedger ==
    ASSUME IInv, NEW i \in Intents, Reserve(i)
    PROVE  L!TypeOK' /\ PairsIntact'
<1>1. LP!IInv
  BY LedgerInvariant DEF IInv, StateTypeOK
<1>2. LP!CreateTransfer(i, request[i].buyer, request[i].seller, request[i].amount)
  BY ReserveIsLedgerStep DEF L!CreateTransfer, LP!CreateTransfer, L!RowsOf, LP!RowsOf,
     L!PairOf, LP!PairOf
<1>3. LP!IInv'
  BY <1>1, <1>2, ReserveIsLedgerStep, LP!CreatePreserves, AmountsAreInts
<1> QED
  BY <1>3, LedgerInvariant

LEMMA SettleKeepsLedger ==
    ASSUME IInv, NEW i \in Intents, Settle(i)
    PROVE  L!TypeOK' /\ PairsIntact'
<1>1. LP!IInv
  BY LedgerInvariant DEF IInv, StateTypeOK
<1>2. entries' = LP!WithStatus(i, "settled")
  BY DEF Settle, L!SettleTransaction, L!WithStatus, LP!WithStatus
<1>3. LP!IInv'
  BY <1>1, <1>2, LP!UpdatePreserves, AmountsAreInts DEF LP!LedgerStatus
<1> QED
  BY <1>3, LedgerInvariant

-----------------------------------------------------------------------------
(* Every action keeps the inductive invariant: first the two that write rows. *)

LEMMA ReserveKeepsIInv == ASSUME IInv, NEW i \in Intents, Reserve(i) PROVE IInv'
<1>1. L!TypeOK' /\ PairsIntact'
  BY ReserveKeepsLedger
<1>2. StateTypeOK'
  BY <1>1, AgentsAssumption, RequestsAssumption
     DEF IInv, Progress, StateTypeOK, Reserve, Race, Goto, Labels
<1>3. entries' = entries \union L!PairOf(i, request[i].buyer, request[i].seller, request[i].amount)
  BY DEF Reserve, L!CreateTransfer
<1>4. settlement[i] # "settled"
  BY DEF IInv, Progress, Reserve
<1>5. RowsFollow'
  BY <1>3, <1>4 DEF IInv, RowsFollow, Reserve, L!PairOf
<1>6. \A j \in Intents : j # i => L!RowsOf(j)' = L!RowsOf(j)
  BY <1>3 DEF L!PairOf, L!RowsOf
<1>7. \A j \in Intents : Progress(j)'
  BY <1>6 DEF IInv, Progress, Reserve, Goto, StateTypeOK, AfterReserve
<1> QED
  BY <1>1, <1>2, <1>5, <1>7 DEF IInv

LEMMA SettleKeepsIInv == ASSUME IInv, NEW i \in Intents, Settle(i) PROVE IInv'
<1>1. L!TypeOK' /\ PairsIntact'
  BY SettleKeepsLedger
<1>2. StateTypeOK'
  BY <1>1, AgentsAssumption, RequestsAssumption
     DEF IInv, Progress, StateTypeOK, Settle, Race, Goto, Labels
<1>3. entries' = L!WithStatus(i, "settled") /\ L!RowsOf(i) # {}
  BY DEF Settle, L!SettleTransaction
<1>4. \A e \in entries : e \in L!LedgerEntry
  BY DEF IInv, StateTypeOK, L!TypeOK
<1>5. ASSUME NEW g \in entries'
      PROVE  \E e \in entries :
                /\ g.transaction_id = e.transaction_id
                /\ g.account_id = e.account_id
                /\ g.entry_type = e.entry_type
                /\ g.amount = e.amount
                /\ g.status = IF e.transaction_id = i THEN "settled" ELSE e.status
  BY <1>3, <1>4 DEF L!WithStatus, L!LedgerEntry
<1>6. RowsFollow'
  BY <1>5 DEF IInv, RowsFollow, Settle, StateTypeOK
<1>7. /\ \A j \in Intents : L!RowsOf(j)' # {} => L!RowsOf(j) # {}
      /\ L!RowsOf(i)' # {}
  <2>1. \A j \in Intents : L!RowsOf(j)' # {} => L!RowsOf(j) # {}
    BY <1>5 DEF L!RowsOf
  <2>2. PICK e \in entries : e.transaction_id = i
    BY <1>3 DEF L!RowsOf
  <2>3. [e EXCEPT !.status = "settled"] \in entries'
    BY <1>3, <2>2 DEF L!WithStatus
  <2>4. [e EXCEPT !.status = "settled"].transaction_id = i
    BY <1>4, <2>2 DEF L!LedgerEntry
  <2> QED
    BY <2>1, <2>3, <2>4 DEF L!RowsOf
<1>8. \A j \in Intents : j # i => L!RowsOf(j)' = L!RowsOf(j)
  BY <1>3, <1>4 DEF L!WithStatus, L!RowsOf, L!LedgerEntry
<1>9. \A j \in Intents : Progress(j)'
  BY <1>7, <1>8 DEF IInv, Progress, Settle, Goto, StateTypeOK, AfterReserve
<1> QED
  BY <1>1, <1>2, <1>6, <1>9 DEF IInv

(* The other actions leave the table alone; each moves one graph. *)

LEMMA StepPreserves == IInv /\ [Next]_vars => IInv'
<1> SUFFICES ASSUME IInv, [Next]_vars PROVE IInv'
  OBVIOUS
<1> USE DEF Goto, EndWithError
<1>1. ASSUME NEW i \in Intents, Receive(i) PROVE IInv'
  <2>1. /\ \A j : L!RowsOf(j)' = L!RowsOf(j)
        /\ L!RowsOf(i) = {}
        /\ L!TypeOK' /\ PairsIntact'
    BY <1>1 DEF Receive, IInv, Progress, AfterReserve, StateTypeOK, L!RowsOf, PairsIntact, L!TypeOK,
       L!LedgerEntry, L!DoubleEntry, L!OneRowPerType, L!Counterpart
  <2>2. StateTypeOK'
    BY <1>1, <2>1 DEF Receive, IInv, StateTypeOK, Labels
  <2>3. RowsFollow'
    BY <1>1, <2>1 DEF Receive, IInv, StateTypeOK, RowsFollow, L!RowsOf
  <2>4. \A j \in Intents : Progress(j)'
    BY <1>1, <2>1 DEF Receive, IInv, StateTypeOK, Progress, AfterReserve
  <2> QED
    BY <2>1, <2>2, <2>3, <2>4 DEF IInv
<1>2. ASSUME NEW i \in Intents, ValidateIntent(i) PROVE IInv'
  <2>1. /\ PairsIntact' /\ RowsFollow' /\ L!TypeOK'
        /\ \A j : L!RowsOf(j)' = L!RowsOf(j)
    BY <1>2, RowsUntouched DEF ValidateIntent, IInv, Progress, StateTypeOK
  <2>2. StateTypeOK'
    BY <1>2, <2>1 DEF ValidateIntent, IInv, StateTypeOK, Labels
  <2>3. \A j \in Intents : Progress(j)'
    BY <1>2, <2>1 DEF ValidateIntent, IInv, StateTypeOK, Progress, AfterReserve
  <2> QED
    BY <2>1, <2>2, <2>3 DEF IInv
<1>3. ASSUME NEW i \in Intents, CompliancePass(i) PROVE IInv'
  <2>1. /\ PairsIntact' /\ RowsFollow' /\ L!TypeOK'
        /\ \A j : L!RowsOf(j)' = L!RowsOf(j)
    BY <1>3, RowsUntouched DEF CompliancePass, IInv, Progress, StateTypeOK
  <2>2. StateTypeOK'
    BY <1>3, <2>1 DEF CompliancePass, IInv, StateTypeOK, Labels
  <2>3. \A j \in Intents : Progress(j)'
    BY <1>3, <2>1 DEF CompliancePass, IInv, StateTypeOK, Progress, AfterReserve
  <2> QED
    BY <2>1, <2>2, <2>3 DEF IInv
<1>4. ASSUME NEW i \in Intents, ComplianceReject(i) PROVE IInv'
  <2>1. /\ PairsIntact' /\ RowsFollow' /\ L!TypeOK'
        /\ \A j : L!RowsOf(j)' = L!RowsOf(j)
    BY <1>4, RowsUntouched DEF ComplianceReject, IInv, Progress, StateTypeOK
  <2>2. StateTypeOK'
    BY <1>4, <2>1 DEF ComplianceReject, IInv, StateTypeOK, Labels
  <2>3. \A j \in Intents : Progress(j)'
    BY <1>4, <2>1 DEF ComplianceReject, IInv, StateTypeOK, Progress, AfterReserve
  <2> QED
    BY <2>1, <2>2, <2>3 DEF IInv
<1>5. ASSUME NEW i \in Intents, ReadCredits(i) PROVE IInv'
  <2>1. /\ PairsIntact' /\ RowsFollow' /\ L!TypeOK'
        /\ \A j : L!RowsOf(j)' = L!RowsOf(j)
    BY <1>5, RowsUntouched DEF ReadCredits, IInv, Progress, StateTypeOK
  <2>2. StateTypeOK'
    BY <1>5, <2>1 DEF ReadCredits, IInv, StateTypeOK, Labels
  <2>3. \A j \in Intents : Progress(j)'
    BY <1>5, <2>1 DEF ReadCredits, IInv, StateTypeOK, Progress, AfterReserve
  <2> QED
    BY <2>1, <2>2, <2>3 DEF IInv
<1>6. ASSUME NEW i \in Intents, ReadDebits(i) PROVE IInv'
  <2>1. /\ PairsIntact' /\ RowsFollow' /\ L!TypeOK'
        /\ \A j : L!RowsOf(j)' = L!RowsOf(j)
    BY <1>6, RowsUntouched DEF ReadDebits, IInv, Progress, StateTypeOK
  <2>2. StateTypeOK'
    BY <1>6, <2>1 DEF ReadDebits, IInv, StateTypeOK, Labels
  <2>3. \A j \in Intents : Progress(j)'
    BY <1>6, <2>1 DEF ReadDebits, IInv, StateTypeOK, Progress, AfterReserve
  <2> QED
    BY <2>1, <2>2, <2>3 DEF IInv
<1>7. ASSUME NEW i \in Intents, ReadPending(i) PROVE IInv'
  <2>1. /\ PairsIntact' /\ RowsFollow' /\ L!TypeOK'
        /\ \A j : L!RowsOf(j)' = L!RowsOf(j)
    BY <1>7, RowsUntouched DEF ReadPending, IInv, Progress, StateTypeOK
  <2>2. StateTypeOK'
    BY <1>7, <2>1 DEF ReadPending, IInv, StateTypeOK, Labels
  <2>3. \A j \in Intents : Progress(j)'
    BY <1>7, <2>1 DEF ReadPending, IInv, StateTypeOK, Progress, AfterReserve
  <2> QED
    BY <2>1, <2>2, <2>3 DEF IInv
<1>8. ASSUME NEW i \in Intents, SendTransfer(i) PROVE IInv'
  <2>1. /\ PairsIntact' /\ RowsFollow' /\ L!TypeOK'
        /\ \A j : L!RowsOf(j)' = L!RowsOf(j)
    BY <1>8, RowsUntouched DEF SendTransfer, IInv, Progress, StateTypeOK
  <2>2. StateTypeOK'
    BY <1>8, <2>1 DEF SendTransfer, IInv, StateTypeOK, Labels
  <2>3. \A j \in Intents : Progress(j)'
    BY <1>8, <2>1 DEF SendTransfer, IInv, StateTypeOK, Progress, AfterReserve
  <2> QED
    BY <2>1, <2>2, <2>3 DEF IInv
<1>9. ASSUME NEW i \in Intents, TransferAnswered(i) PROVE IInv'
  <2>1. /\ PairsIntact' /\ RowsFollow' /\ L!TypeOK'
        /\ \A j : L!RowsOf(j)' = L!RowsOf(j)
    BY <1>9, RowsUntouched DEF TransferAnswered, IInv, Progress, StateTypeOK
  <2>2. StateTypeOK'
    BY <1>9, <2>1 DEF TransferAnswered, IInv, StateTypeOK, Labels
  <2>3. \A j \in Intents : Progress(j)'
    BY <1>9, <2>1 DEF TransferAnswered, IInv, StateTypeOK, Progress, AfterReserve
  <2> QED
    BY <2>1, <2>2, <2>3 DEF IInv
<1>10. ASSUME NEW i \in Intents, TransferRaised(i) PROVE IInv'
  <2>1. /\ PairsIntact' /\ RowsFollow' /\ L!TypeOK'
        /\ \A j : L!RowsOf(j)' = L!RowsOf(j)
    BY <1>10, RowsUntouched DEF TransferRaised, IInv, Progress, StateTypeOK
  <2>2. StateTypeOK'
    BY <1>10, <2>1 DEF TransferRaised, IInv, StateTypeOK, Labels
  <2>3. \A j \in Intents : Progress(j)'
    BY <1>10, <2>1 DEF TransferRaised, IInv, StateTypeOK, Progress, AfterReserve
  <2> QED
    BY <2>1, <2>2, <2>3 DEF IInv
<1>11. ASSUME NEW i \in Intents, Respond(i) PROVE IInv'
  <2>1. /\ PairsIntact' /\ RowsFollow' /\ L!TypeOK'
        /\ \A j : L!RowsOf(j)' = L!RowsOf(j)
    BY <1>11, RowsUntouched DEF Respond, IInv, Progress, StateTypeOK
  <2>2. StateTypeOK'
    BY <1>11, <2>1 DEF Respond, IInv, StateTypeOK, Labels, IntentStatus
  <2>3. \A j \in Intents : Progress(j)'
    BY <1>11, <2>1 DEF Respond, IInv, StateTypeOK, Progress, AfterReserve, IntentStatus
  <2> QED
    BY <2>1, <2>2, <2>3 DEF IInv
<1>12. ASSUME NEW i \in Intents, PspProcess(i) PROVE IInv'
  <2>1. /\ PairsIntact' /\ RowsFollow' /\ L!TypeOK'
        /\ \A j : L!RowsOf(j)' = L!RowsOf(j)
    BY <1>12, RowsUntouched DEF PspProcess, IInv, Progress, StateTypeOK
  <2>2. StateTypeOK'
    BY <1>12, <2>1 DEF PspProcess, IInv, StateTypeOK, Labels, Accepted
  <2>3. \A j \in Intents : Progress(j)'
    BY <1>12, <2>1, ResultCodesAssumption DEF PspProcess, IInv, StateTypeOK, Progress, AfterReserve
  <2> QED
    BY <2>1, <2>2, <2>3 DEF IInv
<1>13. ASSUME NEW i \in Intents, Crash(i) PROVE IInv'
  <2>1. /\ PairsIntact' /\ RowsFollow' /\ L!TypeOK'
        /\ \A j : L!RowsOf(j)' = L!RowsOf(j)
    BY <1>13, RowsUntouched DEF Crash, IInv, Progress, StateTypeOK
  <2>2. StateTypeOK'
    BY <1>13, <2>1 DEF Crash, IInv, StateTypeOK, Labels
  <2>3. \A j \in Intents : Progress(j)'
    BY <1>13, <2>1 DEF Crash, IInv, StateTypeOK, Progress, AfterReserve
  <2> QED
    BY <2>1, <2>2, <2>3 DEF IInv
<1>14. CASE UNCHANGED vars
  <2>1. /\ PairsIntact' /\ RowsFollow' /\ L!TypeOK'
        /\ \A j \in Intents : L!RowsOf(j)' = L!RowsOf(j)
    BY <1>14 DEF vars, IInv, StateTypeOK, PairsIntact, L!TypeOK, L!LedgerEntry, L!DoubleEntry,
       L!OneRowPerType, L!Counterpart, RowsFollow, L!RowsOf
  <2>2. StateTypeOK'
    BY <1>14, <2>1 DEF vars, IInv, StateTypeOK
  <2>3. \A j \in Intents : Progress(j)'
    BY <1>14, <2>1 DEF vars, IInv, Progress
  <2> QED
    BY <2>1, <2>2, <2>3 DEF IInv
<1> QED
  BY <1>1, <1>2, <1>3, <1>4, <1>5, <1>6, <1>7, <1>8, <1>9, <1>10, <1>11, <1>12, <1>13, <1>14, ReserveKeepsIInv, SettleKeepsIInv DEF Next, Step

-----------------------------------------------------------------------------
(* The sums of get_balance.                                                  *)

\* What an intent has read still bounds what is there: the settled credits only
\* grow, and unless its buyer was overtaken so did the balance since it was read,
\* and the funds it found are still available.
Bounds(j) ==
    /\ pc[j] = "read_debits" =>
          credits[j] <= L!SumWhere(request[j].buyer, "credit", "settled")
    /\ pc[j] = "read_pending" =>
          request[j].buyer \in raced \/ settled[j] <= L!GetBalance(request[j].buyer)
    /\ pc[j] = "create" =>
          request[j].buyer \in raced
              \/ request[j].amount <= L!GetAvailableBalance(request[j].buyer)

Validated(j) ==
    pc[j] \notin {"idle", "validate", "end", "done", "lost"} => Valid(request[j])

MoneyInv ==
    /\ IsFiniteSet(entries)
    /\ credits \in [Intents -> Int]
    /\ settled \in [Intents -> Int]
    /\ \A j \in Intents : Validated(j) /\ Bounds(j)
    /\ NoOverdraftWithoutRace

LEMMA LedgerSums ==
    \A a, type, status :
        /\ LP!SumWhere(a, type, status) = L!SumWhere(a, type, status)
        /\ LP!SumWhere(a, type, status)' = L!SumWhere(a, type, status)'
BY DEF LP!SumWhere, L!SumWhere, LP!SumAmounts, L!SumAmounts, LP!MapThenSumSet, L!MapThenSumSet,
       LP!MapThenFoldSet, L!MapThenFoldSet

\* The two modules' instances of FiniteSets say the same.
LEMMA FiniteIsFinite == \A S : LP!IsFiniteSet(S) <=> IsFiniteSet(S)
BY DEF LP!IsFiniteSet, IsFiniteSet

LEMMA SumsAreInts ==
    ASSUME L!TypeOK, IsFiniteSet(entries)
    PROVE  \A a : /\ \A type, status : L!SumWhere(a, type, status) \in Int
                  /\ L!GetBalance(a) \in Int
                  /\ L!GetAvailableBalance(a) \in Int
<1>1. LP!TypeOK
  BY DEF LP!TypeOK, L!TypeOK, LP!LedgerEntry, L!LedgerEntry, LP!EntryType, L!EntryType,
         LP!LedgerStatus, L!LedgerStatus
<1>2. \A a, type, status : L!SumWhere(a, type, status) \in Int
  BY <1>1, LedgerSums, AmountsAreInts, LP!SumWhereIsInt, FiniteIsFinite
<1> QED
  BY <1>2 DEF L!GetBalance, L!GetAvailableBalance

LEMMA ReserveSums ==
    ASSUME IInv, MoneyInv, NEW i \in Intents, Reserve(i), NEW a
    PROVE  /\ L!SumWhere(a, "credit", "settled")' = L!SumWhere(a, "credit", "settled")
           /\ L!GetBalance(a)' = L!GetBalance(a)
           /\ L!GetAvailableBalance(a)' = L!GetAvailableBalance(a)
                  - IF a = request[i].buyer THEN request[i].amount ELSE 0
<1>1. LP!TypeOK
  BY LedgerInvariant DEF IInv, StateTypeOK, LP!IInv
<1>2. LP!CreateTransfer(i, request[i].buyer, request[i].seller, request[i].amount)
  BY ReserveIsLedgerStep DEF L!CreateTransfer, LP!CreateTransfer, L!RowsOf, LP!RowsOf,
     L!PairOf, LP!PairOf
<1>3. request[i].amount \in Amounts /\ request[i].amount \in Int
  BY ReserveIsLedgerStep, AmountsAreInts
<1>4. IsFiniteSet(entries)
  BY DEF MoneyInv
<1>5. /\ \A type : LP!SumWhere(a, type, "settled")' = LP!SumWhere(a, type, "settled")
      /\ LP!SumWhere(a, "debit", "pending")' =
            LP!SumWhere(a, "debit", "pending")
                + IF a = request[i].buyer THEN request[i].amount ELSE 0
  BY <1>1, <1>2, <1>3, <1>4, LP!CreateSums, AmountsAreInts, FiniteIsFinite
<1>6. /\ L!SumWhere(a, "credit", "settled")' = L!SumWhere(a, "credit", "settled")
      /\ L!SumWhere(a, "debit", "settled")' = L!SumWhere(a, "debit", "settled")
      /\ L!SumWhere(a, "debit", "pending")' =
            L!SumWhere(a, "debit", "pending")
                + IF a = request[i].buyer THEN request[i].amount ELSE 0
  BY <1>5, LedgerSums
<1>7. \A type, status : L!SumWhere(a, type, status) \in Int
  BY <1>4, SumsAreInts DEF IInv, StateTypeOK
<1> QED
  BY <1>3, <1>6, <1>7 DEF L!GetBalance, L!GetAvailableBalance

\* Both rows of an intent that is about to settle.
LEMMA PendingPair ==
    ASSUME IInv, NEW i \in Intents, pc[i] = "settle", L!RowsOf(i) # {}
    PROVE  \E d, c \in entries :
              /\ d.transaction_id = i /\ d.entry_type = "debit" /\ d.status = "pending"
              /\ d.account_id = request[i].buyer /\ d.amount = request[i].amount
              /\ c.transaction_id = i /\ c.entry_type = "credit" /\ c.status = "pending"
              /\ c.account_id = request[i].seller /\ c.amount = request[i].amount
<1>1. settlement[i] # "settled"
  BY DEF IInv, Progress
<1>2. \A e \in entries : e.transaction_id = i =>
        /\ e.account_id = IF e.entry_type = "debit" THEN request[i].buyer ELSE request[i].seller
        /\ e.amount = request[i].amount
        /\ e.status = "pending"
        /\ e.entry_type \in {"debit", "credit"}
  BY <1>1 DEF IInv, RowsFollow, StateTypeOK, L!TypeOK, L!LedgerEntry, L!EntryType
<1>3. PICK e \in entries : e.transaction_id = i
  BY DEF L!RowsOf
<1>4. PICK f \in entries : f.transaction_id = i /\ f.entry_type # e.entry_type
  BY <1>3 DEF IInv, PairsIntact, L!DoubleEntry, L!Counterpart
<1>5. CASE e.entry_type = "debit"
  BY <1>2, <1>3, <1>4, <1>5
<1>6. CASE e.entry_type # "debit"
  BY <1>2, <1>3, <1>4, <1>6
<1> QED
  BY <1>5, <1>6

LEMMA SettleSums ==
    ASSUME IInv, MoneyInv, NEW i \in Intents, Settle(i), NEW a
    PROVE  /\ L!SumWhere(a, "credit", "settled")' = L!SumWhere(a, "credit", "settled")
                  + IF a = request[i].seller THEN request[i].amount ELSE 0
           /\ L!GetBalance(a)' = L!GetBalance(a)
                  - (IF a = request[i].buyer THEN request[i].amount ELSE 0)
                  + (IF a = request[i].seller THEN request[i].amount ELSE 0)
           /\ L!GetAvailableBalance(a)' = L!GetAvailableBalance(a)
                  + IF a = request[i].seller THEN request[i].amount ELSE 0
<1>1. LP!TypeOK /\ LP!OneRowPerType
  BY LedgerInvariant DEF IInv, StateTypeOK, LP!IInv, LP!DoubleEntry
<1>2. IsFiniteSet(entries)
  BY DEF MoneyInv
<1>3. PICK d, c \in entries :
              /\ d.transaction_id = i /\ d.entry_type = "debit" /\ d.status = "pending"
              /\ d.account_id = request[i].buyer /\ d.amount = request[i].amount
              /\ c.transaction_id = i /\ c.entry_type = "credit" /\ c.status = "pending"
              /\ c.account_id = request[i].seller /\ c.amount = request[i].amount
  BY PendingPair DEF Settle, L!SettleTransaction
<1>4. entries' = LP!WithStatus(i, "settled")
  BY DEF Settle, L!SettleTransaction, L!WithStatus, LP!WithStatus
<1>5. request[i].amount \in Int
  BY <1>3, AmountsAreInts DEF IInv, StateTypeOK, L!TypeOK, L!LedgerEntry
<1>6. /\ LP!SumWhere(a, "debit", "settled")' = LP!SumWhere(a, "debit", "settled")
            + IF request[i].buyer = a THEN request[i].amount ELSE 0
      /\ LP!SumWhere(a, "debit", "pending")' = LP!SumWhere(a, "debit", "pending")
            - IF request[i].buyer = a THEN request[i].amount ELSE 0
  BY <1>1, <1>2, <1>3, <1>4, LP!SettleSums, AmountsAreInts, FiniteIsFinite
<1>7. LP!SumWhere(a, "credit", "settled")' = LP!SumWhere(a, "credit", "settled")
            + IF request[i].seller = a THEN request[i].amount ELSE 0
  BY <1>1, <1>2, <1>3, <1>4, LP!SettleSums, AmountsAreInts, FiniteIsFinite
<1>8. /\ L!SumWhere(a, "debit", "settled")' = L!SumWhere(a, "debit", "settled")
            + IF request[i].buyer = a THEN request[i].amount ELSE 0
      /\ L!SumWhere(a, "debit", "pending")' = L!SumWhere(a, "debit", "pending")
            - IF request[i].buyer = a THEN request[i].amount ELSE 0
      /\ L!SumWhere(a, "credit", "settled")' = L!SumWhere(a, "credit", "settled")
            + IF request[i].seller = a THEN request[i].amount ELSE 0
  BY <1>6, <1>7, LedgerSums
<1>9. \A type, status : L!SumWhere(a, type, status) \in Int
  BY <1>2, SumsAreInts DEF IInv, StateTypeOK
<1> QED
  BY <1>5, <1>8, <1>9 DEF L!GetBalance, L!GetAvailableBalance

LEMMA InitMoney == Init => MoneyInv
<1> SUFFICES ASSUME Init PROVE MoneyInv
  OBVIOUS
<1>0. IInv /\ L!TypeOK
  BY InitEstablishes DEF IInv, StateTypeOK
<1>1. IsFiniteSet(entries)
  <2> DEFINE rows == [a \in Funded |-> OpeningRows(a)]
             T == {OpeningRows(a) : a \in Funded}
  <2>1. rows \in Surjection(Funded, T)
    BY DEF Surjection
  <2>2. IsFiniteSet(T)
    BY <2>1, FundedAssumption, FS_Surjection
  <2>3. \A a : IsFiniteSet(OpeningRows(a))
    <3> SUFFICES ASSUME NEW a PROVE IsFiniteSet(OpeningRows(a))
      OBVIOUS
    <3>1. IsFiniteSet({OpeningRow(a, Treasury, "debit")})
      BY FS_Singleton
    <3>2. IsFiniteSet({OpeningRow(a, Treasury, "debit")} \union {OpeningRow(a, a, "credit")})
      BY <3>1, FS_AddElement
    <3>3. OpeningRows(a) = {OpeningRow(a, Treasury, "debit")} \union {OpeningRow(a, a, "credit")}
      BY DEF OpeningRows
    <3> QED
      BY <3>2, <3>3
  <2>4. entries = UNION T
    BY DEF Init
  <2> HIDE DEF T
  <2> QED
    BY <2>2, <2>3, <2>4, FS_UNION DEF T
<1>2. \A a : /\ \A type, status : L!SumWhere(a, type, status) \in Int
             /\ L!GetBalance(a) \in Int
  BY <1>0, <1>1, SumsAreInts
<1>3. \A j \in Intents : Validated(j) /\ Bounds(j)
  BY DEF Init, Validated, Bounds
<1>4. NoOverdraftWithoutRace
  <2> SUFFICES ASSUME NEW a \in Agents PROVE L!GetAvailableBalance(a) >= 0
    BY DEF NoOverdraftWithoutRace
  <2>1. \A e \in entries : \E b \in Agents : e \in OpeningRows(b)
    BY DEF Init, Funded
  <2>2. LP!Where(a, "debit", "settled") = {} /\ LP!Where(a, "debit", "pending") = {}
    BY <2>1, AgentsAssumption DEF LP!Where, OpeningRows, OpeningRow
  <2>3. L!SumWhere(a, "debit", "settled") = 0 /\ L!SumWhere(a, "debit", "pending") = 0
    BY <2>2, LP!SumNone, LedgerSums, AmountsAreInts DEF LP!SumWhere, LP!Where
  <2>4. \A e \in entries : e.amount >= 0 /\ e.amount \in Int
    BY <2>1, AgentsAssumption DEF OpeningRows, OpeningRow
  <2>5. LP!Where(a, "credit", "settled") \subseteq {OpeningRow(a, a, "credit")}
    BY <2>1, AgentsAssumption DEF LP!Where, OpeningRows, OpeningRow
  <2>6. LP!SumAmounts(LP!Where(a, "credit", "settled")) >= 0
    <3> DEFINE row == OpeningRow(a, a, "credit")
    <3>1. row.amount = Opening[a] /\ Opening[a] \in Nat
      BY AgentsAssumption DEF OpeningRow
    <3>2. IsFiniteSet({})
      BY FS_EmptySet
    <3> HIDE DEF row
    <3>3. LP!SumAmounts({} \union {row}) = LP!SumAmounts({}) + row.amount
      BY <3>1, <3>2, LP!SumAdd, FiniteIsFinite, AmountsAreInts
    <3>4. LP!SumAmounts({}) = 0
      BY LP!SumNone, AmountsAreInts
    <3>5. LP!SumAmounts({row}) = Opening[a]
      BY <3>1, <3>3, <3>4
    <3>6. LP!Where(a, "credit", "settled") \in {{}, {row}}
      BY <2>5 DEF row
    <3> QED
      BY <3>1, <3>4, <3>5, <3>6
  <2>7. L!SumWhere(a, "credit", "settled") >= 0
    BY <2>6, LedgerSums DEF LP!SumWhere, LP!Where
  <2> QED
    BY <1>2, <2>3, <2>7 DEF L!GetBalance, L!GetAvailableBalance
<1> QED
  BY <1>1, <1>3, <1>4 DEF MoneyInv, Init

\* A step that writes no row changes no sum.
LEMMA SumsUntouched ==
    ASSUME UNCHANGED entries
    PROVE  \A a : /\ \A type, status : L!SumWhere(a, type, status)' = L!SumWhere(a, type, status)
                  /\ L!GetBalance(a)' = L!GetBalance(a)
                  /\ L!GetAvailableBalance(a)' = L!GetAvailableBalance(a)
<1>1. \A a, type, status : L!SumWhere(a, type, status)' = L!SumWhere(a, type, status)
  BY DEF L!SumWhere
<1> QED
  BY <1>1 DEF L!GetBalance, L!GetAvailableBalance

LEMMA ReserveKeepsMoney == ASSUME IInv, MoneyInv, NEW i \in Intents, Reserve(i) PROVE MoneyInv'
<1> DEFINE a == request[i].buyer
<1>1. IsFiniteSet(entries')
  <2>1. LP!CreateTransfer(i, request[i].buyer, request[i].seller, request[i].amount)
    BY ReserveIsLedgerStep DEF L!CreateTransfer, LP!CreateTransfer, L!RowsOf, LP!RowsOf,
       L!PairOf, LP!PairOf
  <2> QED
    BY <2>1, LP!StepsKeepFinite, FiniteIsFinite, AmountsAreInts DEF MoneyInv
<1>2. \A b : /\ L!SumWhere(b, "credit", "settled")' = L!SumWhere(b, "credit", "settled")
             /\ L!GetBalance(b)' = L!GetBalance(b)
             /\ L!GetAvailableBalance(b)' = L!GetAvailableBalance(b)
                    - IF b = a THEN request[i].amount ELSE 0
  BY ReserveSums
<1>3. \A b : L!GetAvailableBalance(b) \in Int
  BY SumsAreInts DEF IInv, StateTypeOK, MoneyInv
<1>4. /\ request' = request /\ credits' = credits /\ settled' = settled
      /\ pc' = [pc EXCEPT ![i] = "execute"] /\ pc[i] = "create"
      /\ raced' = IF \E j \in Intents \ {i} : pc[j] = "create" /\ request[j].buyer = a
                     THEN raced \union {a} ELSE raced
  BY DEF Reserve, Goto, Race, Overtakes
<1>5. request[i].amount \in Int /\ request[i].amount > 0
  BY ReserveIsLedgerStep, AmountsAreInts DEF Reserve, L!CreateTransfer
<1>6. ASSUME NEW j \in Intents PROVE Validated(j)' /\ Bounds(j)'
  <2>1. Validated(j)'
    BY <1>4 DEF MoneyInv, Validated, IInv, StateTypeOK, Valid
  <2>2. CASE j = i
    BY <1>4, <2>1, <2>2 DEF Bounds, IInv, StateTypeOK
  <2>3. CASE j # i
    <3>1. pc'[j] = pc[j]
      BY <1>4, <2>3 DEF IInv, StateTypeOK
    <3>2. pc[j] = "create" /\ request[j].buyer = a => a \in raced'
      BY <1>4, <2>3
    <3>3. PICK b : b = request[j].buyer
      OBVIOUS
    <3>4. /\ pc[j] = "read_debits" => credits[j] <= L!SumWhere(b, "credit", "settled")
          /\ pc[j] = "read_pending" => b \in raced \/ settled[j] <= L!GetBalance(b)
          /\ pc[j] = "create" => b \in raced \/ request[j].amount <= L!GetAvailableBalance(b)
      BY <3>3 DEF MoneyInv, Bounds
    <3>5. pc[j] = "create" =>
              b \in raced' \/ request[j].amount <= L!GetAvailableBalance(b)'
      <4>1. b # a => L!GetAvailableBalance(b)' = L!GetAvailableBalance(b)
        BY <1>2, <1>3
      <4> QED
        BY <1>4, <3>2, <3>3, <3>4, <4>1
    <3>6. Bounds(j)'
      <4>1. /\ L!SumWhere(b, "credit", "settled")' = L!SumWhere(b, "credit", "settled")
            /\ L!GetBalance(b)' = L!GetBalance(b)
        BY <1>2
      <4> QED
        BY <1>4, <3>1, <3>3, <3>4, <3>5, <4>1 DEF Bounds
    <3> QED
      BY <2>1, <3>6
  <2> QED
    BY <2>1, <2>2, <2>3
<1>7. NoOverdraftWithoutRace'
  <2> SUFFICES ASSUME NEW b \in Agents, b \notin raced'
               PROVE  L!GetAvailableBalance(b)' >= 0
    BY DEF NoOverdraftWithoutRace
  <2>1. b \notin raced
    BY <1>4
  <2>2. L!GetAvailableBalance(b) >= 0
    BY <2>1 DEF MoneyInv, NoOverdraftWithoutRace
  <2>3. b = a => request[i].amount <= L!GetAvailableBalance(b)
    BY <1>4, <2>1 DEF MoneyInv, Bounds
  <2> HIDE DEF a
  <2> QED
    BY <1>2, <1>3, <1>5, <2>2, <2>3
<1> QED
  BY <1>1, <1>4, <1>6, <1>7 DEF MoneyInv

LEMMA SettleKeepsMoney == ASSUME IInv, MoneyInv, NEW i \in Intents, Settle(i) PROVE MoneyInv'
<1> DEFINE a == request[i].buyer
<1>1. IsFiniteSet(entries')
  <2>1. entries' = LP!WithStatus(i, "settled")
    BY DEF Settle, L!SettleTransaction, L!WithStatus, LP!WithStatus
  <2> QED
    BY <2>1, LP!StepsKeepFinite, FiniteIsFinite, AmountsAreInts DEF MoneyInv
<1>2. request[i].amount \in Int /\ request[i].amount > 0
  <2>1. PICK d \in entries : d.transaction_id = i /\ d.amount = request[i].amount
    BY PendingPair DEF Settle, L!SettleTransaction
  <2> QED
    BY <2>1, AmountsAreInts DEF IInv, StateTypeOK, L!TypeOK, L!LedgerEntry, PairsIntact, L!DoubleEntry
<1>3. \A b : /\ L!SumWhere(b, "credit", "settled")' = L!SumWhere(b, "credit", "settled")
                    + IF b = request[i].seller THEN request[i].amount ELSE 0
             /\ L!GetBalance(b)' = L!GetBalance(b)
                    - (IF b = a THEN request[i].amount ELSE 0)
                    + (IF b = request[i].seller THEN request[i].amount ELSE 0)
             /\ L!GetAvailableBalance(b)' = L!GetAvailableBalance(b)
                    + IF b = request[i].seller THEN request[i].amount ELSE 0
  BY SettleSums
<1>4. \A b : /\ L!SumWhere(b, "credit", "settled") \in Int
             /\ L!GetBalance(b) \in Int
             /\ L!GetAvailableBalance(b) \in Int
  BY SumsAreInts DEF IInv, StateTypeOK, MoneyInv
<1>5. \A b : /\ L!SumWhere(b, "credit", "settled") <= L!SumWhere(b, "credit", "settled")'
             /\ L!SumWhere(b, "credit", "settled")' \in Int
             /\ b # a => L!GetBalance(b) <= L!GetBalance(b)'
             /\ L!GetBalance(b)' \in Int
             /\ L!GetAvailableBalance(b) <= L!GetAvailableBalance(b)'
             /\ L!GetAvailableBalance(b)' \in Int
  BY <1>2, <1>3, <1>4
<1>6. /\ request' = request /\ credits' = credits /\ settled' = settled
      /\ pc' = [pc EXCEPT ![i] = "end"]
      /\ raced' = IF \E j \in Intents \ {i} : pc[j] = "read_pending" /\ request[j].buyer = a
                     THEN raced \union {a} ELSE raced
  BY DEF Settle, Goto, Race, Overtakes
<1>7. ASSUME NEW j \in Intents PROVE Validated(j)' /\ Bounds(j)'
  <2>1. Validated(j)'
    BY <1>6 DEF MoneyInv, Validated, IInv, StateTypeOK, Valid
  <2>2. CASE j = i
    BY <1>6, <2>1, <2>2 DEF Bounds, IInv, StateTypeOK
  <2>3. CASE j # i
    <3>1. pc'[j] = pc[j] /\ raced \subseteq raced'
      BY <1>6, <2>3 DEF IInv, StateTypeOK
    <3>2. pc[j] = "read_pending" /\ request[j].buyer = a => a \in raced'
      BY <1>6, <2>3
    <3>0. PICK b : b = request[j].buyer
      OBVIOUS
    <3>3. /\ pc[j] = "read_debits" => credits[j] <= L!SumWhere(b, "credit", "settled")
          /\ pc[j] = "read_pending" => b \in raced \/ settled[j] <= L!GetBalance(b)
          /\ pc[j] = "create" => b \in raced \/ request[j].amount <= L!GetAvailableBalance(b)
          /\ credits[j] \in Int /\ settled[j] \in Int
      BY <3>0 DEF MoneyInv, Bounds
    <3>4. pc[j] = "create" => request[j].amount \in Int
      BY RequestsAssumption DEF IInv, Progress
    <3>5. pc[j] = "read_debits" => credits[j] <= L!SumWhere(b, "credit", "settled")'
      <4>1. /\ L!SumWhere(b, "credit", "settled") <= L!SumWhere(b, "credit", "settled")'
            /\ L!SumWhere(b, "credit", "settled") \in Int
            /\ L!SumWhere(b, "credit", "settled")' \in Int
        BY <1>4, <1>5
      <4> QED
        BY <3>3, <4>1
    <3>6. pc[j] = "read_pending" => b \in raced' \/ settled[j] <= L!GetBalance(b)'
      <4>1. /\ b # a => L!GetBalance(b) <= L!GetBalance(b)'
            /\ L!GetBalance(b) \in Int
            /\ L!GetBalance(b)' \in Int
        BY <1>4, <1>5
      <4> QED
        BY <3>0, <3>1, <3>2, <3>3, <4>1
    <3>7. pc[j] = "create" => b \in raced' \/ request[j].amount <= L!GetAvailableBalance(b)'
      <4>1. /\ L!GetAvailableBalance(b) <= L!GetAvailableBalance(b)'
            /\ L!GetAvailableBalance(b) \in Int
            /\ L!GetAvailableBalance(b)' \in Int
        BY <1>4, <1>5
      <4> QED
        BY <3>1, <3>3, <3>4, <4>1
    <3>8. Bounds(j)'
      BY <1>6, <3>0, <3>1, <3>5, <3>6, <3>7 DEF Bounds
    <3> QED
      BY <2>1, <3>8
  <2> QED
    BY <2>1, <2>2, <2>3
<1>8. NoOverdraftWithoutRace'
  <2> SUFFICES ASSUME NEW b \in Agents, b \notin raced'
               PROVE  L!GetAvailableBalance(b)' >= 0
    BY DEF NoOverdraftWithoutRace
  <2>1. b \notin raced
    BY <1>6
  <2>2. L!GetAvailableBalance(b) >= 0
    BY <2>1 DEF MoneyInv, NoOverdraftWithoutRace
  <2> QED
    BY <1>4, <1>5, <2>2
<1> QED
  BY <1>1, <1>6, <1>7, <1>8 DEF MoneyInv

\* The three SELECTs: what is read is what is there at that moment.
LEMMA ReadsKeepMoney ==
    ASSUME IInv, MoneyInv, NEW i \in Intents,
           ReadCredits(i) \/ ReadDebits(i) \/ ReadPending(i)
    PROVE  MoneyInv'
<1>1. /\ entries' = entries /\ request' = request /\ raced' = raced
      /\ \A j \in Intents \ {i} :
             pc'[j] = pc[j] /\ credits'[j] = credits[j] /\ settled'[j] = settled[j]
  <2>1. \A j \in Intents \ {i} : pc'[j] = pc[j]
    BY DEF ReadCredits, ReadDebits, ReadPending, Goto, EndWithError, IInv, StateTypeOK
  <2>2. \A j \in Intents \ {i} : credits'[j] = credits[j] /\ settled'[j] = settled[j]
    BY DEF ReadCredits, ReadDebits, ReadPending, MoneyInv
  <2> QED
    BY <2>1, <2>2 DEF ReadCredits, ReadDebits, ReadPending
<1>2. \A b : /\ \A type, status : L!SumWhere(b, type, status)' = L!SumWhere(b, type, status)
             /\ L!GetBalance(b)' = L!GetBalance(b)
             /\ L!GetAvailableBalance(b)' = L!GetAvailableBalance(b)
  BY <1>1, SumsUntouched
<1>3. \A b : /\ \A type, status : L!SumWhere(b, type, status) \in Int
             /\ L!GetBalance(b) \in Int
             /\ L!GetAvailableBalance(b) \in Int
  BY SumsAreInts DEF IInv, StateTypeOK, MoneyInv
<1>4. /\ credits[i] \in Int /\ settled[i] \in Int /\ Bounds(i) /\ Validated(i)
      /\ pc[i] = "read_pending" => request[i].amount \in Int
  BY RequestsAssumption DEF MoneyInv, IInv, Progress
<1>5. Validated(i)'
  BY <1>1, <1>4
     DEF Validated, Valid, ReadCredits, ReadDebits, ReadPending, Goto, EndWithError, IInv, StateTypeOK
<1>6. Bounds(i)' /\ credits'[i] \in Int /\ settled'[i] \in Int
  <2>1. CASE ReadCredits(i)
    <3>1. /\ pc'[i] = "read_debits"
          /\ credits'[i] = L!SumWhere(request[i].buyer, "credit", "settled")
          /\ settled'[i] = settled[i]
      BY <2>1 DEF ReadCredits, Goto, MoneyInv, IInv, StateTypeOK
    <3>2. PICK b : b = request[i].buyer
      OBVIOUS
    <3>3. /\ L!SumWhere(b, "credit", "settled")' = L!SumWhere(b, "credit", "settled")
          /\ L!SumWhere(b, "credit", "settled") \in Int
      BY <1>2, <1>3
    <3> QED
      BY <1>1, <1>4, <3>1, <3>2, <3>3 DEF Bounds
  <2>2. CASE ReadDebits(i)
    <3>1. /\ pc[i] = "read_debits" /\ pc'[i] = "read_pending" /\ credits'[i] = 0
          /\ settled'[i] = credits[i] - L!SumWhere(request[i].buyer, "debit", "settled")
      BY <2>2 DEF ReadDebits, Goto, MoneyInv, IInv, StateTypeOK
    <3>2. credits[i] <= L!SumWhere(request[i].buyer, "credit", "settled")
      BY <1>4, <3>1 DEF Bounds
    <3>3. settled'[i] \in Int /\ settled'[i] <= L!GetBalance(request[i].buyer)
      BY <1>3, <1>4, <3>1, <3>2 DEF L!GetBalance
    <3> QED
      BY <1>1, <1>2, <3>1, <3>3 DEF Bounds
  <2>3. CASE ReadPending(i)
    <3>1. /\ pc[i] = "read_pending" /\ settled'[i] = 0 /\ credits'[i] = credits[i]
          /\ \/ pc'[i] = "end"
             \/ /\ pc'[i] = "create"
                /\ ~ (settled[i] - L!SumWhere(request[i].buyer, "debit", "pending")
                          < request[i].amount)
      BY <2>3 DEF ReadPending, SeenAvailable, Goto, EndWithError, MoneyInv, IInv, StateTypeOK
    <3>2. request[i].buyer \in raced \/ settled[i] <= L!GetBalance(request[i].buyer)
      BY <1>4, <3>1 DEF Bounds
    <3>3. pc'[i] = "create" =>
              request[i].buyer \in raced
                  \/ request[i].amount <= L!GetAvailableBalance(request[i].buyer)
      BY <1>3, <1>4, <3>1, <3>2 DEF L!GetAvailableBalance
    <3>4. PICK b : b = request[i].buyer
      OBVIOUS
    <3>5. L!GetAvailableBalance(b)' = L!GetAvailableBalance(b)
      BY <1>2
    <3>6. Bounds(i)'
      BY <1>1, <3>1, <3>3, <3>4, <3>5 DEF Bounds
    <3> QED
      BY <1>4, <3>1, <3>6
  <2> QED
    BY <2>1, <2>2, <2>3
<1>7. ASSUME NEW j \in Intents PROVE Validated(j)' /\ Bounds(j)'
  <2>1. CASE j = i
    BY <1>5, <1>6, <2>1
  <2>2. CASE j # i
    BY <1>1, <1>2, <2>2 DEF MoneyInv, Validated, Valid, Bounds
  <2> QED
    BY <2>1, <2>2
<1>8. credits' \in [Intents -> Int] /\ settled' \in [Intents -> Int]
  BY <1>1, <1>4, <1>6 DEF MoneyInv, ReadCredits, ReadDebits, ReadPending
<1>9. NoOverdraftWithoutRace'
  BY <1>1, <1>2 DEF MoneyInv, NoOverdraftWithoutRace
<1> QED
  BY <1>1, <1>7, <1>8, <1>9 DEF MoneyInv

LEMMA MoneyStepPreserves == IInv /\ MoneyInv /\ [Next]_vars => MoneyInv'
<1> SUFFICES ASSUME IInv, MoneyInv, [Next]_vars PROVE MoneyInv'
  OBVIOUS
<1> DEFINE Quiet(i) ==
        /\ UNCHANGED <<entries, raced>>
        /\ \A j \in Intents \ {i} : pc'[j] = pc[j] /\ request'[j] = request[j]
                                        /\ credits'[j] = credits[j] /\ settled'[j] = settled[j]
        /\ Validated(i)'
        /\ pc'[i] \in {"read_debits", "read_pending", "create"} =>
              /\ pc'[i] = pc[i] /\ request'[i] = request[i]
              /\ credits'[i] = credits[i] /\ settled'[i] = settled[i]
        /\ credits' \in [Intents -> Int]
        /\ settled' \in [Intents -> Int]
<1>1. ASSUME NEW i \in Intents, Quiet(i) PROVE MoneyInv'
  <2>1. \A b : /\ \A type, status : L!SumWhere(b, type, status)' = L!SumWhere(b, type, status)
               /\ L!GetBalance(b)' = L!GetBalance(b)
               /\ L!GetAvailableBalance(b)' = L!GetAvailableBalance(b)
    BY <1>1, SumsUntouched
  <2>2. ASSUME NEW j \in Intents PROVE Validated(j)' /\ Bounds(j)'
    <3>1. Validated(j) /\ Bounds(j)
      BY DEF MoneyInv
    <3>2. CASE j = i
      BY <1>1, <2>1, <3>1, <3>2 DEF Bounds
    <3>3. CASE j # i
      BY <1>1, <2>1, <3>1, <3>3 DEF Validated, Valid, Bounds
    <3> QED
      BY <3>2, <3>3
  <2>3. NoOverdraftWithoutRace'
    BY <1>1, <2>1 DEF MoneyInv, NoOverdraftWithoutRace
  <2> QED
    BY <1>1, <2>2, <2>3 DEF MoneyInv
<1>2. ASSUME NEW i \in Intents,
             \/ Receive(i) \/ ValidateIntent(i) \/ CompliancePass(i) \/ ComplianceReject(i)
             \/ SendTransfer(i) \/ TransferAnswered(i) \/ TransferRaised(i) \/ Respond(i)
             \/ PspProcess(i) \/ Crash(i)
      PROVE  Quiet(i)
  <2>0. Validated(i)
    BY DEF MoneyInv
  <2>1. CASE Receive(i)
    <3>1. pc'[i] = "validate" /\ \A j \in Intents \ {i} : pc'[j] = pc[j]
      BY <2>1 DEF Receive, Goto, IInv, StateTypeOK
    <3>2. \A j \in Intents \ {i} : request'[j] = request[j]
      BY <2>1 DEF Receive, IInv, StateTypeOK
    <3>3. entries' = entries /\ raced' = raced /\ credits' = credits /\ settled' = settled
      BY <2>1 DEF Receive
    <3>4. Validated(i)'
      BY <3>1 DEF Validated
    <3> QED
      BY <3>1, <3>2, <3>3, <3>4 DEF MoneyInv
  <2>2. CASE ValidateIntent(i)
    BY <2>2 DEF ValidateIntent, Goto, EndWithError, Validated, Valid, MoneyInv, IInv, StateTypeOK
  <2>3. CASE CompliancePass(i)
    BY <2>0, <2>3 DEF CompliancePass, Goto, Validated, Valid, MoneyInv, IInv, StateTypeOK
  <2>4. CASE ComplianceReject(i)
    BY <2>4 DEF ComplianceReject, Goto, EndWithError, Validated, MoneyInv, IInv, StateTypeOK
  <2>5. CASE SendTransfer(i)
    BY <2>5 DEF SendTransfer, Goto, EndWithError, Validated, MoneyInv, IInv, StateTypeOK
  <2>6. CASE TransferAnswered(i)
    BY <2>6 DEF TransferAnswered, Goto, EndWithError, Validated, MoneyInv, IInv, StateTypeOK
  <2>7. CASE TransferRaised(i)
    BY <2>7 DEF TransferRaised, Goto, EndWithError, Validated, MoneyInv, IInv, StateTypeOK
  <2>8. CASE Respond(i)
    BY <2>8 DEF Respond, Goto, Validated, MoneyInv, IInv, StateTypeOK
  <2>9. CASE PspProcess(i)
    BY <2>0, <2>9 DEF PspProcess, Validated, Valid, MoneyInv, IInv, StateTypeOK
  <2>10. CASE Crash(i)
    <3>1. pc'[i] = "lost" /\ \A j \in Intents \ {i} : pc'[j] = pc[j]
      BY <2>10 DEF Crash, Goto, IInv, StateTypeOK
    <3>2. /\ credits' \in [Intents -> Int] /\ settled' \in [Intents -> Int]
          /\ \A j \in Intents \ {i} : credits'[j] = credits[j] /\ settled'[j] = settled[j]
      BY <2>10 DEF Crash, MoneyInv
    <3>3. entries' = entries /\ raced' = raced /\ request' = request
      BY <2>10 DEF Crash
    <3>4. Validated(i)'
      BY <3>1 DEF Validated
    <3> QED
      BY <3>1, <3>2, <3>3, <3>4
  <2> QED
    BY <1>2, <2>1, <2>2, <2>3, <2>4, <2>5, <2>6, <2>7, <2>8, <2>9, <2>10
<1>3. CASE UNCHANGED vars
  <2>1. UNCHANGED <<entries, raced, pc, request, credits, settled>>
    BY <1>3 DEF vars
  <2>2. \A b : /\ \A type, status : L!SumWhere(b, type, status)' = L!SumWhere(b, type, status)
               /\ L!GetBalance(b)' = L!GetBalance(b)
               /\ L!GetAvailableBalance(b)' = L!GetAvailableBalance(b)
    BY <2>1, SumsUntouched
  <2> QED
    BY <2>1, <2>2 DEF MoneyInv, Validated, Valid, Bounds, NoOverdraftWithoutRace
<1> HIDE DEF Quiet
<1> QED
  BY <1>1, <1>2, <1>3, ReserveKeepsMoney, SettleKeepsMoney, ReadsKeepMoney DEF Next, Step

-----------------------------------------------------------------------------
(* The theorems. *)

\* The invariant holds however intents, Adyen and crashes interleave.
THEOREM SpecKeepsIInv == Spec => []IInv
BY InitEstablishes, StepPreserves, PTL DEF Spec

\* However intents interleave, time out or crash, money stays held only by a graph
\* on its way to settle, by one that died on that way, or by one that failed.
THEOREM ReservationsHaveACause == Spec => []HeldForCause
<1>1. IInv => HeldForCause
  <2> SUFFICES ASSUME IInv, NEW i \in Intents, NEW e \in L!RowsOf(i), e.status = "pending"
               PROVE  \/ pc[i] \in {"execute", "awaiting", "settle"}
                      \/ pc[i] = "lost" /\ settlement[i] # "settled" /\ answer[i] = "none"
                      \/ pc[i] = "end" /\ error[i]
                      \/ answer[i] = "failed"
    BY DEF HeldForCause
  <2>1. settlement[i] # "settled"
    BY DEF IInv, RowsFollow, L!RowsOf
  <2>2. pc[i] \in AfterReserve /\ Progress(i)
    BY DEF IInv, Progress
  <2>3. pc[i] \in {"end", "done"} => error[i]
    BY <2>1, <2>2 DEF Progress
  <2>4. answer[i] # "none" => answer[i] = "failed"
    BY <2>2, <2>3 DEF Progress
  <2> QED
    BY <2>1, <2>2, <2>3, <2>4 DEF AfterReserve, Progress
<1> QED
  BY <1>1, SpecKeepsIInv, PTL

\* If Adyen answers nothing but the documented codes, execute_transfer and settle
\* move money only for transfers it accepted.
THEOREM SettlementIsAccepted ==
    ASSUME ResultCodes \subseteq Accepted \union {Refused}
    PROVE  Spec => []SettledOnlyWhenAccepted
<1>1. IInv => SettledOnlyWhenAccepted
  <2> SUFFICES ASSUME IInv, NEW e \in entries, e.transaction_id \in Intents,
                      e.status = "settled"
               PROVE  psp[e.transaction_id] \in Accepted
    BY DEF SettledOnlyWhenAccepted
  <2>1. settlement[e.transaction_id] = "settled"
    BY DEF IInv, RowsFollow
  <2> QED
    BY <2>1 DEF IInv, Progress
<1> QED
  BY <1>1, SpecKeepsIInv, PTL

\* What the API answers agrees with the ledger.
THEOREM AnswersAreTrue == Spec => []AnswerMatchesLedger
<1>1. IInv => AnswerMatchesLedger
  <2> SUFFICES ASSUME IInv, NEW i \in Intents
               PROVE  /\ answer[i] # "pending"
                      /\ answer[i] = "settled" =>
                            \A account \in {request[i].buyer, request[i].seller} :
                                \E e \in L!RowsOf(i) : /\ e.account_id = account
                                                       /\ e.amount = request[i].amount
                                                       /\ e.status = "settled"
                      /\ answer[i] = "failed" => \A e \in L!RowsOf(i) : e.status # "settled"
    BY DEF AnswerMatchesLedger
  <2>1. Progress(i)
    BY DEF IInv
  <2>2. answer[i] # "none" => /\ pc[i] = "done"
                              /\ answer[i] = "settled" => settlement[i] = "settled"
                              /\ answer[i] = "failed" => settlement[i] # "settled"
    BY <2>1 DEF Progress
  <2>3. answer[i] # "pending"
    BY <2>1 DEF Progress
  <2>4. \A e \in L!RowsOf(i) : /\ e \in entries
                               /\ e.transaction_id = i
                               /\ e.account_id = IF e.entry_type = "debit"
                                                    THEN request[i].buyer ELSE request[i].seller
                               /\ e.amount = request[i].amount
                               /\ e.status = IF settlement[i] = "settled"
                                                THEN "settled" ELSE "pending"
    BY DEF IInv, RowsFollow, L!RowsOf
  <2>5. ASSUME answer[i] = "settled"
        PROVE  \A account \in {request[i].buyer, request[i].seller} :
                   \E e \in L!RowsOf(i) : /\ e.account_id = account
                                          /\ e.amount = request[i].amount
                                          /\ e.status = "settled"
    <3>1. settlement[i] = "settled"
      BY <2>2, <2>5
    <3>2. PICK e \in L!RowsOf(i) : TRUE
      BY <3>1, <2>1 DEF Progress
    <3>3. PICK f \in L!RowsOf(i) : f.entry_type # e.entry_type
      BY <3>2, <2>4 DEF IInv, PairsIntact, L!DoubleEntry, L!Counterpart, L!RowsOf
    <3>4. {e.entry_type, f.entry_type} = {"debit", "credit"}
      BY <3>2, <3>3, <2>4
         DEF IInv, StateTypeOK, L!TypeOK, L!LedgerEntry, L!EntryType
    <3> QED
      BY <3>1, <3>2, <3>3, <3>4, <2>4
  <2>6. answer[i] = "failed" => \A e \in L!RowsOf(i) : e.status # "settled"
    BY <2>2, <2>4
  <2> QED
    BY <2>3, <2>5, <2>6
<1> QED
  BY <1>1, SpecKeepsIInv, PTL

\* An answered intent's rows never change again, and no settled row ever does: a
\* graph settles only its own transaction, and only once.
THEOREM AnswersAreFinal == Spec => AnswerFinal
<1> DEFINE Kept == /\ \A i \in Intents : answer[i] # "none" => L!RowsOf(i)' = L!RowsOf(i)
                   /\ \A e \in entries : e.status = "settled" => e \in entries'
<1>1. IInv /\ [Next]_vars => [Kept]_vars
  <2> SUFFICES ASSUME IInv, Next PROVE Kept
    OBVIOUS
  <2>1. ASSUME UNCHANGED entries PROVE Kept
    BY <2>1 DEF L!RowsOf
  <2>2. ASSUME NEW i \in Intents, Reserve(i) PROVE Kept
    <3>1. answer[i] = "none"
      BY <2>2 DEF IInv, Progress, Reserve
    <3>2. entries' = entries \union L!PairOf(i, request[i].buyer, request[i].seller, request[i].amount)
      BY <2>2 DEF Reserve, L!CreateTransfer
    <3> QED
      BY <3>1, <3>2 DEF L!PairOf, L!RowsOf
  <2>3. ASSUME NEW i \in Intents, Settle(i) PROVE Kept
    <3>1. answer[i] = "none" /\ settlement[i] # "settled"
      BY <2>3 DEF IInv, Progress, Settle
    <3>2. entries' = L!WithStatus(i, "settled")
      BY <2>3 DEF Settle, L!SettleTransaction
    <3>3. \A e \in entries : e \in L!LedgerEntry
      BY DEF IInv, StateTypeOK, L!TypeOK
    <3>4. \A j \in Intents : j # i => L!RowsOf(j)' = L!RowsOf(j)
      BY <3>2, <3>3 DEF L!WithStatus, L!RowsOf, L!LedgerEntry
    <3>5. \A e \in entries : e.status = "settled" => e.transaction_id # i
      BY <3>1 DEF IInv, RowsFollow
    <3>6. \A e \in entries : e.status = "settled" => e \in entries'
      BY <3>2, <3>5 DEF L!WithStatus
    <3> QED
      BY <3>1, <3>4, <3>6
  <2> QED
    BY <2>1, <2>2, <2>3
       DEF Next, Step, Receive, ValidateIntent, CompliancePass, ComplianceReject, ReadCredits,
           ReadDebits, ReadPending, SendTransfer, TransferAnswered, TransferRaised, Respond,
           PspProcess, Crash
<1> QED
  BY <1>1, SpecKeepsIInv, PTL DEF Spec, AnswerFinal

\* What get_balance adds up stays bounded by what the intents have read of it.
THEOREM SpecKeepsMoney == Spec => []MoneyInv
BY SpecKeepsIInv, InitMoney, MoneyStepPreserves, PTL DEF Spec

\* The type of the whole state, the two sums each graph keeps between SELECTs included.
THEOREM TypeCorrect == Spec => []TypeOK
<1>1. IInv /\ MoneyInv => TypeOK
  BY DEF IInv, MoneyInv, TypeOK
<1> QED
  BY <1>1, SpecKeepsIInv, SpecKeepsMoney, PTL

\* reserve_funds: whatever crashes, times out or interleaves, an agent commits more
\* than it has only if one of the two races took place on its account: for every
\* number of agents and intents, and every funding.
THEOREM OverdraftsNeedARace == Spec => []NoOverdraftWithoutRace
<1>1. MoneyInv => NoOverdraftWithoutRace
  BY DEF MoneyInv
<1> QED
  BY <1>1, SpecKeepsMoney, PTL

-----------------------------------------------------------------------------
(* The intents implement AgentTransfers: create_transfer holds, settle pays. *)

LEMMA InitIsTransfersInit == Init => Transfers!Init
<1> SUFFICES ASSUME Init PROVE Transfers!Init
  OBVIOUS
<1>1. IInv /\ MoneyInv
  BY InitEstablishes, InitMoney
<1>2. \A i \in Intents : L!RowsOf(i) = {}
  BY <1>1 DEF Init, IInv, Progress, AfterReserve
<1>3. [i \in Intents |-> TransferOf(i)] = [i \in Intents |-> Transfers!New]
  BY <1>2 DEF TransferOf, Transfers!New
<1>4. [a \in Accounts |-> L!GetBalance(a)] \in [Accounts -> Int]
  BY <1>1, SumsAreInts DEF IInv, StateTypeOK, MoneyInv
<1> QED
  BY <1>3, <1>4 DEF Transfers!Init

\* What the transfer of an intent with rows d and c is.
LEMMA TransferIs ==
    ASSUME L!OneRowPerType, NEW i \in Intents, NEW d \in L!RowsOf(i), NEW c \in L!RowsOf(i),
           d.entry_type = "debit", c.entry_type = "credit"
    PROVE  TransferOf(i) = [stage  |-> IF d.status = "settled" THEN "paid" ELSE "held",
                            from   |-> d.account_id,
                            to     |-> c.account_id,
                            amount |-> c.amount]
<1>1. (CHOOSE e \in L!RowsOf(i) : e.entry_type = "debit") = d
  BY DEF L!OneRowPerType, L!RowsOf
<1>2. (CHOOSE e \in L!RowsOf(i) : e.entry_type = "credit") = c
  BY DEF L!OneRowPerType, L!RowsOf
<1> QED
  BY <1>1, <1>2 DEF TransferOf

LEMMA ReserveIsHold ==
    ASSUME IInv, MoneyInv, IInv', NEW i \in Intents, Reserve(i)
    PROVE  Transfers!Hold(i, request[i].buyer, request[i].seller, request[i].amount)
<1> DEFINE d == [transaction_id |-> i, account_id |-> request[i].buyer, entry_type |-> "debit",
                 amount |-> request[i].amount, status |-> "pending"]
           c == [transaction_id |-> i, account_id |-> request[i].seller, entry_type |-> "credit",
                 amount |-> request[i].amount, status |-> "pending"]
           held == [stage |-> "held", from |-> request[i].buyer, to |-> request[i].seller,
                    amount |-> request[i].amount]
<1>1. /\ pc[i] = "create" /\ L!RowsOf(i) = {} /\ request[i].amount > 0
      /\ entries' = entries \union {d, c}
  BY DEF Reserve, L!CreateTransfer, L!PairOf
<1>2. request[i].buyer # request[i].seller
  BY <1>1 DEF MoneyInv, Validated, Valid
<1>3. TransferOf(i) = Transfers!New
  BY <1>1 DEF TransferOf, Transfers!New
<1>4. TransferOf(i)' = held
  <2>1. d \in L!RowsOf(i)' /\ c \in L!RowsOf(i)'
    BY <1>1 DEF L!RowsOf
  <2>2. L!OneRowPerType'
    BY DEF IInv, PairsIntact, L!DoubleEntry
  <2>3. \A e, f \in L!RowsOf(i)' : e.entry_type = f.entry_type => e = f
    BY <2>2 DEF L!OneRowPerType, L!RowsOf
  <2>4. (CHOOSE e \in L!RowsOf(i)' : e.entry_type = "debit") = d
    BY <2>1, <2>3
  <2>5. (CHOOSE e \in L!RowsOf(i)' : e.entry_type = "credit") = c
    BY <2>1, <2>3
  <2>6. L!RowsOf(i)' # {}
    BY <2>1
  <2>7. /\ d.status = "pending" /\ d.account_id = request[i].buyer
        /\ c.account_id = request[i].seller /\ c.amount = request[i].amount
    OBVIOUS
  <2> HIDE DEF d, c
  <2> QED
    BY <2>4, <2>5, <2>6, <2>7 DEF TransferOf
<1>5. \A j \in Intents : j # i => TransferOf(j)' = TransferOf(j)
  <2>1. \A j \in Intents : j # i => L!RowsOf(j)' = L!RowsOf(j)
    BY <1>1 DEF L!RowsOf
  <2> QED
    BY <2>1 DEF TransferOf
<1>6. \A a : L!GetBalance(a)' = L!GetBalance(a)
  BY ReserveSums
<1> HIDE DEF held
<1>7. [j \in Intents |-> TransferOf(j)]' =
          [[j \in Intents |-> TransferOf(j)] EXCEPT ![i] = held]
  BY <1>4, <1>5
<1>8. [a \in Accounts |-> L!GetBalance(a)]' = [a \in Accounts |-> L!GetBalance(a)]
  BY <1>6
<1> QED
  BY <1>1, <1>2, <1>3, <1>7, <1>8 DEF Transfers!Hold, held

LEMMA SettleIsPay ==
    ASSUME IInv, MoneyInv, IInv', NEW i \in Intents, Settle(i)
    PROVE  Transfers!Pay(i)
<1> DEFINE t == [j \in Intents |-> TransferOf(j)]
           b == [a \in Accounts |-> L!GetBalance(a)]
           x == request[i].buyer
           y == request[i].seller
           n == request[i].amount
<1>1. PICK d, c \in entries :
              /\ d.transaction_id = i /\ d.entry_type = "debit" /\ d.status = "pending"
              /\ d.account_id = x /\ d.amount = n
              /\ c.transaction_id = i /\ c.entry_type = "credit" /\ c.status = "pending"
              /\ c.account_id = y /\ c.amount = n
  BY PendingPair DEF Settle, L!SettleTransaction
<1>2. d \in L!LedgerEntry /\ c \in L!LedgerEntry
  BY DEF IInv, StateTypeOK, L!TypeOK
<1>3. entries' = L!WithStatus(i, "settled")
  BY DEF Settle, L!SettleTransaction
<1>4. TransferOf(i) = [stage |-> "held", from |-> x, to |-> y, amount |-> n]
  <2>1. d \in L!RowsOf(i) /\ c \in L!RowsOf(i)
    BY <1>1 DEF L!RowsOf
  <2>2. L!OneRowPerType
    BY DEF IInv, PairsIntact, L!DoubleEntry
  <2>3. TransferOf(i) = [stage  |-> IF d.status = "settled" THEN "paid" ELSE "held",
                         from   |-> d.account_id, to |-> c.account_id, amount |-> c.amount]
    BY <1>1, <2>1, <2>2, TransferIs
  <2> QED
    BY <1>1, <2>3
<1>5. TransferOf(i)' = [stage |-> "paid", from |-> x, to |-> y, amount |-> n]
  <2> DEFINE d2 == [d EXCEPT !.status = "settled"]
             c2 == [c EXCEPT !.status = "settled"]
  <2>1. d2 \in entries' /\ c2 \in entries'
    BY <1>1, <1>3 DEF L!WithStatus
  <2>2. /\ d2.transaction_id = i /\ d2.entry_type = "debit" /\ d2.status = "settled"
        /\ d2.account_id = x /\ d2.amount = n
        /\ c2.transaction_id = i /\ c2.entry_type = "credit" /\ c2.status = "settled"
        /\ c2.account_id = y /\ c2.amount = n
    BY <1>1, <1>2 DEF L!LedgerEntry
  <2> HIDE DEF d2, c2
  <2>3. d2 \in L!RowsOf(i)' /\ c2 \in L!RowsOf(i)'
    BY <2>1, <2>2 DEF L!RowsOf
  <2>4. L!OneRowPerType'
    BY DEF IInv, PairsIntact, L!DoubleEntry
  <2>5. \A e, f \in L!RowsOf(i)' : e.entry_type = f.entry_type => e = f
    BY <2>4 DEF L!OneRowPerType, L!RowsOf
  <2>6. (CHOOSE e \in L!RowsOf(i)' : e.entry_type = "debit") = d2
    BY <2>2, <2>3, <2>5
  <2>7. (CHOOSE e \in L!RowsOf(i)' : e.entry_type = "credit") = c2
    BY <2>2, <2>3, <2>5
  <2>8. L!RowsOf(i)' # {}
    BY <2>3
  <2> QED
    BY <2>2, <2>6, <2>7, <2>8 DEF TransferOf
<1>6. \A j \in Intents : j # i => TransferOf(j)' = TransferOf(j)
  <2>1. \A e \in entries : e \in L!LedgerEntry
    BY DEF IInv, StateTypeOK, L!TypeOK
  <2>2. \A j \in Intents : j # i => L!RowsOf(j)' = L!RowsOf(j)
    BY <1>3, <2>1 DEF L!WithStatus, L!RowsOf, L!LedgerEntry
  <2> QED
    BY <2>2 DEF TransferOf
<1>7. /\ n \in Int /\ x \in Accounts /\ y \in Accounts
  BY <1>1, <1>2, AmountsAreInts DEF L!LedgerEntry
<1>8. x # y
  BY DEF Settle, MoneyInv, Validated, Valid
<1>9. \A a : L!GetBalance(a)' = L!GetBalance(a) - (IF a = x THEN n ELSE 0) + (IF a = y THEN n ELSE 0)
  BY SettleSums
<1>10. \A a : L!GetBalance(a) \in Int
  BY SumsAreInts DEF IInv, StateTypeOK, MoneyInv
<1> HIDE DEF x, y, n
<1>11. t' = [t EXCEPT ![i].stage = "paid"]
  <2> DEFINE held == [stage |-> "held", from |-> x, to |-> y, amount |-> n]
             paid == [stage |-> "paid", from |-> x, to |-> y, amount |-> n]
  <2>1. [held EXCEPT !.stage = "paid"] = paid
    OBVIOUS
  <2> HIDE DEF held, paid
  <2>2. t[i] = held
    BY <1>4 DEF held
  <2>3. t' = [t EXCEPT ![i] = paid]
    BY <1>5, <1>6 DEF paid
  <2> HIDE DEF t
  <2> QED
    BY <2>1, <2>2, <2>3
<1>12. t[i].stage = "held" /\ t[i].from = x /\ t[i].to = y /\ t[i].amount = n
  BY <1>4
<1>13. b' = [b EXCEPT ![x] = @ - n, ![y] = @ + n]
  <2>1. \A a \in Accounts : b[a] = L!GetBalance(a)
    OBVIOUS
  <2>2. b' = [a \in Accounts |-> L!GetBalance(a)']
    OBVIOUS
  <2>3. b = [a \in Accounts |-> b[a]] /\ DOMAIN b = Accounts
    OBVIOUS
  <2> HIDE DEF b
  <2> QED
    BY <1>7, <1>8, <1>9, <1>10, <2>1, <2>2, <2>3
<1> QED
  BY <1>11, <1>12, <1>13 DEF Transfers!Pay

\* Every step of the graphs holds, pays or leaves every transfer and balance alone.
LEMMA StepIsTransfersStep ==
    IInv /\ MoneyInv /\ IInv' /\ [Next]_vars =>
        [Transfers!Next]_<<[i \in Intents |-> TransferOf(i)], [a \in Accounts |-> L!GetBalance(a)]>>
<1> DEFINE t == [i \in Intents |-> TransferOf(i)]
           b == [a \in Accounts |-> L!GetBalance(a)]
<1> SUFFICES ASSUME IInv, MoneyInv, IInv', [Next]_vars
             PROVE  Transfers!Next \/ (t' = t /\ b' = b)
  OBVIOUS
<1>1. ASSUME UNCHANGED entries PROVE t' = t /\ b' = b
  <2>1. \A i : TransferOf(i)' = TransferOf(i)
    BY <1>1 DEF TransferOf, L!RowsOf
  <2>2. \A a : L!GetBalance(a)' = L!GetBalance(a)
    BY <1>1, SumsUntouched
  <2> QED
    BY <2>1, <2>2
<1>2. ASSUME NEW i \in Intents, Reserve(i) PROVE Transfers!Next
  <2>1. Transfers!Hold(i, request[i].buyer, request[i].seller, request[i].amount)
    BY <1>2, ReserveIsHold
  <2>2. /\ request[i].buyer \in Accounts /\ request[i].seller \in Accounts
        /\ request[i].amount \in Amounts
    BY <1>2, ReserveIsLedgerStep
  <2> QED
    BY <2>1, <2>2 DEF Transfers!Next
<1>3. ASSUME NEW i \in Intents, Settle(i) PROVE Transfers!Next
  BY <1>3, SettleIsPay DEF Transfers!Next
<1> HIDE DEF t, b
<1> QED
  BY <1>1, <1>2, <1>3
     DEF Next, Step, vars, Receive, ValidateIntent, CompliancePass, ComplianceReject, ReadCredits,
         ReadDebits, ReadPending, SendTransfer, TransferAnswered, TransferRaised, Respond,
         PspProcess, Crash

\* Seen through get_balance, the whole graph over the ledger is transfers that hold
\* an amount and then move all of it once, or never.
THEOREM IntentsAreTransfers == Spec => ImplementsTransfers
BY InitIsTransfersInit, StepIsTransfersStep, SpecKeepsIInv, SpecKeepsMoney, PTL
   DEF Spec, ImplementsTransfers, Transfers!Spec
=============================================================================
