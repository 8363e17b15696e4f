--------------------------- MODULE A2ASettlement ---------------------------
(***************************************************************************)
(* Agent-to-agent payments: the settlement graph of agents/a2a_agent.py    *)
(* behind POST /v1/a2a/intent (api/v1/a2a.py), over the ledger of          *)
(* billing/ledger.py and the Adyen client of billing/adyen_client.py.      *)
(*                                                                         *)
(* Every request runs its own copy of the graph, so requests interleave at *)
(* each await: the three SELECTs of get_available_balance, the commits of  *)
(* the ledger, the call to Adyen.  pc[i] names the next thing intent i     *)
(* does.  The state of a graph lives in the process that runs it (the      *)
(* checkpointer is a MemorySaver), so a crash or an unhandled exception    *)
(* leaves the intent "lost" and the rows it wrote as they are.             *)
(***************************************************************************)
EXTENDS Integers, FiniteSets

CONSTANTS
    Intents,        \* requests to POST /intent; also the uuid4 each transfer draws
    Agents,         \* agent ids that requests name
    ActiveAgents,   \* those registered with active=True in _agent_accounts
    WithIban,       \* those registered with a non-empty IBAN
    Requests,       \* the payloads that arrive: [buyer, seller, amount]
    NoRequest,      \* the payload of an intent that has not arrived
    Treasury,       \* the account that funded the agents
    Opening,        \* what each agent was funded with, settled
    ResultCodes     \* the resultCode values Adyen answers a transfer with

Refused == "Refused"
Accepted == {"Authorised", "Pending"}

ASSUME AgentsAssumption ==
    /\ ActiveAgents \subseteq Agents
    /\ WithIban \subseteq Agents
    /\ Treasury \notin Agents
    /\ Opening \in [Agents -> Nat]
    /\ Intents \intersect Agents = {}
ASSUME RequestsAssumption ==
    /\ \A r \in Requests : r.buyer \in Agents /\ r.seller \in Agents /\ r.amount \in Int
    /\ NoRequest \notin Requests
ASSUME ResultCodesAssumption == ResultCodes \intersect {"none", "requested"} = {}

VARIABLES
    entries,        \* the ledger
    request,        \* the payload of each intent
    pc,             \* where each intent's graph is
    credits,        \* what the first SELECT of get_balance returned
    settled,        \* what get_balance returned
    error,          \* state["error"] is set
    settlement,     \* state["settlement_status"]
    answer,         \* the status the API answered with
    psp,            \* Adyen's side of the transfer
    raced           \* history: buyers whose balance check was overtaken

vars == <<entries, request, pc, credits, settled, error, settlement, answer, psp, raced>>

Accounts == Agents \union {Treasury}
Amounts == {r.amount : r \in Requests} \union {Opening[a] : a \in Agents}

L == INSTANCE Ledger WITH Transactions <- Intents \union Agents

Labels ==
    {"idle", "validate", "compliance", "read_credits", "read_debits", "read_pending",
     "create", "execute", "awaiting", "settle", "end", "done", "lost"}

-----------------------------------------------------------------------------
(* The graph of one intent.  A node that sets state["error"] goes to END. *)

Goto(i, label) == pc' = [pc EXCEPT ![i] = label]

EndWithError(i) ==
    /\ error' = [error EXCEPT ![i] = TRUE]
    /\ Goto(i, "end")

\* create_a2a_intent and initiate_a2a_payment: every call starts a new graph
\* with a new intent_id, whatever its idempotency_key.
Receive(i) ==
    /\ pc[i] = "idle"
    /\ \E r \in Requests : request' = [request EXCEPT ![i] = r]
    /\ Goto(i, "validate")
    /\ UNCHANGED <<entries, credits, settled, error, settlement, answer, psp, raced>>

\* Mutant: an agent may pay itself.
ValidSelfPayment(r) ==
    /\ r.amount > 0
    /\ {r.buyer, r.seller} \subseteq ActiveAgents

Valid(r) ==
    /\ r.amount > 0
    /\ r.buyer # r.seller
    /\ {r.buyer, r.seller} \subseteq ActiveAgents

ValidateIntent(i) ==
    /\ pc[i] = "validate"
    /\ IF Valid(request[i])
          THEN Goto(i, "compliance") /\ UNCHANGED error
          ELSE EndWithError(i)
    /\ UNCHANGED <<entries, request, credits, settled, settlement, answer, psp, raced>>

\* The a2a.payment policy rules are configuration: they may let a payment pass ...
CompliancePass(i) ==
    /\ pc[i] = "compliance"
    /\ Goto(i, "read_credits")
    /\ UNCHANGED <<entries, request, credits, settled, error, settlement, answer, psp, raced>>

\* ... or reject it.
ComplianceReject(i) ==
    /\ pc[i] = "compliance"
    /\ EndWithError(i)
    /\ UNCHANGED <<entries, request, credits, settled, settlement, answer, psp, raced>>

(* reserve_funds: get_available_balance is three SELECTs, each its own       *)
(* READ COMMITTED snapshot, and create_transfer a later commit.              *)

ReadCredits(i) ==
    /\ pc[i] = "read_credits"
    /\ credits' = [credits EXCEPT ![i] = L!SumWhere(request[i].buyer, "credit", "settled")]
    /\ Goto(i, "read_debits")
    /\ UNCHANGED <<entries, request, settled, error, settlement, answer, psp, raced>>

ReadDebits(i) ==
    /\ pc[i] = "read_debits"
    /\ settled' = [settled EXCEPT ![i] =
            credits[i] - L!SumWhere(request[i].buyer, "debit", "settled")]
    /\ credits' = [credits EXCEPT ![i] = 0]
    /\ Goto(i, "read_pending")
    /\ UNCHANGED <<entries, request, error, settlement, answer, psp, raced>>

\* Mutant: reservations are not deducted.
SeenSettled(i) == settled[i]

SeenAvailable(i) == settled[i] - L!SumWhere(request[i].buyer, "debit", "pending")

ReadPending(i) ==
    /\ pc[i] = "read_pending"
    /\ settled' = [settled EXCEPT ![i] = 0]
    /\ IF SeenAvailable(i) < request[i].amount
          THEN EndWithError(i)
          ELSE Goto(i, "create") /\ UNCHANGED error
    /\ UNCHANGED <<entries, request, credits, settlement, answer, psp, raced>>

\* Another intent of the same buyer is at this label: a change made now is one
\* its balance check does not see.
Overtakes(i, label) ==
    \E j \in Intents \ {i} : pc[j] = label /\ request[j].buyer = request[i].buyer

Race(i, label) ==
    raced' = IF Overtakes(i, label) THEN raced \union {request[i].buyer} ELSE raced

\* create_transfer, and the read of the two entry ids, which nothing else writes.
Reserve(i) ==
    /\ pc[i] = "create"
    /\ L!CreateTransfer(i, request[i].buyer, request[i].seller, request[i].amount)
    /\ Race(i, "create")
    /\ Goto(i, "execute")
    /\ UNCHANGED <<request, credits, settled, error, settlement, answer, psp>>

\* execute_transfer up to the POST to Adyen.
SendTransfer(i) ==
    /\ pc[i] = "execute"
    /\ IF request[i].seller \in WithIban
          THEN /\ psp' = [psp EXCEPT ![i] = "requested"]
               /\ Goto(i, "awaiting")
               /\ UNCHANGED error
          ELSE EndWithError(i) /\ UNCHANGED psp
    /\ UNCHANGED <<entries, request, credits, settled, settlement, answer, raced>>

\* Adyen carries out or refuses a transfer it was asked for, even after the
\* client has given up on the answer.
PspProcess(i) ==
    /\ psp[i] = "requested"
    /\ \E code \in ResultCodes : psp' = [psp EXCEPT ![i] = code]
    /\ UNCHANGED <<entries, request, pc, credits, settled, error, settlement, answer, raced>>

\* Mutant: the result code is not looked at.
TransferAnsweredUnchecked(i) ==
    /\ pc[i] = "awaiting"
    /\ psp[i] \in ResultCodes
    /\ settlement' = [settlement EXCEPT ![i] = "pending"]
    /\ Goto(i, "settle")
    /\ UNCHANGED <<entries, request, credits, settled, error, answer, psp, raced>>

\* Mutant: a transfer Adyen has not authorised yet is left to its webhook.
TransferAnsweredWaits(i) ==
    /\ pc[i] = "awaiting"
    /\ psp[i] \in ResultCodes
    /\ settlement' = [settlement EXCEPT ![i] = "pending"]
    /\ IF psp[i] = Refused THEN EndWithError(i)
       ELSE /\ Goto(i, IF psp[i] = "Pending" THEN "end" ELSE "settle")
            /\ UNCHANGED error
    /\ UNCHANGED <<entries, request, credits, settled, answer, psp, raced>>

TransferAnswered(i) ==
    /\ pc[i] = "awaiting"
    /\ psp[i] \in ResultCodes
    /\ IF psp[i] = Refused
          THEN /\ settlement' = [settlement EXCEPT ![i] = "failed"]
               /\ EndWithError(i)
          ELSE /\ settlement' = [settlement EXCEPT ![i] = "pending"]
               /\ Goto(i, "settle")
               /\ UNCHANGED error
    /\ UNCHANGED <<entries, request, credits, settled, answer, psp, raced>>

\* Mutant: the client waits for Adyen without a timeout.
TransferRaisedNoTimeout(i) ==
    /\ pc[i] = "awaiting"
    /\ psp[i] \in ResultCodes
    /\ settlement' = [settlement EXCEPT ![i] = "failed"]
    /\ EndWithError(i)
    /\ UNCHANGED <<entries, request, credits, settled, answer, psp, raced>>

\* The call raises: a transport error, an HTTP error or the 30 s timeout.
TransferRaised(i) ==
    /\ pc[i] = "awaiting"
    /\ settlement' = [settlement EXCEPT ![i] = "failed"]
    /\ EndWithError(i)
    /\ UNCHANGED <<entries, request, credits, settled, answer, psp, raced>>

\* settle.  Its reversal branch needs state["error"], which the edges of the
\* graph send to END before the node runs.
Settle(i) ==
    /\ pc[i] = "settle"
    /\ L!SettleTransaction(i)
    /\ Race(i, "read_pending")
    /\ settlement' = [settlement EXCEPT ![i] = "settled"]
    /\ Goto(i, "end")
    /\ UNCHANGED <<request, credits, settled, error, answer, psp>>

\* Mutant: the error is not looked at.
IntentStatusNoError(i) ==
    IF settlement[i] \in {"settled", "failed"} THEN settlement[i] ELSE "pending"

\* _map_settlement_to_intent_status
IntentStatus(i) ==
    IF error[i] THEN "failed"
    ELSE IF settlement[i] \in {"settled", "failed"} THEN settlement[i] ELSE "pending"

Respond(i) ==
    /\ pc[i] = "end"
    /\ answer' = [answer EXCEPT ![i] = IntentStatus(i)]
    /\ Goto(i, "done")
    /\ UNCHANGED <<entries, request, credits, settled, error, settlement, psp, raced>>

\* Mutant: the reservation of an interrupted intent is failed, settled or not.
CrashReverses(i) ==
    /\ pc[i] \notin {"idle", "done", "lost"}
    /\ Goto(i, "lost")
    /\ credits' = [credits EXCEPT ![i] = 0]
    /\ settled' = [settled EXCEPT ![i] = 0]
    /\ entries' = L!WithStatus(i, "failed")
    /\ UNCHANGED <<request, error, settlement, answer, psp, raced>>

\* The process stops, or a statement raises out of the graph: the client gets no
\* answer and nothing resumes the intent.
Crash(i) ==
    /\ pc[i] \notin {"idle", "done", "lost"}
    /\ Goto(i, "lost")
    /\ credits' = [credits EXCEPT ![i] = 0]
    /\ settled' = [settled EXCEPT ![i] = 0]
    /\ UNCHANGED <<entries, request, error, settlement, answer, psp, raced>>

-----------------------------------------------------------------------------
OpeningRow(a, account, type) ==
    [transaction_id |-> a, account_id |-> account, entry_type |-> type,
     amount |-> Opening[a], status |-> "settled"]

OpeningRows(a) == {OpeningRow(a, Treasury, "debit"), OpeningRow(a, a, "credit")}

Funded == {a \in Agents : Opening[a] > 0}

\* The ledger starts as a table, with finitely many rows.
ASSUME FundedAssumption == IsFiniteSet(Funded)

Init ==
    /\ entries = UNION {OpeningRows(a) : a \in Funded}
    /\ request = [i \in Intents |-> NoRequest]
    /\ pc = [i \in Intents |-> "idle"]
    /\ credits = [i \in Intents |-> 0]
    /\ settled = [i \in Intents |-> 0]
    /\ error = [i \in Intents |-> FALSE]
    /\ settlement = [i \in Intents |-> "none"]
    /\ answer = [i \in Intents |-> "none"]
    /\ psp = [i \in Intents |-> "none"]
    /\ raced = {}

\* What the event loop runs for intent i once its request has arrived.
Step(i) ==
    \/ ValidateIntent(i)
    \/ CompliancePass(i)
    \/ ComplianceReject(i)
    \/ ReadCredits(i)
    \/ ReadDebits(i)
    \/ ReadPending(i)
    \/ Reserve(i)
    \/ SendTransfer(i)
    \/ TransferAnswered(i)
    \/ TransferRaised(i)
    \/ Settle(i)
    \/ Respond(i)

Next ==
    \E i \in Intents : Receive(i) \/ Step(i) \/ PspProcess(i) \/ Crash(i)

Spec == Init /\ [][Next]_vars

\* The event loop runs every ready coroutine, and the HTTP client's timeout ends
\* the wait for Adyen.  Arrivals, crashes and Adyen itself are not fair.
Fairness == \A i \in Intents : WF_vars(Step(i))

FairSpec == Spec /\ Fairness

-----------------------------------------------------------------------------
(* Properties *)

StateTypeOK ==
    /\ L!TypeOK
    /\ request \in [Intents -> Requests \union {NoRequest}]
    /\ pc \in [Intents -> Labels]
    /\ error \in [Intents -> BOOLEAN]
    /\ settlement \in [Intents -> {"none", "pending", "failed", "settled"}]
    /\ answer \in [Intents -> {"none", "pending", "failed", "settled"}]
    /\ psp \in [Intents -> {"none", "requested"} \union ResultCodes]
    /\ raced \subseteq Agents

TypeOK ==
    /\ StateTypeOK
    /\ credits \in [Intents -> Int]
    /\ settled \in [Intents -> Int]

\* settle, "If Adyen returned Authorised or Pending, settle the double-entry
\* transaction": whatever is interleaved, retried, timed out or crashed, the
\* ledger moves money for an intent only after Adyen accepted its transfer.
SettledOnlyWhenAccepted ==
    \A e \in entries : e.transaction_id \in Intents /\ e.status = "settled"
                            => psp[e.transaction_id] \in Accepted

\* A crash between reserve_funds and settle, or the error edge, leaves a pending
\* pair that nothing resumes.  Those are the only ways money stays held: a pending
\* row belongs to a graph on its way to settle, to one whose process died on that
\* way, or to one that failed and is not answered with anything else.
HeldForCause ==
    \A i \in Intents : \A e \in L!RowsOf(i) : e.status = "pending" =>
        \/ pc[i] \in {"execute", "awaiting", "settle"}
        \/ pc[i] = "lost" /\ settlement[i] # "settled" /\ answer[i] = "none"
        \/ pc[i] = "end" /\ error[i]
        \/ answer[i] = "failed"

\* What the client is told agrees with the ledger: "settled" means both rows of
\* the request it sent are settled, "failed" that none of its money moved, and
\* "pending" is never answered.
AnswerMatchesLedger ==
    \A i \in Intents :
        /\ answer[i] # "pending"
        /\ answer[i] = "settled" =>
              \A account \in {request[i].buyer, request[i].seller} :
                  \E e \in L!RowsOf(i) : /\ e.account_id = account
                                         /\ e.amount = request[i].amount
                                         /\ e.status = "settled"
        /\ answer[i] = "failed" => \A e \in L!RowsOf(i) : e.status # "settled"

\* reserve_funds, "verify buyer has sufficient balance": an agent spends money it does
\* not have only through one of two races: a reservation that commits between another
\* intent's check and its create_transfer, or a settlement that commits between
\* its last two SELECTs and hides a debit from both.  Every other interleaving,
\* crash or timeout keeps the available balance non-negative.
NoOverdraftWithoutRace == \A a \in Agents \ raced : L!GetAvailableBalance(a) >= 0

\* What was answered stays true: once an intent has its answer its rows never
\* change, and a settled row never changes at all.
AnswerFinal ==
    [][/\ \A i \in Intents : answer[i] # "none" => L!RowsOf(i)' = L!RowsOf(i)
       /\ \A e \in entries : e.status = "settled" => e \in entries']_vars

\* Every request that arrives is answered, or its process dies: the graph has no
\* wait that an unresponsive Adyen or another intent can make endless.
EveryIntentEnds ==
    \A i \in Intents : pc[i] = "validate" ~> pc[i] \in {"done", "lost"}

-----------------------------------------------------------------------------
(* Refinement: seen through get_balance, the intents are transfers that hold *)
(* an amount, then move it once or never.                                    *)

TransferOf(i) ==
    IF L!RowsOf(i) = {} THEN [stage |-> "new"]
    ELSE LET row(type) == CHOOSE e \in L!RowsOf(i) : e.entry_type = type
         IN [stage  |-> IF row("debit").status = "settled" THEN "paid" ELSE "held",
             from   |-> row("debit").account_id,
             to     |-> row("credit").account_id,
             amount |-> row("credit").amount]

Transfers == INSTANCE AgentTransfers WITH
    Ids      <- Intents,
    Parties  <- Accounts,
    Sums     <- Amounts,
    transfer <- [i \in Intents |-> TransferOf(i)],
    balance  <- [a \in Accounts |-> L!GetBalance(a)]

\* The intents implement AgentTransfers.
ImplementsTransfers == Transfers!Spec
=============================================================================
