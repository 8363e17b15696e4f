---------------------------- MODULE CreditLedger ----------------------------
(***************************************************************************)
(* Prepaid credits: billing/credits.py behind api/v1/credits.py.           *)
(*                                                                         *)
(* One customer: its credit_balances row (at most one, customer_id is      *)
(* unique) and its credit_transactions.  Each call is a session of its own *)
(* that SELECTs the row (without FOR UPDATE), inserts it if it is absent,  *)
(* computes the new balance in Python and writes it back as an absolute    *)
(* value.  PostgreSQL runs READ COMMITTED: a flush takes the row's lock,   *)
(* waits for another session's uncommitted version, and keeps the lock     *)
(* until get_db commits after the handler, or rolls back.                  *)
(***************************************************************************)
EXTENDS Integers

CONSTANTS
    Calls,      \* calls, each with a database session of its own
    Requests,   \* what they ask for: [op, amount]
    NoRequest,
    Free        \* the holder of a free row lock

Ops == {"purchase", "refund", "consume", "adjust", "read"}

ASSUME RequestsAssumption ==
    /\ \A r \in Requests :
            /\ r.op \in Ops /\ r.amount \in Int
            /\ r.op \in {"purchase", "refund", "consume"} => r.amount > 0
            /\ r.op = "read" => r.amount = 0
    /\ NoRequest \notin Requests
ASSUME FreeAssumption == Free \notin Calls

VARIABLES
    exists,     \* the balance row is committed
    balance,    \* its committed balance
    version,    \* how often the row was committed
    posted,     \* the sum of the committed credit_transactions amounts
    lock,       \* the session with an uncommitted version of the row
    pc,
    request,
    read,       \* the balance a session read, then the one it wrote
    seen,       \* history: the version it read
    stale       \* history: some session wrote over a version it had not read

row == <<exists, balance, version, posted>>
creditVars == <<exists, balance, version, posted, lock, pc, request, read, seen, stale>>

Labels ==
    {"idle", "select", "insert", "apply", "commit", "done", "rejected", "conflict", "lost"}
Ended == {"done", "rejected", "conflict", "lost"}

Goto(s, label) == pc' = [pc EXCEPT ![s] = label]

\* The end of a database transaction, commit or rollback, frees what it locked.
Release(s) == lock' = IF lock = s THEN Free ELSE lock

-----------------------------------------------------------------------------
\* Mutant: the row of a consumption carries the amount unsigned.
UnsignedDelta(r) == r.amount

\* The amount of the transaction row, and what the balance changes by.
Delta(r) == IF r.op = "consume" THEN -r.amount ELSE r.amount

NewBalance(r, current) == IF r.op = "consume" THEN current - r.amount ELSE current + r.amount

\* Mutant: a manual adjustment is not checked.
AllowedUnlessAdjusted(r, current) == r.op = "consume" => current >= r.amount

\* InsufficientCreditsError, and the 400 of the adjust endpoint.
Allowed(r, current) ==
    r.op \in {"consume", "adjust"} => NewBalance(r, current) >= 0

Call(s) ==
    /\ pc[s] = "idle"
    /\ \E r \in Requests : request' = [request EXCEPT ![s] = r]
    /\ Goto(s, "select")
    /\ UNCHANGED <<row, lock, read, seen, stale>>

\* get_or_create_balance: the SELECT.
Select(s) ==
    /\ pc[s] = "select"
    /\ IF exists
          THEN /\ read' = [read EXCEPT ![s] = balance]
               /\ seen' = [seen EXCEPT ![s] = version]
               /\ Goto(s, "apply")
          ELSE Goto(s, "insert") /\ UNCHANGED <<read, seen>>
    /\ UNCHANGED <<row, lock, request, stale>>

\* get_or_create_balance: the INSERT of a zero balance.  It waits for another
\* session's uncommitted INSERT of the same customer_id.
InsertRow(s) ==
    /\ pc[s] = "insert"
    /\ ~ exists
    /\ lock = Free
    /\ lock' = s
    /\ read' = [read EXCEPT ![s] = 0]
    /\ seen' = [seen EXCEPT ![s] = version]
    /\ Goto(s, "apply")
    /\ UNCHANGED <<row, request, stale>>

\* The INSERT violates the unique customer_id: IntegrityError, rolled back.
InsertConflict(s) ==
    /\ pc[s] = "insert"
    /\ exists
    /\ Goto(s, "conflict")
    /\ UNCHANGED <<row, lock, request, read, seen, stale>>

\* Mutant: the rejected call leaves its transaction open.
RejectKeepsLock(s) ==
    /\ pc[s] = "apply"
    /\ ~ Allowed(request[s], read[s])
    /\ Goto(s, "rejected")
    /\ UNCHANGED <<row, lock, request, read, seen, stale>>

Reject(s) ==
    /\ pc[s] = "apply"
    /\ ~ Allowed(request[s], read[s])
    /\ Release(s)
    /\ Goto(s, "rejected")
    /\ UNCHANGED <<row, request, read, seen, stale>>

\* The flush of a changed balance, and of the transaction row.
Write(s) ==
    /\ pc[s] = "apply"
    /\ Allowed(request[s], read[s])
    /\ Delta(request[s]) # 0
    /\ lock \in {Free, s}
    /\ lock' = s
    /\ read' = [read EXCEPT ![s] = NewBalance(request[s], read[s])]
    /\ stale' = (stale \/ seen[s] # version)
    /\ Goto(s, "commit")
    /\ UNCHANGED <<row, request, seen>>

\* A balance assigned the value it had is not flushed: no lock is taken.
KeepBalance(s) ==
    /\ pc[s] = "apply"
    /\ Allowed(request[s], read[s])
    /\ Delta(request[s]) = 0
    /\ Goto(s, "commit")
    /\ UNCHANGED <<row, lock, request, read, seen, stale>>

\* get_db, after the handler returned.
CommitBalance(s) ==
    /\ pc[s] = "commit"
    /\ posted' = posted + Delta(request[s])
    /\ IF lock = s
          THEN /\ exists' = TRUE
               /\ balance' = read[s]
               /\ version' = version + 1
          ELSE UNCHANGED <<exists, balance, version>>
    /\ Release(s)
    /\ Goto(s, "done")
    /\ UNCHANGED <<request, read, seen, stale>>

\* The process or its connection dies: the database rolls back.
Lose(s) ==
    /\ pc[s] \notin Ended \union {"idle"}
    /\ Release(s)
    /\ Goto(s, "lost")
    /\ UNCHANGED <<row, request, read, seen, stale>>

-----------------------------------------------------------------------------
CreditInit ==
    /\ exists = FALSE
    /\ balance = 0
    /\ version = 0
    /\ posted = 0
    /\ lock = Free
    /\ pc = [s \in Calls |-> "idle"]
    /\ request = [s \in Calls |-> NoRequest]
    /\ read = [s \in Calls |-> 0]
    /\ seen = [s \in Calls |-> 0]
    /\ stale = FALSE

Step(s) ==
    \/ Select(s)
    \/ InsertRow(s)
    \/ InsertConflict(s)
    \/ Reject(s)
    \/ Write(s)
    \/ KeepBalance(s)
    \/ CommitBalance(s)

CreditNext == \E s \in Calls : Call(s) \/ Step(s) \/ Lose(s)

CreditSpec == CreditInit /\ [][CreditNext]_creditVars

\* The event loop and the database serve every session that is not waiting.
FairCreditSpec == CreditSpec /\ \A s \in Calls : WF_creditVars(Step(s))

-----------------------------------------------------------------------------
(* Properties *)

CreditTypeOK ==
    /\ exists \in BOOLEAN
    /\ balance \in Int
    /\ version \in Nat
    /\ posted \in Int
    /\ lock \in {s \in Calls : pc[s] \in {"apply", "commit"}} \union {Free}
    /\ pc \in [Calls -> Labels]
    /\ request \in [Calls -> Requests \union {NoRequest}]
    /\ read \in [Calls -> Int]
    /\ seen \in [Calls -> Nat]
    /\ stale \in BOOLEAN

\* consume_credits and the adjust endpoint refuse to go below zero: whatever
\* overlaps, the stored balance never does.
NonNegative == balance >= 0

\* The stored balance is the sum of the customer's transactions, as long as no
\* session wrote over a version of the row that it had not read.
BalanceIsPosted == ~ stale => balance = posted

\* Every call ends: no session waits for ever for the row, created by another
\* session or locked by it, whichever of them commits, is refused or dies.
EveryRequestEnds == \A s \in Calls : pc[s] = "select" ~> pc[s] \in Ended
=============================================================================
