-------------------------- MODULE QuoteToContract --------------------------
(***************************************************************************)
(* From a quote to a contract and its renewals.                            *)
(*                                                                         *)
(*   accept_quote, reject_quote, expire_stale_quotes                       *)
(*     (quoting/quote_acceptance.py), send_quote (api/v1/quotes.py),       *)
(*     build_quote, recalculate_quote (quoting/quote_builder.py) and       *)
(*     renew_contract (quoting/contract.py): one database session each     *)
(*   quoting_graph (agents/quoting_agent.py): policy check, build, finalize *)
(*                                                                         *)
(* A session reads a row, decides, flushes (which locks the rows until its *)
(* end) and commits.  PostgreSQL runs READ COMMITTED and nothing selects   *)
(* FOR UPDATE: what a session writes may rest on a row that has changed    *)
(* since it read it.                                                       *)
(***************************************************************************)
EXTENDS Policy

CONSTANTS
    Quotes,    \* quotes built through the API
    Sessions,  \* calls; each is made once
    Runs,      \* runs of the quoting agent, and the quotes they build
    RuleLists, \* the active rules of trigger quote.created, as they may be
    Requests,  \* what a run asks for: [discount, term]
    NoRow

\* Keys of rows: no two tables share one.
ASSUME RowsAssumption ==
    /\ Quotes \intersect Runs = {} /\ NoRow \notin Sessions
    /\ (Quotes \union Runs) \intersect Sessions = {}

VARIABLES
    quotes,     \* committed rows: [status, terms]; terms is the last recalculation
    expired,    \* quotes whose expires_at has passed
    contracts,  \* committed rows: [id, quote, subscription, term, status, terms]
    call,       \* each session: [op, at, seen]; seen is the rows as it read them
    agent,      \* each agent run: [at, approval, quote, error]
    overlapped  \* history: rows written by a session that had read them otherwise

vars == <<quotes, expired, contracts, call, agent, overlapped>>

QuoteStatus == {"absent", "draft", "sent", "accepted", "rejected", "expired"}
Open == {"draft", "sent"}
ContractStatus == {"active", "completed"}
Rows == Quotes \union Runs

\* The committed row of a quote, or of the contract a session created.
Contract(id) == CHOOSE c \in contracts : c.id = id
Row(r) == IF r \in Rows THEN quotes[r] ELSE Contract(r)

Idle == [op |-> "none", at |-> "idle", seen |-> <<>>]
Go(s, op, at, seen) == call' = [call EXCEPT ![s] = [op |-> op, at |-> at, seen |-> seen]]

-----------------------------------------------------------------------------
(* The SELECT of each call, with the guard that follows it. *)

\* Mutant: a quote that was accepted can be accepted again.
AcceptableTwice(q) == quotes[q].status \in Open \union {"accepted"} /\ q \notin expired

Acceptable(q) == quotes[q].status \in Open /\ q \notin expired

Rejectable(q) == quotes[q].status \in Open

Sendable(q) == quotes[q].status = "draft"

\* Mutant: a quote of any status is recalculated.
RecalculableAlways(q) == TRUE

Recalculable(q) == quotes[q].status \in Open

Allowed(op, q) ==
    CASE op = "accept" -> Acceptable(q)
      [] op = "reject" -> Rejectable(q)
      [] op = "send" -> Sendable(q)
      [] op = "recalculate" -> Recalculable(q)

\* A ValueError, answered with 400: the session ends with nothing written.
Refuse(s, op) == Go(s, op, "ended", <<>>)

SelectQuote(s, op, q) ==
    /\ call[s].at = "idle"
    /\ quotes[q].status # "absent"
    /\ IF Allowed(op, q) THEN Go(s, op, "flush", [r \in {q} |-> quotes[r]])
                         ELSE Refuse(s, op)
    /\ UNCHANGED <<quotes, expired, contracts, agent, overlapped>>

\* expire_stale_quotes selects every open quote past its date.
SelectStale(s) ==
    /\ call[s].at = "idle"
    /\ LET stale == {q \in expired : quotes[q].status \in Open} IN
          Go(s, "expire", "flush", [q \in stale |-> quotes[q]])
    /\ UNCHANGED <<quotes, expired, contracts, agent, overlapped>>

Renewable(c) == c.status = "active"

SelectContract(s, c) ==
    /\ call[s].at = "idle"
    /\ IF Renewable(c) THEN Go(s, "renew", "flush", [id \in {c.id} |-> c]) ELSE Refuse(s, "renew")
    /\ UNCHANGED <<quotes, expired, contracts, agent, overlapped>>

-----------------------------------------------------------------------------
(* The flush and the end of the session. *)

Targets(s) == DOMAIN call[s].seen

\* The UPDATE waits for every other session that has updated one of its rows.
Flush(s) ==
    /\ call[s].at = "flush"
    /\ \A t \in Sessions : call[t].at = "commit" => Targets(s) \intersect Targets(t) = {}
    /\ call' = [call EXCEPT ![s].at = "commit"]
    /\ UNCHANGED <<quotes, expired, contracts, agent, overlapped>>

NewStatus(op) == CASE op = "accept" -> "accepted"
                   [] op = "reject" -> "rejected"
                   [] op = "send" -> "sent"
                   [] op = "expire" -> "expired"

\* What the session does to a quote: a status, or new estimates.
Written(s, q) ==
    IF call[s].op = "recalculate" THEN [quotes[q] EXCEPT !.terms = s]
    ELSE [quotes[q] EXCEPT !.status = NewStatus(call[s].op)]

\* accept_quote: a subscription, and the contract of its first term.  The session
\* names both.  The customer agreed to the terms that were read.
FirstContract(s, q) ==
    [id |-> s, quote |-> q, subscription |-> s, term |-> 1, status |-> "active",
     terms |-> call[s].seen[q].terms]

\* renew_contract copies what it read.
Successor(s, c) ==
    [id |-> s, quote |-> c.quote, subscription |-> c.subscription, term |-> c.term + 1,
     status |-> "active", terms |-> c.terms]

\* Mutant: the old contract stays active until its end_date.
ContractsAfterKeepsOld(s) ==
    CASE call[s].op = "accept" ->
            contracts \union {FirstContract(s, q) : q \in Targets(s)}
      [] call[s].op = "renew" ->
            contracts \union {Successor(s, call[s].seen[id]) : id \in Targets(s)}
      [] OTHER -> contracts

ContractsAfter(s) ==
    CASE call[s].op = "accept" ->
            contracts \union {FirstContract(s, q) : q \in Targets(s)}
      [] call[s].op = "renew" ->
            {IF c.id \in Targets(s) THEN [c EXCEPT !.status = "completed"] ELSE c
               : c \in contracts}
            \union {Successor(s, call[s].seen[id]) : id \in Targets(s)}
      [] OTHER -> contracts

\* get_db commits when the handler has returned.
Commit(s) ==
    /\ call[s].at = "commit"
    /\ quotes' = [q \in Rows |-> IF q \in Targets(s) THEN Written(s, q) ELSE quotes[q]]
    /\ contracts' = ContractsAfter(s)
    /\ overlapped' = overlapped \union {r \in Targets(s) : call[s].seen[r] # Row(r)}
    /\ Go(s, call[s].op, "ended", <<>>)
    /\ UNCHANGED <<expired, agent>>

\* An exception, a client that goes away, or a crash.
Rollback(s) ==
    /\ call[s].at \in {"flush", "commit"}
    /\ Go(s, call[s].op, "ended", <<>>)
    /\ UNCHANGED <<quotes, expired, contracts, agent, overlapped>>

\* build_quote called by create_quote: nobody knows the id before the commit.
CreateQuote(q) ==
    /\ quotes[q].status = "absent"
    /\ quotes' = [quotes EXCEPT ![q].status = "draft"]
    /\ UNCHANGED <<expired, contracts, call, agent, overlapped>>

Expires(q) ==
    /\ quotes[q].status # "absent"
    /\ expired' = expired \union {q}
    /\ UNCHANGED <<quotes, contracts, call, agent, overlapped>>

-----------------------------------------------------------------------------
(* The quoting agent.  Each node is a session of its own. *)

Node(r, at, approval, quote, error) ==
    /\ agent' = [agent EXCEPT ![r] =
           [at |-> at, approval |-> approval, quote |-> quote, error |-> error]]
    /\ UNCHANGED <<quotes, expired, contracts, call, overlapped>>

\* load_context; the customer or the plan may be missing, or the query fail.
LoadContext(r) ==
    /\ agent[r].at = "load_context"
    /\ \E error \in BOOLEAN : Node(r, "check_policies", "none", NoRow, error)

ApprovalOf(action) == CASE action = "reject" -> "rejected"
                        [] action = "require_approval" -> "pending"
                        [] OTHER -> "approved"

\* discount_pct is text in the state of the graph, term_months a number.
QuoteContext(request) ==
    [field \in {"quote.discount_pct", "quote.term_months"} |->
        IF field = "quote.discount_pct" THEN Text(request.discount) ELSE Number(request.term)]

\* check_policies and _route_approval: only an approved request goes on to build.  After
\* an error, and when a query fails or a rule cannot be compared, the run ends with one.
CheckPolicies(r) ==
    /\ agent[r].at = "check_policies"
    /\ \/ Node(r, "end", "none", NoRow, TRUE)
       \/ /\ ~agent[r].error
          /\ \E rules \in RuleLists, request \in Requests :
                LET context == QuoteContext(request)
                    approval == ApprovalOf(Evaluate(context, rules).action)
                IN  /\ ~EvaluateRaises(context, rules)
                    /\ Node(r, IF approval = "approved" THEN "build_quote" ELSE "end",
                            approval, NoRow, FALSE)

\* build_quote_node returns out of the get_db loop: the row is flushed, its id is
\* kept in the state, and the abandoned session rolls back.
BuildQuoteNode(r) ==
    /\ agent[r].at = "build_quote"
    /\ \E error \in BOOLEAN :
          Node(r, "finalize", agent[r].approval, IF error THEN NoRow ELSE r, error)

\* finalize: whatever it writes is in a session it returns out of.
Finalize(r) ==
    /\ agent[r].at = "finalize"
    /\ Node(r, "end", agent[r].approval, agent[r].quote,
            agent[r].error \/ quotes[r].status = "absent")

AgentStep(r) ==
    \/ LoadContext(r)
    \/ CheckPolicies(r)
    \/ BuildQuoteNode(r)
    \/ Finalize(r)

-----------------------------------------------------------------------------
Init ==
    /\ quotes = [r \in Rows |-> [status |-> "absent", terms |-> NoRow]]
    /\ expired = {}
    /\ contracts = {}
    /\ call = [s \in Sessions |-> Idle]
    /\ agent = [r \in Runs |->
           [at |-> "load_context", approval |-> "none", quote |-> NoRow, error |-> FALSE]]
    /\ overlapped = {}

CallStep(s) ==
    \/ \E q \in Rows, op \in {"accept", "reject", "send", "recalculate"} : SelectQuote(s, op, q)
    \/ SelectStale(s)
    \/ \E c \in contracts : SelectContract(s, c)
    \/ Flush(s)
    \/ Commit(s)
    \/ Rollback(s)

Next ==
    \/ \E q \in Quotes : CreateQuote(q) \/ Expires(q)
    \/ \E s \in Sessions : CallStep(s)
    \/ \E r \in Runs : AgentStep(r)

Spec == Init /\ [][Next]_vars

-----------------------------------------------------------------------------
(* Properties *)

Terms == Sessions \union {NoRow}
QuoteRow == [status : QuoteStatus, terms : Terms]
ContractRow == [id : Sessions, quote : Rows, subscription : Sessions, term : Nat,
                status : ContractStatus, terms : Terms]

TypeOK ==
    /\ quotes \in [Rows -> QuoteRow]
    /\ expired \subseteq Quotes
    /\ contracts \subseteq ContractRow
    /\ call = [s \in Sessions |-> [op |-> call[s].op, at |-> call[s].at, seen |-> call[s].seen]]
    /\ \A s \in Sessions :
          /\ call[s].op \in {"none", "accept", "reject", "send", "recalculate", "expire", "renew"}
          /\ call[s].at \in {"idle", "flush", "commit", "ended"}
          /\ Targets(s) \subseteq Rows \union Sessions
          /\ \A r \in Targets(s) : call[s].seen[r] \in IF r \in Rows THEN QuoteRow ELSE ContractRow
    /\ agent \in [Runs ->
           [at : {"load_context", "check_policies", "build_quote", "finalize", "end"},
            approval : {"none", "rejected", "pending", "approved"},
            quote : Runs \union {NoRow},
            error : BOOLEAN]]
    /\ overlapped \subseteq Rows \union Sessions

\* accept_quote writes the quote, the subscription and the contract together: an
\* accepted quote has a contract, a contract has an accepted quote, and a quote has
\* one contract of a first term, unless calls on the quote overlapped.
QuoteMatchesContract ==
    \A q \in Rows :
        LET first == {c \in contracts : c.quote = q /\ c.term = 1} IN
        /\ quotes[q].status = "accepted" => first # {}
        /\ q \notin overlapped =>
              /\ first # {} => quotes[q].status = "accepted"
              /\ \A c, d \in first : c = d

\* get_active_contract expects one row: however often and in whatever order a
\* contract is renewed, a subscription has one active contract and one contract of
\* each term, unless two renewals of one contract overlapped.
OneRunningContract ==
    \A c, d \in contracts :
        (/\ c # d
         /\ c.subscription = d.subscription
         /\ \A e \in contracts : e.subscription = c.subscription => e.id \notin overlapped)
        => c.term # d.term /\ {c.status, d.status} # {"active"}

\* The estimates of a contracted quote stay those the customer accepted: no
\* recalculation gets through after, or between reading and accepting, unless it
\* overlapped with the acceptance.
AcceptedTermsAgreed ==
    \A c \in contracts : c.quote \notin overlapped => quotes[c.quote].terms = c.terms
=============================================================================
