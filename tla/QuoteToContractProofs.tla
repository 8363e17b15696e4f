----------------------- MODULE QuoteToContractProofs -----------------------
(***************************************************************************)
(* Quotes and contracts for any number of quotes, calls and renewals.      *)
(*                                                                         *)
(* A call writes what it decided from the rows as it read them.  The proof *)
(* is about the difference: a call that commits either found its rows as   *)
(* it had read them, and then its guard still holds, or its rows are put   *)
(* in overlapped, and the properties say no more about them.               *)
(***************************************************************************)
EXTENDS QuoteToContract, TLAPS

Writers == {"accept", "reject", "send", "recalculate", "expire"}

\* What a call in progress holds: open quotes as it read them, or a contract that
\* was active when it read it, and is otherwise as it was.
Holds(s) ==
    /\ call[s].at \in {"idle", "ended"} => Targets(s) = {}
    /\ call[s].at \in {"flush", "commit"} =>
          \/ /\ call[s].op \in Writers
             /\ Targets(s) \subseteq Rows
             /\ \A q \in Targets(s) : call[s].seen[q].status \in Open /\ call[s].seen[q] \in QuoteRow
             /\ call[s].op = "accept" => \E q \in Rows : Targets(s) = {q}
          \/ /\ call[s].op = "renew"
             /\ \E c \in contracts :
                   /\ Targets(s) = {c.id}
                   /\ call[s].seen[c.id] = [c EXCEPT !.status = "active"]

CallsHoldRows == \A s \in Sessions : Holds(s)

\* A contract and its subscription are named by calls that have ended.
OneContractPerCall ==
    \A c \in contracts :
        /\ call[c.id].at = "ended" /\ call[c.subscription].at = "ended"
        /\ \A d \in contracts : c.id = d.id => c = d

AcceptedHasContract ==
    \A q \in Rows : quotes[q].status = "accepted" => \E c \in contracts : c.quote = q /\ c.term = 1

ContractHasQuote ==
    \A c \in contracts :
        c.quote \notin overlapped => quotes[c.quote].status = "accepted" /\ quotes[c.quote].terms = c.terms

OneFirstContract ==
    \A c, d \in contracts :
        c.quote = d.quote /\ c.term = 1 /\ d.term = 1 /\ c.quote \notin overlapped => c = d

TermsCount == \A c \in contracts : c.term >= 1

Intact(subscription) ==
    \A e \in contracts : e.subscription = subscription => e.id \notin overlapped

\* The active contract of a subscription is its last one: without this the
\* term of a renewal could be one that is taken.
LastIsActive ==
    \A c, d \in contracts :
        c # d /\ c.subscription = d.subscription /\ Intact(c.subscription)
            => c.term # d.term /\ (c.status = "active" => d.term < c.term)

IInv ==
    /\ TypeOK
    /\ CallsHoldRows
    /\ OneContractPerCall
    /\ AcceptedHasContract
    /\ ContractHasQuote
    /\ OneFirstContract
    /\ TermsCount
    /\ LastIsActive

-----------------------------------------------------------------------------
(* The rows as TypeOK gives them, and one call moving on. *)

CallTyped(s) ==
    /\ call[s].op \in {"none", "accept", "reject", "send", "recalculate", "expire", "renew"}
    /\ call[s].at \in {"idle", "flush", "commit", "ended"}
    /\ Targets(s) \subseteq Rows \union Sessions
    /\ \A r \in Targets(s) : call[s].seen[r] \in IF r \in Rows THEN QuoteRow ELSE ContractRow

RowsTyped ==
    /\ quotes \in [Rows -> QuoteRow]
    /\ expired \subseteq Quotes
    /\ contracts \subseteq ContractRow
    /\ agent \in [Runs ->
           [at : {"load_context", "check_policies", "build_quote", "finalize", "end"},
            approval : {"none", "rejected", "pending", "approved"},
            quote : Runs \union {NoRow},
            error : BOOLEAN]]
    /\ overlapped \subseteq Rows \union Sessions

CallShape == call = [s \in Sessions |-> [op |-> call[s].op, at |-> call[s].at, seen |-> call[s].seen]]

LEMMA TypeParts == TypeOK <=> RowsTyped /\ CallShape /\ \A s \in Sessions : CallTyped(s)
BY DEF TypeOK, RowsTyped, CallShape, CallTyped

LEMMA GoStep ==
    ASSUME CallShape, NEW s \in Sessions, NEW op, NEW at, NEW seen, Go(s, op, at, seen)
    PROVE  /\ CallShape'
           /\ call'[s] = [op |-> op, at |-> at, seen |-> seen]
           /\ \A t \in Sessions : t # s => call'[t] = call[t]
<1>1. call' = [call EXCEPT ![s] = [op |-> op, at |-> at, seen |-> seen]]
  BY DEF Go
<1>2. DOMAIN call = Sessions
  BY DEF CallShape
<1>3. call'[s] = [op |-> op, at |-> at, seen |-> seen]
  BY <1>1, <1>2
<1>4. \A t \in Sessions : t # s => call'[t] = call[t]
  BY <1>1, <1>2
<1>5. \A t \in Sessions : call[t] = [op |-> call[t].op, at |-> call[t].at, seen |-> call[t].seen]
  BY DEF CallShape
<1>6. \A t \in Sessions :
          call'[t] = [op |-> call'[t].op, at |-> call'[t].at, seen |-> call'[t].seen]
  <2> SUFFICES ASSUME NEW t \in Sessions
               PROVE  call'[t] = [op |-> call'[t].op, at |-> call'[t].at, seen |-> call'[t].seen]
    OBVIOUS
  <2>1. CASE t = s
    BY <1>3, <2>1
  <2>2. CASE t # s
    BY <1>4, <1>5, <2>2
  <2> QED
    BY <2>1, <2>2
<1>7. call' = [t \in Sessions |-> call'[t]]
  BY <1>1, <1>2
<1>8. CallShape'
  BY <1>6, <1>7 DEF CallShape
<1> QED
  BY <1>3, <1>4, <1>8

\* A call that has not ended moves on, and the rows stay as they are.
LEMMA CallMoves ==
    ASSUME IInv, NEW s \in Sessions, call[s].at # "ended",
           UNCHANGED <<quotes, expired, contracts, agent, overlapped>>,
           CallShape', \A t \in Sessions : t # s => call'[t] = call[t],
           CallTyped(s)', Holds(s)'
    PROVE  IInv'
<1>1. RowsTyped' /\ \A t \in Sessions : CallTyped(t)'
  BY TypeParts DEF IInv, RowsTyped, CallTyped, Targets
<1>2. TypeOK'
  BY <1>1 DEF TypeOK, RowsTyped, CallShape, CallTyped
<1>3. CallsHoldRows'
  <2>1. ASSUME NEW t \in Sessions, t # s PROVE Holds(t)'
    <3>1. Holds(t) /\ call'[t] = call[t]
      BY <2>1 DEF IInv, CallsHoldRows
    <3> QED
      BY <3>1 DEF Holds, Targets
  <2> QED
    BY <2>1 DEF CallsHoldRows
<1>4. OneContractPerCall'
  <2>1. \A c \in contracts : c.id \in Sessions /\ c.subscription \in Sessions
    BY DEF IInv, TypeOK, ContractRow
  <2>2. \A t \in Sessions : call[t].at = "ended" => call'[t] = call[t]
    OBVIOUS
  <2>3. OneContractPerCall
    BY DEF IInv
  <2> QED
    BY <2>1, <2>2, <2>3 DEF OneContractPerCall
<1>5. AcceptedHasContract' /\ ContractHasQuote' /\ OneFirstContract' /\ TermsCount' /\ LastIsActive'
  BY DEF IInv, AcceptedHasContract, ContractHasQuote, OneFirstContract, TermsCount, LastIsActive, Intact
<1> QED
  BY <1>2, <1>3, <1>4, <1>5 DEF IInv

-----------------------------------------------------------------------------
(* One lemma per action. *)

LEMMA InitIInv == Init => IInv
<1> SUFFICES ASSUME Init PROVE IInv
  OBVIOUS
<1>0. contracts = {} /\ \A s \in Sessions : call[s] = Idle
  BY DEF Init
<1>1. TypeOK
  <2>1. RowsTyped
    BY DEF Init, RowsTyped, QuoteRow, QuoteStatus, Terms
  <2>2. CallShape
    BY DEF Init, CallShape, Idle
  <2>3. \A s \in Sessions : CallTyped(s)
    BY <1>0 DEF CallTyped, Targets, Idle
  <2> QED
    BY <2>1, <2>2, <2>3, TypeParts
<1>2. CallsHoldRows
  BY <1>0 DEF CallsHoldRows, Holds, Targets, Idle
<1>3. AcceptedHasContract
  BY DEF Init, AcceptedHasContract
<1>4. OneContractPerCall /\ ContractHasQuote /\ OneFirstContract /\ TermsCount /\ LastIsActive
  BY <1>0 DEF OneContractPerCall, ContractHasQuote, OneFirstContract, TermsCount, LastIsActive
<1> QED
  BY <1>1, <1>2, <1>3, <1>4 DEF IInv

\* A refusal, an exception, a crash: the call ends with nothing.
LEMMA EndStep ==
    ASSUME IInv, NEW s \in Sessions, call[s].at # "ended", NEW op,
           op \in Writers \union {"none", "renew"}, Go(s, op, "ended", <<>>),
           UNCHANGED <<quotes, expired, contracts, agent, overlapped>>
    PROVE  IInv'
<1>1. /\ CallShape' /\ call'[s] = [op |-> op, at |-> "ended", seen |-> <<>>]
      /\ \A t \in Sessions : t # s => call'[t] = call[t]
  BY GoStep, TypeParts DEF IInv
<1>2. CallTyped(s)' /\ Holds(s)'
  BY <1>1 DEF CallTyped, Holds, Targets, Writers
<1> QED
  BY <1>1, <1>2, CallMoves

LEMMA SelectQuoteStep ==
    ASSUME IInv, NEW s \in Sessions, NEW q \in Rows,
           NEW op \in {"accept", "reject", "send", "recalculate"}, SelectQuote(s, op, q)
    PROVE  IInv'
<1>1. call[s].at # "ended" /\ UNCHANGED <<quotes, expired, contracts, agent, overlapped>>
  BY DEF SelectQuote
<1>2. CASE ~ Allowed(op, q)
  BY <1>1, <1>2, EndStep DEF SelectQuote, Refuse, Writers
<1>3. CASE Allowed(op, q)
  <2>1. Go(s, op, "flush", [r \in {q} |-> quotes[r]])
    BY <1>3 DEF SelectQuote
  <2>2. /\ CallShape' /\ call'[s] = [op |-> op, at |-> "flush", seen |-> [r \in {q} |-> quotes[r]]]
        /\ \A t \in Sessions : t # s => call'[t] = call[t]
    BY <2>1, GoStep, TypeParts DEF IInv
  <2>3. quotes[q].status \in Open /\ quotes[q] \in QuoteRow
    BY <1>3 DEF Allowed, Acceptable, Rejectable, Sendable, Recalculable, Open, IInv, TypeOK
  <2>4. Targets(s)' = {q} /\ call'[s].seen[q] = quotes[q]
    BY <2>2 DEF Targets
  <2>5. CallTyped(s)' /\ Holds(s)'
    BY <2>2, <2>3, <2>4 DEF CallTyped, Holds, Writers
  <2> QED
    BY <1>1, <2>2, <2>5, CallMoves
<1> QED
  BY <1>2, <1>3

LEMMA SelectStaleStep == ASSUME IInv, NEW s \in Sessions, SelectStale(s) PROVE IInv'
<1>1. call[s].at # "ended" /\ UNCHANGED <<quotes, expired, contracts, agent, overlapped>>
  BY DEF SelectStale
<1> DEFINE stale == {q \in expired : quotes[q].status \in Open}
           seen == [q \in stale |-> quotes[q]]
<1>2. Go(s, "expire", "flush", seen)
  BY DEF SelectStale
<1>3. stale \subseteq Rows /\ \A q \in stale : quotes[q] \in QuoteRow /\ quotes[q].status \in Open
  BY DEF IInv, TypeOK, Rows
<1>4. DOMAIN seen = stale /\ \A q \in stale : seen[q] = quotes[q]
  OBVIOUS
<1> HIDE DEF stale, seen
<1>5. /\ CallShape' /\ call'[s] = [op |-> "expire", at |-> "flush", seen |-> seen]
      /\ \A t \in Sessions : t # s => call'[t] = call[t]
  BY <1>2, GoStep, TypeParts DEF IInv
<1>6. CallTyped(s)' /\ Holds(s)'
  BY <1>3, <1>4, <1>5 DEF CallTyped, Holds, Targets, Writers
<1> QED
  BY <1>1, <1>5, <1>6, CallMoves

LEMMA SelectContractStep ==
    ASSUME IInv, NEW s \in Sessions, NEW c \in contracts, SelectContract(s, c)
    PROVE  IInv'
<1>1. call[s].at # "ended" /\ UNCHANGED <<quotes, expired, contracts, agent, overlapped>>
  BY DEF SelectContract
<1>2. CASE ~ Renewable(c)
  BY <1>1, <1>2, EndStep DEF SelectContract, Refuse, Writers
<1>3. CASE Renewable(c)
  <2>1. /\ CallShape' /\ call'[s] = [op |-> "renew", at |-> "flush", seen |-> [id \in {c.id} |-> c]]
        /\ \A t \in Sessions : t # s => call'[t] = call[t]
    BY <1>3, GoStep, TypeParts DEF IInv, SelectContract
  <2>2. c \in ContractRow /\ c.id \in Sessions /\ c.id \notin Rows
    BY RowsAssumption DEF IInv, TypeOK, ContractRow, Rows
  <2>3. Targets(s)' = {c.id} /\ call'[s].seen[c.id] = c
    BY <2>1 DEF Targets
  <2>4. c = [c EXCEPT !.status = "active"]
    BY <1>3, <2>2 DEF Renewable, ContractRow
  <2>5. CallTyped(s)'
    BY <2>1, <2>2, <2>3 DEF CallTyped
  <2>6. Holds(s)'
    BY <1>1, <2>1, <2>3, <2>4 DEF Holds
  <2> QED
    BY <1>1, <2>1, <2>5, <2>6, CallMoves
<1> QED
  BY <1>2, <1>3

LEMMA FlushStep == ASSUME IInv, NEW s \in Sessions, Flush(s) PROVE IInv'
<1>1. /\ call[s].at = "flush" /\ call' = [call EXCEPT ![s].at = "commit"]
      /\ UNCHANGED <<quotes, expired, contracts, agent, overlapped>>
  BY DEF Flush
<1>2. CallShape /\ CallTyped(s) /\ Holds(s)
  BY TypeParts DEF IInv, CallsHoldRows
<1>3. call[s] = [op |-> call[s].op, at |-> call[s].at, seen |-> call[s].seen]
  BY <1>2 DEF CallShape
<1>4. Go(s, call[s].op, "commit", call[s].seen)
  <2>1. [call[s] EXCEPT !.at = "commit"]
            = [op |-> call[s].op, at |-> "commit", seen |-> call[s].seen]
    BY <1>3
  <2> QED
    BY <1>1, <2>1 DEF Go
<1>5. /\ CallShape' /\ call'[s] = [op |-> call[s].op, at |-> "commit", seen |-> call[s].seen]
      /\ \A t \in Sessions : t # s => call'[t] = call[t]
  BY <1>2, <1>4, GoStep
<1>6. Targets(s)' = Targets(s) /\ call'[s].seen = call[s].seen /\ call'[s].op = call[s].op
      /\ call'[s].at = "commit"
  BY <1>5 DEF Targets
<1>7. CallTyped(s)'
  BY <1>2, <1>6 DEF CallTyped
<1>8. Holds(s)'
  BY <1>1, <1>2, <1>6 DEF Holds
<1> QED
  BY <1>1, <1>5, <1>7, <1>8, CallMoves

LEMMA RollbackStep == ASSUME IInv, NEW s \in Sessions, Rollback(s) PROVE IInv'
<1>1. call[s].op \in Writers \union {"none", "renew"} /\ call[s].at # "ended"
  BY TypeParts DEF IInv, CallTyped, Writers, Rollback
<1> QED
  BY <1>1, EndStep DEF Rollback

-----------------------------------------------------------------------------
(* The commit.  What it does to the quotes and to overlapped first. *)

LEMMA CommitCall ==
    ASSUME IInv, NEW s \in Sessions, Commit(s)
    PROVE  /\ call[s].at = "commit" /\ CallShape'
           /\ call'[s] = [op |-> call[s].op, at |-> "ended", seen |-> <<>>]
           /\ call'[s].at = "ended"
           /\ \A t \in Sessions : t # s => call'[t] = call[t]
           /\ \A t \in Sessions : CallTyped(t)'
<1>1. /\ call[s].at = "commit" /\ CallShape'
      /\ call'[s] = [op |-> call[s].op, at |-> "ended", seen |-> <<>>]
      /\ \A t \in Sessions : t # s => call'[t] = call[t]
  BY GoStep, TypeParts DEF IInv, Commit
<1>2. \A t \in Sessions : CallTyped(t)
  BY TypeParts DEF IInv
<1>3. CallTyped(s)'
  BY <1>1, <1>2 DEF CallTyped, Targets
<1>4. \A t \in Sessions : t # s => CallTyped(t)'
  BY <1>1, <1>2 DEF CallTyped, Targets
<1> QED
  BY <1>1, <1>3, <1>4

\* A committing writer, and each row it found as it had read it.
LEMMA CommitQuotes ==
    ASSUME IInv, NEW s \in Sessions, Commit(s), call[s].op \in Writers
    PROVE  /\ quotes' \in [Rows -> QuoteRow]
           /\ overlapped \subseteq overlapped' /\ overlapped' \subseteq Rows \union Sessions
           /\ Targets(s) \subseteq Rows
           /\ \A q \in Rows \ Targets(s) : quotes'[q] = quotes[q]
           /\ \A q \in Targets(s) :
                 q \notin overlapped' => quotes[q].status \in Open /\ call[s].seen[q] = quotes[q]
           /\ \A q \in Targets(s) :
                 IF call[s].op = "recalculate" THEN quotes'[q].status = quotes[q].status
                 ELSE /\ quotes'[q].terms = quotes[q].terms
                      /\ quotes'[q].status = "accepted" <=> call[s].op = "accept"
<1>1. call[s].at = "commit" /\ Holds(s)
  BY DEF IInv, CallsHoldRows, Commit
<1>2. /\ Targets(s) \subseteq Rows
      /\ \A q \in Targets(s) : call[s].seen[q].status \in Open
  BY <1>1 DEF Holds, Writers
<1>3. quotes \in [Rows -> QuoteRow] /\ overlapped \subseteq Rows \union Sessions
  BY DEF IInv, TypeOK
<1>4. /\ quotes' = [q \in Rows |-> IF q \in Targets(s) THEN Written(s, q) ELSE quotes[q]]
      /\ overlapped' = overlapped \union {r \in Targets(s) : call[s].seen[r] # Row(r)}
  BY DEF Commit
<1>5. \A q \in Targets(s) : Row(q) = quotes[q]
  BY <1>2 DEF Row
<1>6. NewStatus(call[s].op) \in QuoteStatus \/ call[s].op = "recalculate"
  BY DEF NewStatus, Writers, QuoteStatus
<1>7. call[s].op # "recalculate" => (NewStatus(call[s].op) = "accepted" <=> call[s].op = "accept")
  BY DEF NewStatus, Writers
<1>8. \A q \in Rows : Written(s, q) \in QuoteRow
  BY <1>3, <1>6 DEF Written, QuoteRow, Terms
<1>9. quotes' \in [Rows -> QuoteRow]
  BY <1>3, <1>4, <1>8
<1>10. \A q \in Rows :
          IF call[s].op = "recalculate" THEN Written(s, q).status = quotes[q].status
          ELSE Written(s, q).terms = quotes[q].terms /\ Written(s, q).status = NewStatus(call[s].op)
  BY <1>3 DEF Written, QuoteRow
<1>11. \A q \in Rows : quotes'[q] = IF q \in Targets(s) THEN Written(s, q) ELSE quotes[q]
  BY <1>4
<1>12. overlapped \subseteq overlapped' /\ overlapped' \subseteq Rows \union Sessions
  BY <1>2, <1>3, <1>4
<1>13. \A q \in Targets(s) : q \notin overlapped' => call[s].seen[q] = quotes[q]
  BY <1>4, <1>5
<1>14. \A q \in Targets(s) :
          q \notin overlapped' => quotes[q].status \in Open /\ call[s].seen[q] = quotes[q]
  BY <1>2, <1>13
<1>15. \A q \in Targets(s) :
          IF call[s].op = "recalculate" THEN quotes'[q].status = quotes[q].status
          ELSE /\ quotes'[q].terms = quotes[q].terms
               /\ quotes'[q].status = "accepted" <=> call[s].op = "accept"
  BY <1>2, <1>7, <1>10, <1>11
<1> QED
  BY <1>2, <1>9, <1>11, <1>12, <1>14, <1>15

\* The contracts before the commit are among those after it, but for a status.
LEMMA HoldsAfter ==
    ASSUME IInv, NEW s \in Sessions, Commit(s),
           \A c \in contracts : \E d \in contracts' :
               d.id = c.id /\ [d EXCEPT !.status = "active"] = [c EXCEPT !.status = "active"]
    PROVE  CallsHoldRows'
<1>1. /\ call'[s] = [op |-> call[s].op, at |-> "ended", seen |-> <<>>]
      /\ \A t \in Sessions : t # s => call'[t] = call[t]
  BY CommitCall
<1>2. Holds(s)'
  BY <1>1 DEF Holds, Targets
<1>3. ASSUME NEW t \in Sessions, t # s PROVE Holds(t)'
  <2>1. Holds(t) /\ call'[t] = call[t]
    BY <1>1, <1>3 DEF IInv, CallsHoldRows
  <2>2. Targets(t)' = Targets(t)
    BY <2>1 DEF Targets
  <2>3. ASSUME NEW c \in contracts, Targets(t) = {c.id},
               call[t].seen[c.id] = [c EXCEPT !.status = "active"]
        PROVE  \E d \in contracts' :
                   Targets(t) = {d.id} /\ call[t].seen[d.id] = [d EXCEPT !.status = "active"]
    BY <2>3
  <2> QED
    BY <2>1, <2>2, <2>3 DEF Holds
<1> QED
  BY <1>2, <1>3 DEF CallsHoldRows

\* reject_quote, send_quote, expire_stale_quotes and recalculate_quote.
LEMMA CommitWrite ==
    ASSUME IInv, NEW s \in Sessions, Commit(s), call[s].op \in Writers \ {"accept"}
    PROVE  IInv'
<1>1. /\ contracts' = contracts /\ UNCHANGED <<expired, agent>>
  BY DEF Commit, ContractsAfter, Writers
<1>2. TypeOK'
  BY <1>1, CommitCall, CommitQuotes DEF IInv, TypeOK, CallShape, CallTyped
<1>3. CallsHoldRows'
  BY <1>1, HoldsAfter
<1>4. OneContractPerCall'
  <2>1. \A c \in contracts : c.id \in Sessions /\ c.subscription \in Sessions
    BY DEF IInv, TypeOK, ContractRow
  <2>2. \A t \in Sessions : call[t].at = "ended" => call'[t].at = "ended"
    BY CommitCall
  <2>3. OneContractPerCall
    BY DEF IInv
  <2> QED
    BY <1>1, <2>1, <2>2, <2>3 DEF OneContractPerCall
<1>5. \A q \in Rows : quotes'[q].status = "accepted" => quotes[q].status = "accepted"
  BY CommitQuotes
<1>6. AcceptedHasContract'
  BY <1>1, <1>5 DEF IInv, AcceptedHasContract
<1>7. ContractHasQuote'
  <2> SUFFICES ASSUME NEW c \in contracts, c.quote \notin overlapped'
               PROVE  quotes'[c.quote].status = "accepted" /\ quotes'[c.quote].terms = c.terms
    BY <1>1 DEF ContractHasQuote
  <2>1. c.quote \in Rows /\ c.quote \notin overlapped
    BY CommitQuotes DEF IInv, TypeOK, ContractRow
  <2>2. quotes[c.quote].status = "accepted" /\ quotes[c.quote].terms = c.terms
    BY <2>1 DEF IInv, ContractHasQuote
  <2>3. c.quote \notin Targets(s)
    BY <2>2, CommitQuotes DEF Open
  <2> QED
    BY <2>1, <2>2, <2>3, CommitQuotes
<1>8. OneFirstContract' /\ TermsCount' /\ LastIsActive'
  BY <1>1, CommitQuotes DEF IInv, OneFirstContract, TermsCount, LastIsActive, Intact
<1> QED
  BY <1>2, <1>3, <1>4, <1>6, <1>7, <1>8 DEF IInv

\* accept_quote: the first contract of a subscription that is new.
LEMMA CommitAccept ==
    ASSUME IInv, NEW s \in Sessions, Commit(s), call[s].op = "accept"
    PROVE  IInv'
<1>1. call[s].op \in Writers /\ call[s].at = "commit"
  BY DEF Writers, Commit
<1>2. PICK q \in Rows : Targets(s) = {q}
  BY <1>1 DEF IInv, CallsHoldRows, Holds
<1> DEFINE new == FirstContract(s, q)
<1>3. contracts' = contracts \union {new} /\ UNCHANGED <<expired, agent>>
  BY <1>2 DEF Commit, ContractsAfter
<1>4. /\ new.id = s /\ new.quote = q /\ new.subscription = s /\ new.term = 1
      /\ new.status = "active" /\ new.terms = call[s].seen[q].terms
  BY DEF FirstContract
<1>5. new \in ContractRow
  <2>1. call[s].seen[q] \in QuoteRow
    BY <1>1, <1>2, TypeParts DEF IInv, CallTyped
  <2> QED
    BY <2>1 DEF FirstContract, ContractRow, QuoteRow, ContractStatus
<1> HIDE DEF new
<1>6. TypeOK'
  BY <1>1, <1>3, <1>5, CommitCall, CommitQuotes DEF IInv, TypeOK, CallShape, CallTyped
<1>7. CallsHoldRows'
  BY <1>3, HoldsAfter
<1>8. \A c \in contracts :
          /\ c.id \in Sessions /\ c.subscription \in Sessions
          /\ call[c.id].at = "ended" /\ call[c.subscription].at = "ended"
          /\ c.id # s /\ c.subscription # s
  BY <1>1 DEF IInv, TypeOK, ContractRow, OneContractPerCall
<1>9. OneContractPerCall'
  <2>1. call'[s].at = "ended" /\ \A t \in Sessions : t # s => call'[t] = call[t]
    BY CommitCall
  <2>2. \A c \in contracts : call'[c.id].at = "ended" /\ call'[c.subscription].at = "ended"
    BY <1>8, <2>1
  <2>3. \A c, d \in contracts' : c.id = d.id => c = d
    BY <1>3, <1>4, <1>8 DEF IInv, OneContractPerCall
  <2> QED
    BY <1>3, <1>4, <2>1, <2>2, <2>3 DEF OneContractPerCall
<1>10. AcceptedHasContract'
  BY <1>1, <1>2, <1>3, <1>4, CommitQuotes DEF IInv, AcceptedHasContract
<1>11. q \notin overlapped' =>
          /\ quotes[q].status # "accepted"
          /\ \A c \in contracts : c.quote # q
  BY <1>1, <1>2, CommitQuotes DEF Open, IInv, ContractHasQuote
<1>12. ContractHasQuote'
  <2>1. q \notin overlapped' => quotes'[q].status = "accepted" /\ quotes'[q].terms = new.terms
    BY <1>1, <1>2, <1>4, CommitQuotes
  <2>2. ASSUME NEW c \in contracts, c.quote \notin overlapped'
        PROVE  quotes'[c.quote].status = "accepted" /\ quotes'[c.quote].terms = c.terms
    <3>1. c.quote \in Rows /\ c.quote # q
      BY <1>11, <2>2 DEF IInv, TypeOK, ContractRow
    <3>2. quotes'[c.quote] = quotes[c.quote] /\ c.quote \notin overlapped
      BY <1>1, <1>2, <2>2, <3>1, CommitQuotes
    <3> QED
      BY <3>2 DEF IInv, ContractHasQuote
  <2> QED
    BY <1>3, <1>4, <2>1, <2>2 DEF ContractHasQuote
<1>13. OneFirstContract'
  BY <1>1, <1>3, <1>4, <1>11, CommitQuotes DEF IInv, OneFirstContract
<1>14. TermsCount'
  BY <1>3, <1>4 DEF IInv, TermsCount
<1>15. LastIsActive'
  <2> SUFFICES ASSUME NEW c \in contracts', NEW d \in contracts', c # d,
                      c.subscription = d.subscription, Intact(c.subscription)'
               PROVE  c.term # d.term /\ (c.status = "active" => d.term < c.term)
    BY DEF LastIsActive
  <2>1. c \in contracts /\ d \in contracts
    BY <1>3, <1>4, <1>8
  <2>2. Intact(c.subscription)
    BY <1>1, <1>3, CommitQuotes DEF Intact
  <2> QED
    BY <2>1, <2>2 DEF IInv, LastIsActive
<1> QED
  BY <1>6, <1>7, <1>9, <1>10, <1>12, <1>13, <1>14, <1>15 DEF IInv

\* What becomes of a contract when the one with this id is renewed.
Renewed(c, id) == IF c.id = id THEN [c EXCEPT !.status = "completed"] ELSE c

\* renew_contract: the old contract is completed, and one of the next term added.
LEMMA CommitRenew ==
    ASSUME IInv, NEW s \in Sessions, Commit(s), call[s].op = "renew"
    PROVE  IInv'
<1>1. call[s].at = "commit" /\ UNCHANGED <<expired, agent>>
  BY DEF Commit
<1>2. PICK old \in contracts :
          Targets(s) = {old.id} /\ call[s].seen[old.id] = [old EXCEPT !.status = "active"]
  BY <1>1 DEF IInv, CallsHoldRows, Holds, Writers
<1>3. /\ old \in ContractRow /\ old.id \in Sessions /\ old.id \notin Rows
      /\ old.term \in Nat
  BY RowsAssumption DEF IInv, TypeOK, ContractRow, Rows
<1> DEFINE new == Successor(s, call[s].seen[old.id])
<1>4. /\ new.id = s /\ new.quote = old.quote /\ new.subscription = old.subscription
      /\ new.term = old.term + 1 /\ new.status = "active" /\ new.terms = old.terms
      /\ new \in ContractRow
  <2>1. new = Successor(s, [old EXCEPT !.status = "active"])
    BY <1>2
  <2>2. new = [id |-> s, quote |-> old.quote, subscription |-> old.subscription,
               term |-> old.term + 1, status |-> "active", terms |-> old.terms]
    BY <1>3, <2>1 DEF Successor, ContractRow
  <2> HIDE DEF new
  <2> QED
    BY <1>3, <2>2 DEF ContractRow, ContractStatus
<1>5. contracts' = {Renewed(c, old.id) : c \in contracts} \union {new}
  <2>1. {IF c.id \in Targets(s) THEN [c EXCEPT !.status = "completed"] ELSE c : c \in contracts}
            = {Renewed(c, old.id) : c \in contracts}
    BY <1>2 DEF Renewed
  <2>2. {Successor(s, call[s].seen[id]) : id \in Targets(s)} = {new}
    BY <1>2
  <2> QED
    BY <2>1, <2>2 DEF Commit, ContractsAfter
<1>6. \A c \in contracts :
          /\ Renewed(c, old.id).id = c.id /\ Renewed(c, old.id).quote = c.quote /\ Renewed(c, old.id).term = c.term
          /\ Renewed(c, old.id).subscription = c.subscription /\ Renewed(c, old.id).terms = c.terms
          /\ Renewed(c, old.id).status = IF c.id = old.id THEN "completed" ELSE c.status
          /\ Renewed(c, old.id) \in ContractRow
          /\ [Renewed(c, old.id) EXCEPT !.status = "active"] = [c EXCEPT !.status = "active"]
  <2> SUFFICES ASSUME NEW c \in contracts
               PROVE  /\ Renewed(c, old.id).id = c.id /\ Renewed(c, old.id).quote = c.quote /\ Renewed(c, old.id).term = c.term
                      /\ Renewed(c, old.id).subscription = c.subscription /\ Renewed(c, old.id).terms = c.terms
                      /\ Renewed(c, old.id).status = IF c.id = old.id THEN "completed" ELSE c.status
                      /\ Renewed(c, old.id) \in ContractRow
                      /\ [Renewed(c, old.id) EXCEPT !.status = "active"] = [c EXCEPT !.status = "active"]
    OBVIOUS
  <2>1. c \in ContractRow
    BY DEF IInv, TypeOK
  <2> QED
    BY <2>1 DEF Renewed, ContractRow, ContractStatus
<1> HIDE DEF new
<1>6a. \A c \in contracts :
          /\ Renewed(c, old.id).id = c.id /\ Renewed(c, old.id).quote = c.quote
          /\ Renewed(c, old.id).term = c.term /\ Renewed(c, old.id).terms = c.terms
          /\ Renewed(c, old.id).subscription = c.subscription
          /\ Renewed(c, old.id).status = IF c.id = old.id THEN "completed" ELSE c.status
  BY <1>6
<1>7. \A d \in contracts' : d = new \/ \E c \in contracts : d = Renewed(c, old.id)
  BY <1>5
<1>8. new \in contracts' /\ \A c \in contracts : Renewed(c, old.id) \in contracts'
  BY <1>5
<1>9. /\ quotes' = quotes
      /\ overlapped' = overlapped \union {r \in {old.id} : call[s].seen[r] # Row(r)}
  <2>1. quotes' = [q \in Rows |-> quotes[q]] /\ quotes = [q \in Rows |-> quotes[q]]
    BY <1>2, <1>3 DEF Commit, IInv, TypeOK
  <2> QED
    BY <1>2, <2>1 DEF Commit
<1>10. \A c \in contracts :
          /\ c.id \in Sessions /\ c.subscription \in Sessions
          /\ call[c.id].at = "ended" /\ call[c.subscription].at = "ended"
          /\ c.id # s /\ c.subscription # s
  BY <1>1 DEF IInv, TypeOK, ContractRow, OneContractPerCall
<1>11. old.id \notin overlapped' => old.status = "active"
  <2>1. Contract(old.id) = old
    BY DEF Contract, IInv, OneContractPerCall
  <2>2. Row(old.id) = old
    BY <1>3, <2>1 DEF Row
  <2>3. [old EXCEPT !.status = "active"].status = "active"
    BY <1>3 DEF ContractRow
  <2> QED
    BY <1>2, <1>9, <2>2, <2>3
<1>12. TypeOK'
  <2>1. contracts' \subseteq ContractRow
    BY <1>4, <1>6, <1>6a, <1>7
  <2>2. overlapped' \subseteq Rows \union Sessions
    BY <1>3, <1>9 DEF IInv, TypeOK
  <2> QED
    BY <1>1, <1>9, <2>1, <2>2, CommitCall DEF IInv, TypeOK, CallShape, CallTyped
<1>13. CallsHoldRows'
  BY <1>6, <1>6a, <1>8, HoldsAfter
<1>14. OneContractPerCall'
  <2>1. call'[s].at = "ended" /\ \A t \in Sessions : t # s => call'[t] = call[t]
    BY CommitCall
  <2>2. \A c \in contracts : call'[c.id].at = "ended" /\ call'[c.subscription].at = "ended"
    BY <1>10, <2>1
  <2>3. \A d \in contracts' : call'[d.id].at = "ended" /\ call'[d.subscription].at = "ended"
    BY <1>4, <1>6a, <1>7, <2>1, <2>2
  <2>4. ASSUME NEW c \in contracts', NEW d \in contracts', c.id = d.id PROVE c = d
    BY <1>4, <1>6a, <1>7, <1>10, <2>4 DEF IInv, OneContractPerCall
  <2> QED
    BY <2>3, <2>4 DEF OneContractPerCall
<1>15. AcceptedHasContract'
  BY <1>6a, <1>8, <1>9 DEF IInv, AcceptedHasContract
<1>16. ContractHasQuote'
  BY <1>4, <1>6a, <1>7, <1>9 DEF IInv, ContractHasQuote
<1>17. OneFirstContract'
  <2>1. new.term # 1
    BY <1>3, <1>4 DEF IInv, TermsCount
  <2> QED
    BY <1>6a, <1>7, <1>9, <2>1 DEF IInv, OneFirstContract
<1>18. TermsCount'
  BY <1>3, <1>4, <1>6a, <1>7 DEF IInv, TermsCount
<1>19. LastIsActive'
  <2>1. \A x : Intact(x)' => Intact(x)
    BY <1>6a, <1>8, <1>9 DEF Intact
  <2>2. \A c \in contracts : c.term \in Nat
    BY DEF IInv, TypeOK, ContractRow
  <2>3. Intact(old.subscription)' => old.status = "active"
    BY <1>6a, <1>8, <1>11 DEF Intact
  <2>4. ASSUME NEW c \in contracts, c.subscription = old.subscription, Intact(old.subscription)'
        PROVE  c.term <= old.term
    BY <1>3, <2>1, <2>2, <2>3, <2>4 DEF IInv, LastIsActive
  <2> SUFFICES ASSUME NEW c \in contracts', NEW d \in contracts', c # d,
                      c.subscription = d.subscription, Intact(c.subscription)'
               PROVE  c.term # d.term /\ (c.status = "active" => d.term < c.term)
    BY DEF LastIsActive
  <2>5. CASE c = new
    <3>1. PICK e \in contracts : d = Renewed(e, old.id)
      BY <1>7, <2>5
    <3> QED
      BY <1>3, <1>4, <1>6a, <2>2, <2>4, <2>5, <3>1
  <2>6. CASE d = new
    <3>1. PICK e \in contracts : c = Renewed(e, old.id)
      BY <1>7, <2>6
    <3>2. e.term <= old.term /\ e.term \in Nat
      BY <1>4, <1>6a, <2>2, <2>4, <2>6, <3>1
    <3>3. c.status # "active"
      <4>1. e = old => c.status = "completed"
        BY <1>6a, <3>1
      <4>2. e # old => e.status # "active"
        BY <1>4, <1>6a, <2>1, <2>2, <2>3, <2>6, <3>1 DEF IInv, LastIsActive
      <4> QED
        BY <1>6a, <3>1, <4>1, <4>2
    <3> QED
      BY <1>3, <1>4, <1>6a, <2>6, <3>1, <3>2, <3>3
  <2>7. CASE c # new /\ d # new
    <3>1. PICK e \in contracts, f \in contracts : c = Renewed(e, old.id) /\ d = Renewed(f, old.id)
      BY <1>7, <2>7
    <3>2. e # f /\ e.subscription = f.subscription /\ Intact(e.subscription)
      BY <1>6a, <2>1, <3>1
    <3>3. c.term = e.term /\ d.term = f.term /\ (c.status = "active" => e.status = "active")
      BY <1>6a, <3>1
    <3> QED
      BY <3>2, <3>3 DEF IInv, LastIsActive
  <2> QED
    BY <2>5, <2>6, <2>7
<1> QED
  BY <1>12, <1>13, <1>14, <1>15, <1>16, <1>17, <1>18, <1>19 DEF IInv

LEMMA CommitStep == ASSUME IInv, NEW s \in Sessions, Commit(s) PROVE IInv'
<1>1. call[s].op \in Writers \union {"renew"}
  BY DEF IInv, CallsHoldRows, Holds, Commit
<1> QED
  BY <1>1, CommitWrite, CommitAccept, CommitRenew

-----------------------------------------------------------------------------
(* What the calls do not do. *)

LEMMA CreateStep == ASSUME IInv, NEW q \in Quotes, CreateQuote(q) PROVE IInv'
<1>1. /\ q \in Rows /\ quotes[q].status = "absent"
      /\ quotes' = [quotes EXCEPT ![q].status = "draft"]
      /\ UNCHANGED <<expired, contracts, call, agent, overlapped>>
  BY DEF CreateQuote, Rows
<1>2. quotes \in [Rows -> QuoteRow]
  BY DEF IInv, TypeOK
<1>3. /\ quotes' \in [Rows -> QuoteRow]
      /\ quotes'[q].status = "draft" /\ \A x \in Rows : x # q => quotes'[x] = quotes[x]
  BY <1>1, <1>2 DEF QuoteRow, QuoteStatus
<1>4. TypeOK'
  BY <1>1, <1>3 DEF IInv, TypeOK, Targets
<1>5. CallsHoldRows' /\ OneContractPerCall' /\ OneFirstContract' /\ TermsCount' /\ LastIsActive'
  BY <1>1 DEF IInv, CallsHoldRows, Holds, Targets, OneContractPerCall, OneFirstContract, TermsCount,
              LastIsActive, Intact
<1>6. AcceptedHasContract'
  BY <1>1, <1>3 DEF IInv, AcceptedHasContract
<1>7. ContractHasQuote'
  <2>1. \A c \in contracts : c.quote \in Rows
    BY DEF IInv, TypeOK, ContractRow
  <2> QED
    BY <1>1, <1>3, <2>1 DEF IInv, ContractHasQuote
<1> QED
  BY <1>4, <1>5, <1>6, <1>7 DEF IInv

LEMMA OtherStep ==
    ASSUME IInv, UNCHANGED <<quotes, contracts, call, overlapped>>, TypeOK'
    PROVE  IInv'
BY DEF IInv, CallsHoldRows, Holds, Targets, OneContractPerCall, AcceptedHasContract,
       ContractHasQuote, OneFirstContract, TermsCount, LastIsActive, Intact

LEMMA ExpiresStep == ASSUME IInv, NEW q \in Quotes, Expires(q) PROVE IInv'
<1>1. TypeOK'
  BY DEF IInv, TypeOK, Targets, Expires
<1> QED
  BY <1>1, OtherStep DEF Expires

\* The agent commits nothing: its steps change its own state only.
LEMMA AgentStepKeeps == ASSUME IInv, NEW r \in Runs, AgentStep(r) PROVE IInv'
<1>1. agent[r].approval \in {"none", "rejected", "pending", "approved"}
      /\ agent[r].quote \in Runs \union {NoRow} /\ agent[r].error \in BOOLEAN
  BY DEF IInv, TypeOK
<1>2. \A action : ApprovalOf(action) \in {"rejected", "pending", "approved"}
  BY DEF ApprovalOf
<1>3. \E at \in {"load_context", "check_policies", "build_quote", "finalize", "end"},
         approval \in {"none", "rejected", "pending", "approved"},
         quote \in Runs \union {NoRow}, error \in BOOLEAN : Node(r, at, approval, quote, error)
  <2>1. CASE LoadContext(r)
    BY <2>1 DEF LoadContext
  <2>2. CASE CheckPolicies(r)
    <3>1. CASE Node(r, "end", "none", NoRow, TRUE)
      BY <3>1
    <3>2. CASE ~Node(r, "end", "none", NoRow, TRUE)
      <4>1. PICK approval \in {"rejected", "pending", "approved"} :
                Node(r, IF approval = "approved" THEN "build_quote" ELSE "end", approval, NoRow, FALSE)
        BY <1>2, <2>2, <3>2 DEF CheckPolicies
      <4> QED
        BY <4>1
    <3> QED
      BY <3>1, <3>2
  <2>3. CASE BuildQuoteNode(r)
    BY <1>1, <2>3 DEF BuildQuoteNode
  <2>4. CASE Finalize(r)
    <3>1. (agent[r].error \/ quotes[r].status = "absent") \in BOOLEAN
      OBVIOUS
    <3> QED
      BY <1>1, <2>4, <3>1 DEF Finalize
  <2> QED
    BY <2>1, <2>2, <2>3, <2>4 DEF AgentStep
<1>4. UNCHANGED <<quotes, expired, contracts, call, overlapped>>
  BY <1>3 DEF Node
<1>5. agent' \in [Runs ->
           [at : {"load_context", "check_policies", "build_quote", "finalize", "end"},
            approval : {"none", "rejected", "pending", "approved"},
            quote : Runs \union {NoRow},
            error : BOOLEAN]]
  BY <1>3 DEF IInv, TypeOK, Node
<1>6. TypeOK'
  BY <1>4, <1>5 DEF IInv, TypeOK, Targets
<1> QED
  BY <1>4, <1>6, OtherStep

-----------------------------------------------------------------------------
(* The theorems. *)

LEMMA NextKeepsIInv == IInv /\ [Next]_vars => IInv'
<1> SUFFICES ASSUME IInv, [Next]_vars PROVE IInv'
  OBVIOUS
<1>1. CASE \E q \in Quotes : CreateQuote(q) \/ Expires(q)
  BY <1>1, CreateStep, ExpiresStep
<1>2. CASE \E s \in Sessions : CallStep(s)
  BY <1>2, SelectQuoteStep, SelectStaleStep, SelectContractStep, FlushStep, CommitStep, RollbackStep
     DEF CallStep
<1>3. CASE \E r \in Runs : AgentStep(r)
  BY <1>3, AgentStepKeeps
<1>4. CASE UNCHANGED vars
  <2>1. UNCHANGED <<quotes, expired, contracts, call, agent, overlapped>>
    BY <1>4 DEF vars
  <2>2. TypeOK'
    BY <2>1 DEF IInv, TypeOK, Targets
  <2> QED
    BY <2>1, <2>2, OtherStep
<1> QED
  BY <1>1, <1>2, <1>3, <1>4 DEF Next

\* The invariant holds however many calls select, wait, commit and roll back, in
\* whatever order.
THEOREM SpecKeepsIInv == Spec => []IInv
BY InitIInv, NextKeepsIInv, PTL DEF Spec

\* Every row, every call and every run of the agent keeps its type.
THEOREM TypeCorrect == Spec => []TypeOK
<1>1. IInv => TypeOK
  BY DEF IInv
<1> QED
  BY <1>1, SpecKeepsIInv, PTL

\* accept_quote: quote and contract agree, and a quote is contracted once, unless
\* calls on the quote overlapped.
THEOREM QuotesMatchContracts == Spec => []QuoteMatchesContract
<1>1. IInv => QuoteMatchesContract
  <2> SUFFICES ASSUME IInv, NEW q \in Rows
               PROVE  LET first == {c \in contracts : c.quote = q /\ c.term = 1} IN
                      /\ quotes[q].status = "accepted" => first # {}
                      /\ q \notin overlapped =>
                            /\ first # {} => quotes[q].status = "accepted"
                            /\ \A c, d \in first : c = d
    BY DEF QuoteMatchesContract
  <2> QED
    BY DEF IInv, AcceptedHasContract, ContractHasQuote, OneFirstContract
<1> QED
  BY <1>1, SpecKeepsIInv, PTL

\* renew_contract: a subscription whose contracts were not renewed by two calls at a
\* time has one contract of each term and one that runs.
THEOREM OneContractRuns == Spec => []OneRunningContract
<1>1. IInv => OneRunningContract
  <2> SUFFICES ASSUME IInv, NEW c \in contracts, NEW d \in contracts, c # d,
                      c.subscription = d.subscription, Intact(c.subscription)
               PROVE  c.term # d.term /\ {c.status, d.status} # {"active"}
    BY DEF OneRunningContract, Intact
  <2>1. c.term \in Nat /\ d.term \in Nat
    BY DEF IInv, TypeOK, ContractRow
  <2>2. c.status = "active" => d.term < c.term
    BY DEF IInv, LastIsActive
  <2>3. d.status = "active" => c.term < d.term
    BY DEF IInv, LastIsActive
  <2>4. c.term # d.term
    BY DEF IInv, LastIsActive
  <2> QED
    BY <2>1, <2>2, <2>3, <2>4
<1> QED
  BY <1>1, SpecKeepsIInv, PTL

\* recalculate_quote and accept_quote: what a contract says is what its quote says,
\* unless a call wrote the quote from an older reading of it.
THEOREM TermsAreAgreed == Spec => []AcceptedTermsAgreed
<1>1. IInv => AcceptedTermsAgreed
  BY DEF IInv, ContractHasQuote, AcceptedTermsAgreed
<1> QED
  BY <1>1, SpecKeepsIInv, PTL
=============================================================================
