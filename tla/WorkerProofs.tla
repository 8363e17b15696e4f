---------------------------- MODULE WorkerProofs ----------------------------
(***************************************************************************)
(* The two workers that take messages off a Redis list and hand the work   *)
(* on: webhook_worker (WebhookDelivery), and revenue_worker beside the     *)
(* endpoint that writes revenue schedules (RevenueRecognition).            *)
(*                                                                         *)
(* BreakerTripsForCause, for any endpoints, workers and messages.  A count *)
(* is read when a message is taken and written when the posts are over, so *)
(* the invariant says what the count covers all along: the failed rows of  *)
(* the endpoint, and its last ones as long as no count of another worker   *)
(* came in between.                                                        *)
(*                                                                         *)
(* PriceIsRecognised, for any rules, periods and messages.  The invariant  *)
(* says of every set of rows that it is what the endpoint writes for its   *)
(* subscription and period.  That such rows add up is a matter of sums,    *)
(* whose laws are proved first.                                            *)
(***************************************************************************)
EXTENDS RevenueRecognition, WebhookDelivery, FiniteSetTheorems, WellFoundedInduction, TLAPS

-----------------------------------------------------------------------------
(* Webhooks *)

LEMMA ConstantsAre ==
    /\ NMessages \in Nat \ {0}
    /\ Subscribed \subseteq Endpoints \X (1..NMessages)
    /\ Initial \subseteq Endpoints /\ IsFiniteSet(Endpoints)
    /\ Threshold \in Nat \ {0} /\ MaxAttempts \in Nat \ {0} /\ MaxDeliveryFaults \in Nat
BY WebhookAssumption DEF MessageIds

Failed(e) == Cardinality({i \in DOMAIN log[e] : ~log[e][i]})

LastFailed(e, n) ==
    n <= Len(log[e]) /\ \A i \in (Len(log[e]) - n + 1)..Len(log[e]) : ~log[e][i]

\* The endpoints of a message are posted to once each, and what a worker will write
\* follows from what it read and what became of the post.
InOrder(at) ==
    /\ ToSet(at.todo) \union DOMAIN at.rows \subseteq DOMAIN at.read
    /\ ToSet(at.todo) \intersect DOMAIN at.rows = {}
    /\ IsInjective(at.todo)
    /\ at.result = "none" \/ at.todo # <<>>
    /\ DOMAIN at.writes \subseteq DOMAIN at.rows
    /\ \A e \in DOMAIN at.rows :
          IF e \in DOMAIN at.writes
          THEN at.writes[e] = CountAfter(at.read[e], at.rows[e])
          ELSE at.rows[e] /\ at.read[e] = 0

\* A count that was read is below the threshold and stays covered by failed deliveries.
ReadsAreCounted(at) ==
    \A e \in DOMAIN at.read :
        /\ at.read[e] < Threshold
        /\ endpoints[e].status # "absent"
        /\ e \in Registered => at.read[e] <= Failed(e)

CountsAreCovered ==
    \A e \in Registered :
        /\ endpoints[e].failures <= Failed(e)
        /\ ~endpoints[e].active => Failed(e) >= Threshold

\* Unless two workers counted at the same time, the count is of the last deliveries.
CountsAreLast ==
    \A e \in Registered : e \in overlapped \/
        /\ LastFailed(e, endpoints[e].failures)
        /\ ~endpoints[e].active => endpoints[e].failures >= Threshold

AbsentIsNew ==
    \A e \in Endpoints : endpoints[e].status = "absent" =>
        endpoints[e].active /\ endpoints[e].failures = 0 /\ log[e] = <<>>

WebhookIInv ==
    /\ WebhookTypeOK
    /\ \A w \in Workers : InOrder(worker[w]) /\ ReadsAreCounted(worker[w])
    /\ CountsAreCovered
    /\ CountsAreLast
    /\ AbsentIsNew

-----------------------------------------------------------------------------
(* The rows of a log that failed. *)

LEMMA FailedType ==
    ASSUME NEW s \in Seq(BOOLEAN)
    PROVE  /\ IsFiniteSet({i \in DOMAIN s : ~s[i]})
           /\ Cardinality({i \in DOMAIN s : ~s[i]}) \in Nat
<1>1. IsFiniteSet(1..Len(s))
  BY FS_Interval
<1>2. {i \in DOMAIN s : ~s[i]} \in SUBSET (1..Len(s))
  OBVIOUS
<1>3. IsFiniteSet({i \in DOMAIN s : ~s[i]})
  BY <1>1, <1>2, FS_Subset
<1> QED
  BY <1>3, FS_CardinalityType

LEMMA AppendFails ==
    ASSUME NEW s \in Seq(BOOLEAN), NEW ok \in BOOLEAN
    PROVE  Cardinality({i \in DOMAIN Append(s, ok) : ~Append(s, ok)[i]}) =
               Cardinality({i \in DOMAIN s : ~s[i]}) + (IF ok THEN 0 ELSE 1)
<1> DEFINE n == Len(s) + 1
           F == {i \in DOMAIN s : ~s[i]}
           G == {i \in DOMAIN Append(s, ok) : ~Append(s, ok)[i]}
<1>1. IsFiniteSet(F) /\ n \notin F
  BY FailedType
<1>2. G = IF ok THEN F ELSE F \union {n}
  OBVIOUS
<1>3. Cardinality(F) \in Nat
  BY FailedType
<1>4. Cardinality(F \union {n}) = Cardinality(F) + 1
  BY <1>1, FS_AddElement
<1> HIDE DEF F, G
<1>5. Cardinality(G) = Cardinality(F) + (IF ok THEN 0 ELSE 1)
  <2>1. CASE ok = TRUE
    <3>1. G = F
      BY <1>2, <2>1
    <3> QED
      BY <3>1, <2>1, <1>3
  <2>2. CASE ok = FALSE
    BY <1>2, <1>4, <2>2
  <2> QED
    BY <2>1, <2>2
<1> QED
  BY <1>5 DEF F, G

\* A sequence of the endpoints that were read has each of them once.
LEMMA EachOnce ==
    ASSUME NEW S, IsFiniteSet(S), NEW q \in SetToSeqs(S)
    PROVE  q \in Seq(S) /\ ToSet(q) \subseteq S /\ IsInjective(q)
<1>1. Cardinality(S) \in Nat
  BY FS_CardinalityType
<1>2. /\ q \in [1..Cardinality(S) -> S]
      /\ \A i, j \in 1..Cardinality(S) : i # j => q[i] # q[j]
  BY DEF SetToSeqs
<1> QED
  BY <1>1, <1>2 DEF ToSet, IsInjective

LEMMA RestOnce ==
    ASSUME NEW S, NEW q \in Seq(S), q # <<>>, IsInjective(q)
    PROVE  /\ Tail(q) \in Seq(S) /\ Head(q) \in S /\ Head(q) \in ToSet(q)
           /\ ToSet(Tail(q)) \subseteq ToSet(q) \ {Head(q)}
           /\ IsInjective(Tail(q))
<1>1. /\ Tail(q) \in Seq(S) /\ Head(q) \in S /\ Head(q) = q[1] /\ 1 \in DOMAIN q
      /\ \A i \in DOMAIN Tail(q) : Tail(q)[i] = q[i + 1] /\ i + 1 \in DOMAIN q /\ i + 1 # 1
  OBVIOUS
<1>2. \A i, j \in DOMAIN Tail(q) : i \in Int /\ j \in Int
  OBVIOUS
<1> QED
  BY <1>1, <1>2 DEF ToSet, IsInjective

\* What a failure writes, and what becomes of the row.
LEMMA CountOfFailure ==
    ASSUME NEW r \in Nat, Threshold \in Nat
    PROVE  /\ CountAfter(r, FALSE).failures = r + 1
           /\ ~CountAfter(r, FALSE).active => r + 1 >= Threshold
<1>1. CASE r + 1 < Threshold
  BY <1>1 DEF CountAfter
<1>2. CASE r + 1 >= Threshold
  BY <1>2 DEF CountAfter
<1>3. r + 1 < Threshold \/ r + 1 >= Threshold
  OBVIOUS
<1> QED
  BY <1>1, <1>2, <1>3, Zenon

LEMMA UpdatedFields ==
    ASSUME NEW e, NEW write,
           endpoints[e] \in [status : {"absent", "registered", "deleted"},
                             active : BOOLEAN, failures : Nat]
    PROVE  /\ Updated(e, write).status = endpoints[e].status
           /\ Updated(e, write).failures = write.failures
           /\ Updated(e, write).active = (endpoints[e].active /\ write.active)
           /\ write \in Counts =>
                 Updated(e, write) \in [status : {"absent", "registered", "deleted"},
                                        active : BOOLEAN, failures : Nat]
BY DEF Updated, Counts

-----------------------------------------------------------------------------
(* Steps. *)

\* A worker without a message.
LEMMA IdleIsFine ==
    /\ WorkerOK(Idle) /\ InOrder(Idle)
    /\ ReadsAreCounted(Idle) /\ ReadsAreCounted(Idle)'
<1>1. 1 \in MessageIds /\ 1 \in 1..MaxAttempts
  BY ConstantsAre DEF MessageIds
<1>2. WorkerOK(Idle)
  BY <1>1 DEF WorkerOK, Idle
<1> QED
  BY <1>2 DEF InOrder, ReadsAreCounted, Idle, ToSet, IsInjective

LEMMA WebhookInitIInv ==
    ASSUME WebhookInit
    PROVE  WebhookIInv
<1>1. WebhookTypeOK
  BY IdleIsFine, ConstantsAre DEF WebhookInit, WebhookTypeOK
<1>2. \A w \in Workers : InOrder(worker[w]) /\ ReadsAreCounted(worker[w])
  BY IdleIsFine DEF WebhookInit
<1>3. \A e \in Endpoints : Failed(e) = 0
  BY FS_EmptySet DEF WebhookInit, Failed
<1>4. CountsAreCovered /\ CountsAreLast /\ AbsentIsNew
  BY <1>3 DEF WebhookInit, CountsAreCovered, CountsAreLast, LastFailed, AbsentIsNew, Registered
<1> QED
  BY <1>1, <1>2, <1>4 DEF WebhookIInv

\* A step that changes the state of one worker, and neither an endpoint nor a log.
LEMMA WorkerStepKeepsIInv ==
    ASSUME WebhookIInv, NEW w \in Workers, NEW new,
           WorkerOK(new), InOrder(new), ReadsAreCounted(new),
           worker' = [worker EXCEPT ![w] = new],
           UNCHANGED <<endpoints, log, overlapped>>,
           dispatched' \in 0..NMessages, deliveries' \in Seq(MessageIds),
           finished' \subseteq MessageIds, lost' \subseteq MessageIds, deliveryFaults' \in 0..MaxDeliveryFaults
    PROVE  WebhookIInv'
<1>1. worker = [v \in Workers |-> worker[v]] /\ \A v \in Workers : WorkerOK(worker[v])
  BY DEF WebhookIInv, WebhookTypeOK
<1>2. /\ worker' = [v \in Workers |-> worker'[v]]
      /\ worker'[w] = new /\ \A v \in Workers \ {w} : worker'[v] = worker[v]
  BY <1>1
<1>3. WebhookTypeOK'
  BY <1>1, <1>2 DEF WebhookIInv, WebhookTypeOK
<1>4. \A v \in Workers : InOrder(worker[v])'
  BY <1>2 DEF WebhookIInv, InOrder
<1>5. \A v \in Workers : ReadsAreCounted(worker[v])'
  <2>1. \A e : Failed(e)' = Failed(e) /\ (e \in Registered' <=> e \in Registered)
    BY DEF Failed, Registered
  <2>2. ReadsAreCounted(worker[w])'
    BY <1>2, <2>1 DEF ReadsAreCounted
  <2>3. ASSUME NEW v \in Workers \ {w} PROVE ReadsAreCounted(worker[v])'
    <3>1. ReadsAreCounted(worker[v]) /\ worker'[v] = worker[v]
      BY <1>2 DEF WebhookIInv
    <3> QED
      BY <2>1, <3>1 DEF ReadsAreCounted
  <2> QED
    BY <2>2, <2>3
<1>6. (CountsAreCovered /\ CountsAreLast /\ AbsentIsNew)'
  BY DEF WebhookIInv, CountsAreCovered, CountsAreLast, LastFailed, AbsentIsNew, Registered, Failed
<1> QED
  BY <1>3, <1>4, <1>5, <1>6 DEF WebhookIInv

\* Taking a message, and giving it up.
LEMMA TakeKeepsIInv ==
    ASSUME WebhookIInv, NEW w \in Workers, TakeMessage(w)
    PROVE  WebhookIInv'
<1>1. Head(deliveries) \in MessageIds /\ Tail(deliveries) \in Seq(MessageIds)
  BY DEF TakeMessage, WebhookIInv, WebhookTypeOK
<1>2. PICK m \in MessageIds : m = Head(deliveries)
  BY <1>1
<1>3. PICK todo \in SetToSeqs(Eligible(m)) :
          worker' = [worker EXCEPT ![w] =
              [Idle EXCEPT !.at = "endpoints", !.message = m, !.todo = todo,
                           !.read = [e \in ToSet(todo) |-> endpoints[e].failures]]]
  BY <1>2 DEF TakeMessage
<1>4. Eligible(m) \in SUBSET Endpoints /\ IsFiniteSet(Endpoints)
  BY ConstantsAre DEF Eligible, Registered
<1>5. IsFiniteSet(Eligible(m))
  BY <1>4, FS_Subset
<1>6. todo \in Seq(Eligible(m)) /\ ToSet(todo) \subseteq Eligible(m) /\ IsInjective(todo)
  BY <1>5, EachOnce
<1>7. todo \in Seq(Endpoints)
  BY <1>4, <1>6
<1> DEFINE read == [e \in ToSet(todo) |-> endpoints[e].failures]
           new == [Idle EXCEPT !.at = "endpoints", !.message = m, !.todo = todo, !.read = read]
<1>8. new = [at |-> "endpoints", message |-> m, todo |-> todo, read |-> read,
             attempt |-> 1, result |-> "none", rows |-> <<>>, flushed |-> {}, writes |-> <<>>]
  <2>1. new \in [at : {"endpoints"}, message : {m}, todo : {todo}, read : {read},
                 attempt : {1}, result : {"none"}, rows : {<<>>}, flushed : {{}}, writes : {<<>>}]
    BY DEF Idle
  <2> HIDE DEF new
  <2> QED
    BY <2>1
<1>9. read \in [ToSet(todo) -> Nat] /\ DOMAIN read = ToSet(todo)
  BY <1>4, <1>6 DEF WebhookIInv, WebhookTypeOK
<1>10. \A e \in ToSet(todo) : /\ endpoints[e].failures < Threshold
                              /\ e \in Registered /\ endpoints[e].failures <= Failed(e)
  BY <1>6 DEF Eligible, WebhookIInv, CountsAreCovered
<1>11. ReadsAreCounted(new)
  BY <1>8, <1>10 DEF ReadsAreCounted, Registered
<1> HIDE DEF read, new
<1>15. DOMAIN <<>> = {}
  OBVIOUS
<1>12. WorkerOK(new)
  <2>1. 1 \in 1..MaxAttempts
    BY ConstantsAre
  <2> QED
    BY <1>4, <1>6, <1>7, <1>8, <1>9, <1>15, <2>1 DEF WorkerOK
<1>13. InOrder(new)
  BY <1>6, <1>8, <1>9, <1>15 DEF InOrder
<1>14. worker' = [worker EXCEPT ![w] = new]
  BY <1>3 DEF read, new
<1> QED
  BY <1>1, <1>11, <1>12, <1>13, <1>14, WorkerStepKeepsIInv DEF TakeMessage, WebhookIInv, WebhookTypeOK

LEMMA RollbackKeepsIInv ==
    ASSUME WebhookIInv, NEW w \in Workers, worker' = LoopGoesOn(w), RollbackDeliveries(w),
           deliveryFaults' \in 0..MaxDeliveryFaults
    PROVE  WebhookIInv'
<1>1. worker[w].message \in MessageIds
  BY DEF WebhookIInv, WebhookTypeOK, WorkerOK
<1> QED
  BY <1>1, IdleIsFine, WorkerStepKeepsIInv DEF RollbackDeliveries, LoopGoesOn, WebhookIInv, WebhookTypeOK

LEMMA PostKeepsIInv ==
    ASSUME WebhookIInv, NEW w \in Workers, Post(w)
    PROVE  WebhookIInv'
<1> DEFINE at == worker[w]
<1>1. WorkerOK(at) /\ InOrder(at) /\ ReadsAreCounted(at)
  BY DEF WebhookIInv, WebhookTypeOK
<1>2. at.attempt \in 1..MaxAttempts /\ MaxAttempts \in Nat /\ at.todo # <<>>
  BY <1>1, ConstantsAre DEF WorkerOK, Post
<1>3. ASSUME NEW attempt \in 1..MaxAttempts, NEW result \in {"none", "ok", "failed"}, NEW new,
             new = [at |-> at.at, message |-> at.message, todo |-> at.todo, read |-> at.read,
                    attempt |-> attempt, result |-> result, rows |-> at.rows,
                    flushed |-> at.flushed, writes |-> at.writes],
             worker' = [worker EXCEPT ![w] = new]
      PROVE  WebhookIInv'
  <2>1. WorkerOK(new)
    BY <1>1, <1>3 DEF WorkerOK
  <2>2. InOrder(new)
    BY <1>1, <1>2, <1>3 DEF InOrder
  <2>3. ReadsAreCounted(new)
    BY <1>1, <1>3 DEF ReadsAreCounted
  <2> QED
    BY <1>3, <2>1, <2>2, <2>3, WorkerStepKeepsIInv DEF Post, WebhookIInv, WebhookTypeOK
<1>4. ASSUME NEW result \in {"ok", "failed"}, worker' = [worker EXCEPT ![w].result = result]
      PROVE  WebhookIInv'
  <2> DEFINE new == [at EXCEPT !.result = result]
  <2>1. new = [at |-> at.at, message |-> at.message, todo |-> at.todo, read |-> at.read,
               attempt |-> at.attempt, result |-> result, rows |-> at.rows,
               flushed |-> at.flushed, writes |-> at.writes]
    BY <1>1 DEF WorkerOK
  <2>2. worker' = [worker EXCEPT ![w] = new]
    BY <1>4
  <2> HIDE DEF new
  <2> QED
    BY <1>2, <1>3, <2>1, <2>2
<1>5. ASSUME at.attempt < MaxAttempts, worker' = [worker EXCEPT ![w].attempt = at.attempt + 1]
      PROVE  WebhookIInv'
  <2> DEFINE new == [at EXCEPT !.attempt = at.attempt + 1]
  <2>1. new = [at |-> at.at, message |-> at.message, todo |-> at.todo, read |-> at.read,
               attempt |-> at.attempt + 1, result |-> at.result, rows |-> at.rows,
               flushed |-> at.flushed, writes |-> at.writes]
    BY <1>1 DEF WorkerOK
  <2>2. worker' = [worker EXCEPT ![w] = new]
    BY <1>5
  <2>3. at.attempt + 1 \in 1..MaxAttempts /\ at.result \in {"none", "ok", "failed"}
    BY <1>1, <1>2, <1>5 DEF WorkerOK
  <2> HIDE DEF new
  <2> QED
    BY <1>3, <2>1, <2>2, <2>3
<1> QED
  BY <1>4, <1>5 DEF Post

\* A result that is recorded is of the head of the list, which has no row yet.
LEMMA RecordKeepsIInv ==
    ASSUME WebhookIInv, NEW w \in Workers, Record(w)
    PROVE  WebhookIInv'
<1> DEFINE at == worker[w]
           e == Head(at.todo)
           ok == at.result = "ok"
           rows == Put(at.rows, e, ok)
           write == Put(at.writes, e, CountAfter(at.read[e], ok))
<1>1. WorkerOK(at) /\ InOrder(at) /\ ReadsAreCounted(at)
  BY DEF WebhookIInv, WebhookTypeOK
<1>2. at.todo \in Seq(Endpoints) /\ at.todo # <<>>
  BY <1>1 DEF Record, WorkerOK, InOrder
<1>3. /\ Tail(at.todo) \in Seq(Endpoints) /\ e \in Endpoints /\ e \in ToSet(at.todo)
      /\ ToSet(Tail(at.todo)) \subseteq ToSet(at.todo) \ {e}
      /\ IsInjective(Tail(at.todo))
  BY <1>1, <1>2, RestOnce DEF InOrder
<1>4. ok \in BOOLEAN /\ e \in DOMAIN at.read /\ at.read[e] \in Nat /\ e \notin DOMAIN at.rows
  BY <1>1, <1>3 DEF WorkerOK, InOrder
<1>5. /\ CountAfter(at.read[e], ok) \in Counts
      /\ at.rows \in [DOMAIN at.rows -> BOOLEAN]
      /\ at.writes \in [DOMAIN at.writes -> Counts]
  BY <1>1, <1>4, ConstantsAre DEF CountAfter, Counts, WorkerOK
<1>6. /\ rows \in [DOMAIN at.rows \union {e} -> BOOLEAN] /\ rows[e] = ok
      /\ \A x \in DOMAIN at.rows : rows[x] = at.rows[x]
  BY <1>4, <1>5 DEF Put
<1>7. /\ write \in [DOMAIN at.writes \union {e} -> Counts]
      /\ write[e] = CountAfter(at.read[e], ok)
      /\ \A x \in DOMAIN at.writes : x # e => write[x] = at.writes[x]
  BY <1>5 DEF Put
<1> HIDE DEF rows, write
<1>8. ASSUME NEW flushed \in SUBSET Endpoints, NEW writes,
             \/ writes = write
             \/ writes = at.writes /\ ok /\ at.read[e] = 0,
             worker' = [worker EXCEPT ![w] =
                 [at EXCEPT !.todo = Tail(@), !.attempt = 1, !.result = "none", !.rows = rows,
                            !.flushed = flushed, !.writes = writes]]
      PROVE  WebhookIInv'
  <2> DEFINE new == [at EXCEPT !.todo = Tail(@), !.attempt = 1, !.result = "none", !.rows = rows,
                               !.flushed = flushed, !.writes = writes]
  <2>1. new = [at |-> at.at, message |-> at.message, todo |-> Tail(at.todo), read |-> at.read,
               attempt |-> 1, result |-> "none", rows |-> rows,
               flushed |-> flushed, writes |-> writes]
    <3>1. new \in [at : {at.at}, message : {at.message}, todo : {Tail(at.todo)},
                   read : {at.read}, attempt : {1}, result : {"none"}, rows : {rows},
                   flushed : {flushed}, writes : {writes}]
      BY <1>1 DEF WorkerOK
    <3> HIDE DEF new
    <3> QED
      BY <3>1
  <2>2. worker' = [worker EXCEPT ![w] = new]
    BY <1>8
  <2> HIDE DEF new
  <2>3. 1 \in 1..MaxAttempts
    BY ConstantsAre
  <2>4. /\ DOMAIN writes \subseteq DOMAIN at.writes \union {e}
        /\ writes \in [DOMAIN writes -> Counts]
    BY <1>1, <1>7, <1>8 DEF WorkerOK
  <2>5. WorkerOK(new)
    BY <1>1, <1>3, <1>6, <2>1, <2>3, <2>4 DEF WorkerOK
  <2>6. ASSUME NEW x \in DOMAIN rows
        PROVE  IF x \in DOMAIN writes THEN writes[x] = CountAfter(at.read[x], rows[x])
               ELSE rows[x] /\ at.read[x] = 0
    <3>1. CASE x = e
      <4>1. CASE writes = write
        BY <1>6, <1>7, <3>1, <4>1
      <4>2. CASE writes = at.writes /\ ok /\ at.read[e] = 0
        <5>1. e \notin DOMAIN writes
          BY <1>1, <1>4, <4>2 DEF InOrder
        <5> QED
          BY <1>6, <3>1, <4>2, <5>1
      <4> QED
        BY <1>8, <4>1, <4>2
    <3>2. CASE x # e
      <4>1. x \in DOMAIN at.rows /\ rows[x] = at.rows[x]
        BY <1>6, <3>2
      <4>2. /\ x \in DOMAIN writes <=> x \in DOMAIN at.writes
            /\ x \in DOMAIN writes => writes[x] = at.writes[x]
        BY <1>7, <1>8, <3>2
      <4> QED
        BY <1>1, <4>1, <4>2 DEF InOrder
    <3> QED
      BY <3>1, <3>2
  <2>7. InOrder(new)
    <3>1. /\ ToSet(Tail(at.todo)) \union DOMAIN rows \subseteq DOMAIN at.read
          /\ ToSet(Tail(at.todo)) \intersect DOMAIN rows = {}
          /\ DOMAIN writes \subseteq DOMAIN rows
      BY <1>1, <1>3, <1>4, <1>6, <2>4 DEF InOrder
    <3> QED
      BY <1>3, <2>1, <2>6, <3>1 DEF InOrder
  <2>8. ReadsAreCounted(new)
    BY <1>1, <2>1 DEF ReadsAreCounted
  <2> QED
    BY <2>2, <2>5, <2>7, <2>8, WorkerStepKeepsIInv DEF Record, WebhookIInv, WebhookTypeOK
<1>9. CASE Writes(w)
  <2>1. DOMAIN rows \in SUBSET Endpoints
    BY <1>1, <1>3, <1>6 DEF WorkerOK
  <2>2. worker' = [worker EXCEPT ![w] =
            [at EXCEPT !.todo = Tail(@), !.attempt = 1, !.result = "none", !.rows = rows,
                       !.flushed = DOMAIN rows, !.writes = write]]
    BY <1>9 DEF Record, rows, write
  <2> QED
    BY <1>8, <2>1, <2>2
<1>10. CASE ~Writes(w)
  <2>1. ok /\ at.read[e] = 0 /\ at.flushed \in SUBSET Endpoints
    BY <1>1, <1>4, <1>10 DEF Writes, Record, WorkerOK
  <2>2. worker' = [worker EXCEPT ![w] =
            [at EXCEPT !.todo = Tail(@), !.attempt = 1, !.result = "none", !.rows = rows]]
    BY <1>10 DEF Record, rows
  <2>3. [at EXCEPT !.todo = Tail(@), !.attempt = 1, !.result = "none", !.rows = rows] =
        [at EXCEPT !.todo = Tail(@), !.attempt = 1, !.result = "none", !.rows = rows,
                   !.flushed = at.flushed, !.writes = at.writes]
    BY <1>1 DEF WorkerOK
  <2> QED
    BY <1>8, <2>1, <2>2, <2>3
<1> QED
  BY <1>9, <1>10

\* What a commit writes to an endpoint follows from the row it adds to the log.
LEMMA CommitKeepsIInv ==
    ASSUME WebhookIInv, NEW w \in Workers, CommitDeliveries(w)
    PROVE  WebhookIInv'
<1> DEFINE at == worker[w]
<1>1. WorkerOK(at) /\ InOrder(at) /\ ReadsAreCounted(at) /\ at.todo = <<>>
  BY DEF WebhookIInv, WebhookTypeOK, CommitDeliveries
<1>2. /\ DOMAIN at.rows \subseteq Registered /\ DOMAIN at.rows \subseteq DOMAIN at.read
      /\ DOMAIN at.read \subseteq Endpoints /\ DOMAIN at.writes \subseteq DOMAIN at.rows
  BY <1>1 DEF CommitDeliveries, InOrder, WorkerOK
<1>3. /\ log \in [Endpoints -> Seq(BOOLEAN)]
      /\ endpoints \in [Endpoints -> [status : {"absent", "registered", "deleted"},
                                      active : BOOLEAN, failures : Nat]]
      /\ Threshold \in Nat \ {0}
  BY ConstantsAre DEF WebhookIInv, WebhookTypeOK
<1>4. /\ log' = [e \in Endpoints |->
                    IF e \in DOMAIN at.rows THEN Append(log[e], at.rows[e]) ELSE log[e]]
      /\ endpoints' = [e \in Endpoints |->
                    IF e \in DOMAIN at.writes THEN Updated(e, at.writes[e]) ELSE endpoints[e]]
      /\ worker' = [worker EXCEPT ![w] = Idle]
      /\ overlapped' = overlapped \union
                           {e \in DOMAIN at.read : at.read[e] # endpoints[e].failures}
  BY DEF CommitDeliveries
\* An endpoint with a row.
<1>5. ASSUME NEW e \in DOMAIN at.rows
      PROVE  /\ e \in Registered /\ e \in Endpoints
             /\ at.rows[e] \in BOOLEAN /\ at.read[e] \in Nat
             /\ at.read[e] < Threshold /\ at.read[e] <= Failed(e)
             /\ log'[e] = Append(log[e], at.rows[e])
             /\ endpoints'[e].status = "registered"
             /\ \/ /\ at.rows[e] = TRUE /\ endpoints'[e].failures = 0
                   /\ ~endpoints'[e].active => ~endpoints[e].active
                \/ /\ at.rows[e] = TRUE /\ at.read[e] = 0
                   /\ endpoints'[e].failures = endpoints[e].failures
                   /\ ~endpoints'[e].active => ~endpoints[e].active
                \/ /\ at.rows[e] = FALSE /\ endpoints'[e].failures = at.read[e] + 1
                   /\ ~endpoints'[e].active =>
                          ~endpoints[e].active \/ at.read[e] + 1 >= Threshold
  <2>1. /\ e \in Registered /\ e \in Endpoints /\ at.rows[e] \in BOOLEAN /\ at.read[e] \in Nat
        /\ at.read[e] < Threshold /\ at.read[e] <= Failed(e)
    BY <1>1, <1>2 DEF WorkerOK, ReadsAreCounted, Registered
  <2>2. log'[e] = Append(log[e], at.rows[e])
    BY <1>4, <2>1
  <2>3. CASE e \in DOMAIN at.writes
    <3>1. at.writes[e] = CountAfter(at.read[e], at.rows[e])
      BY <1>1, <2>3 DEF InOrder
    <3>2. /\ endpoints'[e] = Updated(e, at.writes[e]) /\ endpoints[e].status = "registered"
          /\ endpoints[e] \in [status : {"absent", "registered", "deleted"},
                               active : BOOLEAN, failures : Nat]
      BY <1>3, <1>4, <2>1, <2>3 DEF Registered
    <3>3. CASE at.rows[e] = TRUE
      BY <2>1, <2>2, <3>1, <3>2, <3>3 DEF CountAfter, Updated
    <3>4. CASE at.rows[e] = FALSE
      <4>1. /\ at.writes[e] = CountAfter(at.read[e], FALSE)
            /\ at.writes[e].failures = at.read[e] + 1
            /\ ~at.writes[e].active => at.read[e] + 1 >= Threshold
        BY <1>3, <2>1, <3>1, <3>4, CountOfFailure
      <4>2. /\ endpoints'[e].status = "registered"
            /\ endpoints'[e].failures = at.read[e] + 1
            /\ endpoints'[e].active = (endpoints[e].active /\ at.writes[e].active)
        <5>1. PICK write : write = at.writes[e]
          OBVIOUS
        <5>2. /\ Updated(e, write).status = endpoints[e].status
              /\ Updated(e, write).failures = write.failures
              /\ Updated(e, write).active = (endpoints[e].active /\ write.active)
          BY <3>2, UpdatedFields
        <5>3. endpoints'[e] = Updated(e, write)
          BY <3>2, <5>1
        <5> QED
          BY <3>2, <4>1, <5>1, <5>2, <5>3
      <4>3. ~endpoints'[e].active => ~endpoints[e].active \/ at.read[e] + 1 >= Threshold
        BY <4>1, <4>2
      <4> QED
        BY <2>1, <2>2, <3>4, <4>2, <4>3
    <3> QED
      BY <2>1, <3>3, <3>4
  <2>4. CASE e \notin DOMAIN at.writes
    <3>1. at.rows[e] = TRUE /\ at.read[e] = 0
      BY <1>1, <2>1, <2>4 DEF InOrder
    <3>2. endpoints'[e] = endpoints[e] /\ endpoints[e].status = "registered"
      BY <1>4, <2>1, <2>4 DEF Registered
    <3> QED
      BY <2>1, <2>2, <3>1, <3>2
  <2> QED
    BY <2>3, <2>4
<1>6. \A e \in Endpoints \ DOMAIN at.rows : endpoints'[e] = endpoints[e] /\ log'[e] = log[e]
  BY <1>2, <1>4
<1>7. /\ \A e \in Endpoints : endpoints'[e].status = endpoints[e].status
      /\ Registered' = Registered /\ Registered \subseteq Endpoints
  BY <1>5, <1>6 DEF Registered
<1>8. \A e \in Endpoints : /\ Failed(e) \in Nat /\ Failed(e)' \in Nat /\ Failed(e) <= Failed(e)'
                           /\ e \in DOMAIN at.rows /\ at.rows[e] = FALSE =>
                                  Failed(e)' = Failed(e) + 1
  <2>1. ASSUME NEW e \in Endpoints
        PROVE  /\ Failed(e) \in Nat /\ Failed(e)' \in Nat /\ Failed(e) <= Failed(e)'
               /\ e \in DOMAIN at.rows /\ at.rows[e] = FALSE => Failed(e)' = Failed(e) + 1
    <3>1. Failed(e) \in Nat
      BY <1>3, FailedType DEF Failed
    <3>2. CASE e \in DOMAIN at.rows
      <4>1. Failed(e)' = Failed(e) + (IF at.rows[e] THEN 0 ELSE 1)
        <5>1. PICK s \in Seq(BOOLEAN), ok \in BOOLEAN : s = log[e] /\ ok = at.rows[e]
          BY <1>3, <1>5, <3>2
        <5>2. log'[e] = Append(s, ok)
          BY <1>5, <3>2, <5>1
        <5>3. Cardinality({i \in DOMAIN Append(s, ok) : ~Append(s, ok)[i]})
                = Cardinality({i \in DOMAIN s : ~s[i]}) + (IF ok THEN 0 ELSE 1)
          BY <5>1, AppendFails
        <5> QED
          BY <5>1, <5>2, <5>3 DEF Failed
      <4>2. CASE at.rows[e] = TRUE
        BY <3>1, <4>1, <4>2
      <4>3. CASE at.rows[e] = FALSE
        BY <3>1, <4>1, <4>3
      <4> QED
        BY <1>5, <3>2, <4>2, <4>3
    <3>3. CASE e \notin DOMAIN at.rows
      <4>1. log'[e] = log[e]
        BY <1>6, <3>3
      <4>2. Failed(e)' = Failed(e)
        BY <4>1 DEF Failed
      <4> QED
        BY <3>1, <3>3, <4>2
    <3> QED
      BY <3>2, <3>3
  <2> QED
    BY <2>1
<1>9. WebhookTypeOK'
  <2>1. log' \in [Endpoints -> Seq(BOOLEAN)]
    <3>1. \A e \in Endpoints : log[e] \in Seq(BOOLEAN)
      BY <1>3
    <3>2. \A e \in DOMAIN at.rows : Append(log[e], at.rows[e]) \in Seq(BOOLEAN)
      <4>1. ASSUME NEW e \in DOMAIN at.rows PROVE Append(log[e], at.rows[e]) \in Seq(BOOLEAN)
        <5>1. log[e] \in Seq(BOOLEAN) /\ at.rows[e] \in BOOLEAN
          BY <1>5, <3>1
        <5> QED
          BY <5>1
      <4> QED
        BY <4>1
    <3> QED
      BY <1>4, <3>1, <3>2
  <2>2. endpoints' \in [Endpoints -> [status : {"absent", "registered", "deleted"},
                                      active : BOOLEAN, failures : Nat]]
    <3>1. \A e \in DOMAIN at.writes : at.writes[e] \in Counts
      BY <1>1 DEF WorkerOK
    <3> QED
      <4>1. \A e \in DOMAIN at.writes : e \in Endpoints
        BY <1>2
      <4>2. \A e \in DOMAIN at.writes :
               Updated(e, at.writes[e]) \in [status : {"absent", "registered", "deleted"},
                                             active : BOOLEAN, failures : Nat]
        BY <1>3, <3>1, <4>1, UpdatedFields
      <4> QED
        BY <1>3, <1>4, <4>2
  <2>3. /\ worker' = [v \in Workers |-> worker'[v]]
        /\ \A v \in Workers : WorkerOK(worker'[v])
    BY <1>4, IdleIsFine DEF WebhookIInv, WebhookTypeOK
  <2>4. finished' \subseteq MessageIds /\ overlapped' \subseteq Endpoints
    BY <1>1, <1>2, <1>4 DEF CommitDeliveries, WebhookIInv, WebhookTypeOK, WorkerOK
  <2> QED
    BY <2>1, <2>2, <2>3, <2>4 DEF CommitDeliveries, WebhookIInv, WebhookTypeOK
<1>10. \A v \in Workers : worker'[v] = Idle \/ worker'[v] = worker[v]
  BY <1>4 DEF WebhookIInv, WebhookTypeOK
<1>11. \A v \in Workers : InOrder(worker[v])'
  BY <1>10, IdleIsFine DEF WebhookIInv, InOrder
<1>12. ASSUME NEW v \in Workers
       PROVE  ReadsAreCounted(worker[v])'
  <2>1. CASE worker'[v] = Idle
    BY <2>1 DEF ReadsAreCounted, Idle
  <2>2. CASE worker'[v] = worker[v]
    <3>1. WorkerOK(worker[v]) /\ ReadsAreCounted(worker[v])
      BY DEF WebhookIInv, WebhookTypeOK
    <3>2. ASSUME NEW e \in DOMAIN worker[v].read
          PROVE  /\ worker[v].read[e] < Threshold /\ endpoints'[e].status # "absent"
                 /\ e \in Registered' => worker[v].read[e] <= Failed(e)'
      <4>1. e \in Endpoints /\ worker[v].read[e] \in Nat
        BY <3>1 DEF WorkerOK
      <4>2. /\ worker[v].read[e] < Threshold /\ endpoints[e].status # "absent"
            /\ e \in Registered => worker[v].read[e] <= Failed(e)
        BY <3>1 DEF ReadsAreCounted
      <4> QED
        BY <1>7, <1>8, <4>1, <4>2
    <3> QED
      BY <2>2, <3>2 DEF ReadsAreCounted
  <2> QED
    BY <1>10, <2>1, <2>2
<1>13. CountsAreCovered'
  <2>1. ASSUME NEW e \in Registered
        PROVE  /\ endpoints'[e].failures <= Failed(e)'
               /\ ~endpoints'[e].active => Failed(e)' >= Threshold
    <3>1. /\ endpoints[e].failures \in Nat /\ endpoints[e].failures <= Failed(e)
          /\ ~endpoints[e].active => Failed(e) >= Threshold
          /\ Failed(e) \in Nat /\ Failed(e)' \in Nat /\ Failed(e) <= Failed(e)'
      BY <1>3, <1>7, <1>8 DEF WebhookIInv, CountsAreCovered
    <3>2. CASE e \in DOMAIN at.rows
      <4>1. /\ at.read[e] \in Nat /\ at.read[e] <= Failed(e)
            /\ at.rows[e] = FALSE => Failed(e)' = Failed(e) + 1
        BY <1>5, <1>8, <3>2
      <4>2. CASE at.rows[e] = TRUE
        <5>1. /\ endpoints'[e].failures \in {0, endpoints[e].failures}
              /\ ~endpoints'[e].active => ~endpoints[e].active
          BY <1>5, <3>2, <4>2
        <5> QED
          BY <1>3, <3>1, <5>1
      <4>3. CASE at.rows[e] = FALSE
        <5>1. /\ endpoints'[e].failures = at.read[e] + 1
              /\ ~endpoints'[e].active => ~endpoints[e].active \/ at.read[e] + 1 >= Threshold
          BY <1>5, <3>2, <4>3
        <5> QED
          BY <1>3, <3>1, <4>1, <4>3, <5>1
      <4> QED
        BY <1>5, <3>2, <4>2, <4>3
    <3>3. CASE e \notin DOMAIN at.rows
      BY <1>3, <1>6, <1>7, <3>1, <3>3
    <3> QED
      BY <3>2, <3>3
  <2> QED
    BY <1>7, <2>1 DEF CountsAreCovered
<1>14. CountsAreLast'
  <2>1. ASSUME NEW e \in Registered, e \notin overlapped'
        PROVE  /\ LastFailed(e, endpoints[e].failures)'
               /\ ~endpoints'[e].active => endpoints'[e].failures >= Threshold
    <3>1. /\ endpoints[e].failures \in Nat /\ LastFailed(e, endpoints[e].failures)
          /\ ~endpoints[e].active => endpoints[e].failures >= Threshold
      BY <1>3, <1>4, <1>7, <2>1 DEF WebhookIInv, CountsAreLast
    <3>2. CASE e \notin DOMAIN at.rows
      BY <1>6, <1>7, <3>1, <3>2 DEF LastFailed
    <3>3. CASE e \in DOMAIN at.rows
      <4>1. /\ at.read[e] = endpoints[e].failures /\ endpoints[e].active
            /\ log[e] \in Seq(BOOLEAN) /\ log'[e] = Append(log[e], at.rows[e])
        <5>1. e \in DOMAIN at.read /\ e \in Endpoints
          BY <1>2, <3>3
        <5>2. at.read[e] = endpoints[e].failures
          BY <1>4, <2>1, <5>1
        <5>3. endpoints[e].active
          <6>1. at.read[e] \in Nat /\ at.read[e] < Threshold
            BY <1>5, <3>3
          <6> QED
            BY <1>3, <3>1, <5>2, <6>1
        <5> QED
          BY <1>3, <1>5, <3>3, <5>1, <5>2, <5>3
      <4>2. CASE at.rows[e] = TRUE
        <5>1. endpoints'[e].failures = 0 /\ endpoints'[e].active
          BY <1>5, <3>3, <4>1, <4>2
        <5> QED
          BY <1>3, <4>1, <5>1 DEF LastFailed
      <4>3. CASE at.rows[e] = FALSE
        <5>1. /\ endpoints'[e].failures = endpoints[e].failures + 1
              /\ ~endpoints'[e].active => endpoints'[e].failures >= Threshold
          <6>1. /\ endpoints'[e].failures = at.read[e] + 1
                /\ ~endpoints'[e].active => ~endpoints[e].active \/ at.read[e] + 1 >= Threshold
            BY <1>5, <3>3, <4>3
          <6> QED
            BY <1>3, <3>1, <4>1, <6>1
        <5>2. PICK n \in Nat : n = endpoints[e].failures
          BY <3>1
        <5>3. PICK s \in Seq(BOOLEAN) : s = log[e]
          BY <4>1
        <5>4. n <= Len(s) /\ \A i \in (Len(s) - n + 1)..Len(s) : ~s[i]
          BY <3>1, <5>2, <5>3 DEF LastFailed
        <5>5. /\ n + 1 <= Len(Append(s, FALSE))
              /\ \A i \in (Len(Append(s, FALSE)) - (n + 1) + 1)..Len(Append(s, FALSE)) :
                    ~Append(s, FALSE)[i]
          BY <5>4
        <5>6. log'[e] = Append(s, FALSE) /\ endpoints'[e].failures = n + 1
          BY <4>1, <4>3, <5>1, <5>2, <5>3
        <5> QED
          BY <5>1, <5>5, <5>6 DEF LastFailed
      <4> QED
        BY <1>5, <3>3, <4>2, <4>3
    <3> QED
      BY <3>2, <3>3
  <2> QED
    BY <1>7, <2>1 DEF CountsAreLast
<1>15. AbsentIsNew'
  <2>1. ASSUME NEW e \in Endpoints, endpoints'[e].status = "absent"
        PROVE  endpoints'[e] = endpoints[e] /\ log'[e] = log[e]
    BY <1>5, <1>6, <2>1
  <2> QED
    BY <1>7, <2>1 DEF WebhookIInv, AbsentIsNew
<1> QED
  BY <1>9, <1>11, <1>12, <1>13, <1>14, <1>15 DEF WebhookIInv

\* A new endpoint has no row, and a deleted one is no longer registered.
LEMMA EndpointsKeepIInv ==
    ASSUME WebhookIInv, NEW e \in Endpoints, Create(e) \/ Delete(e)
    PROVE  WebhookIInv'
<1>1. /\ log \in [Endpoints -> Seq(BOOLEAN)]
      /\ endpoints \in [Endpoints -> [status : {"absent", "registered", "deleted"},
                                      active : BOOLEAN, failures : Nat]]
      /\ worker' = worker /\ overlapped' = overlapped /\ Threshold \in Nat \ {0}
  BY ConstantsAre DEF WebhookIInv, WebhookTypeOK, Create, Delete
<1>2. \A x \in Endpoints \ {e} : endpoints'[x] = endpoints[x] /\ log'[x] = log[x]
  BY <1>1 DEF Create, Delete
<1>3. /\ endpoints'[e].status \in {"registered", "deleted"}
      /\ endpoints'[e].status = "registered" =>
            /\ endpoints[e].status = "absent" /\ log'[e] = log[e]
            /\ endpoints'[e].failures = endpoints[e].failures
            /\ endpoints'[e].active = endpoints[e].active
  BY <1>1 DEF Create, Delete
<1>4. WebhookTypeOK'
  <2>1. log' \in [Endpoints -> Seq(BOOLEAN)]
    <3>1. log' = log \/ log' = [log EXCEPT ![e] = <<>>]
      BY DEF Create, Delete
    <3>2. <<>> \in Seq(BOOLEAN)
      OBVIOUS
    <3> QED
      BY <1>1, <3>1, <3>2
  <2>2. endpoints' \in [Endpoints -> [status : {"absent", "registered", "deleted"},
                                      active : BOOLEAN, failures : Nat]]
    <3>1. \/ endpoints' = [endpoints EXCEPT ![e].status = "registered"]
          \/ endpoints' = [endpoints EXCEPT ![e].status = "deleted"]
      BY DEF Create, Delete
    <3>2. /\ endpoints[e] \in [status : {"absent", "registered", "deleted"},
                               active : BOOLEAN, failures : Nat]
          /\ endpoints' = [endpoints EXCEPT ![e] = endpoints'[e]]
      BY <1>1, <3>1
    <3>3. endpoints'[e] \in [status : {"absent", "registered", "deleted"},
                             active : BOOLEAN, failures : Nat]
      <4>1. \/ endpoints'[e] = [endpoints[e] EXCEPT !.status = "registered"]
            \/ endpoints'[e] = [endpoints[e] EXCEPT !.status = "deleted"]
        BY <1>1, <3>1
      <4> QED
        BY <3>2, <4>1
    <3> QED
      BY <1>1, <3>2, <3>3
  <2> QED
    BY <2>1, <2>2 DEF WebhookIInv, WebhookTypeOK, Create, Delete
<1>5. \A x \in Endpoints \ {e} : Failed(x)' = Failed(x) /\ (x \in Registered' <=> x \in Registered)
  BY <1>2 DEF Failed, Registered
<1>6. \A v \in Workers : InOrder(worker[v])'
  BY <1>1 DEF WebhookIInv, InOrder
<1>7. ASSUME NEW v \in Workers
      PROVE  ReadsAreCounted(worker[v])'
  <2>1. WorkerOK(worker[v]) /\ ReadsAreCounted(worker[v])
    BY DEF WebhookIInv, WebhookTypeOK
  <2>2. ASSUME NEW x \in DOMAIN worker[v].read
        PROVE  /\ worker[v].read[x] < Threshold /\ endpoints'[x].status # "absent"
               /\ x \in Registered' => worker[v].read[x] <= Failed(x)'
    <3>1. /\ x \in Endpoints /\ worker[v].read[x] < Threshold /\ endpoints[x].status # "absent"
          /\ x \in Registered => worker[v].read[x] <= Failed(x)
      BY <2>1 DEF ReadsAreCounted, WorkerOK
    <3>2. CASE x = e
      <4>1. e \notin Registered'
        BY <1>3, <3>1, <3>2 DEF Registered
      <4> QED
        BY <1>3, <3>1, <3>2, <4>1
    <3>3. CASE x # e
      BY <1>2, <1>5, <3>1, <3>3
    <3> QED
      BY <3>2, <3>3
  <2> QED
    BY <1>1, <2>2 DEF ReadsAreCounted
<1>8. e \in Registered' =>
          /\ endpoints'[e].failures = 0 /\ endpoints'[e].active /\ log'[e] = <<>>
          /\ Failed(e)' = 0
  <2>1. e \in Registered' =>
          endpoints'[e].failures = 0 /\ endpoints'[e].active /\ log'[e] = <<>>
    BY <1>3 DEF WebhookIInv, AbsentIsNew, Registered
  <2>2. ASSUME log'[e] = <<>> PROVE Failed(e)' = 0
    <3>1. {i \in DOMAIN log'[e] : ~log'[e][i]} = {}
      BY <2>2
    <3>2. Failed(e)' = Cardinality({i \in DOMAIN log'[e] : ~log'[e][i]})
      BY DEF Failed
    <3> QED
      BY <3>1, <3>2, FS_EmptySet
  <2> QED
    BY <2>1, <2>2
<1>9. CountsAreCovered'
  <2>1. \A x \in Registered' : x # e => x \in Registered /\ endpoints'[x] = endpoints[x]
    BY <1>2, <1>5 DEF Registered
  <2> QED
    <3>1. ASSUME NEW x \in Registered'
          PROVE  /\ endpoints'[x].failures <= Failed(x)'
                 /\ ~endpoints'[x].active => Failed(x)' >= Threshold
      <4>1. CASE x = e
        BY <1>8, <4>1
      <4>2. CASE x # e
        <5>1. x \in Endpoints /\ x \in Registered /\ endpoints'[x] = endpoints[x]
          BY <2>1, <4>2 DEF Registered
        <5> QED
          BY <1>5, <4>2, <5>1 DEF WebhookIInv, CountsAreCovered
      <4> QED
        BY <4>1, <4>2
    <3> QED
      BY <3>1 DEF CountsAreCovered
<1>10. CountsAreLast'
  <2>1. \A x \in Registered' : x # e =>
            x \in Registered /\ endpoints'[x] = endpoints[x] /\ log'[x] = log[x]
    BY <1>2, <1>5 DEF Registered
  <2>2. ASSUME NEW x \in Registered', x \notin overlapped'
        PROVE  /\ LastFailed(x, endpoints[x].failures)'
               /\ ~endpoints'[x].active => endpoints'[x].failures >= Threshold
    <3>1. CASE x = e
      <4>1. endpoints'[x].failures = 0 /\ endpoints'[x].active /\ log'[x] = <<>>
        BY <1>8, <2>2, <3>1
      <4>2. \A i \in (Len(log'[x]) - 0 + 1)..Len(log'[x]) : ~log'[x][i]
        BY <4>1
      <4> QED
        BY <4>1, <4>2 DEF LastFailed
    <3>2. CASE x # e
      <4>1. x \in Registered /\ endpoints'[x] = endpoints[x] /\ log'[x] = log[x]
        BY <2>1, <2>2, <3>2
      <4>2. x \notin overlapped
        BY <1>1, <2>2
      <4>3. /\ LastFailed(x, endpoints[x].failures)
            /\ ~endpoints[x].active => endpoints[x].failures >= Threshold
        BY <4>1, <4>2 DEF WebhookIInv, CountsAreLast
      <4> QED
        BY <4>1, <4>3 DEF LastFailed
    <3> QED
      BY <3>1, <3>2
  <2> QED
    BY <2>2 DEF CountsAreLast
<1>11. AbsentIsNew'
  BY <1>2, <1>3 DEF WebhookIInv, AbsentIsNew
<1> QED
  BY <1>4, <1>6, <1>7, <1>9, <1>10, <1>11 DEF WebhookIInv

\* What concerns no endpoint and no worker.
LEMMA OthersKeepIInv ==
    ASSUME WebhookIInv, Dispatch \/ DispatchFails \/ UNCHANGED webhookVars
    PROVE  WebhookIInv'
<1>1. UNCHANGED <<endpoints, log, worker, overlapped, finished>>
  BY DEF Dispatch, DispatchFails, webhookVars
<1>2. /\ dispatched \in 0..NMessages /\ deliveries \in Seq(MessageIds) /\ lost \subseteq MessageIds
      /\ deliveryFaults \in 0..MaxDeliveryFaults /\ NMessages \in Nat /\ MaxDeliveryFaults \in Nat
  BY ConstantsAre DEF WebhookIInv, WebhookTypeOK
<1>3. dispatched' \in 0..NMessages /\ deliveryFaults' \in 0..MaxDeliveryFaults
  BY <1>2 DEF Dispatch, DispatchFails, webhookVars
<1>4. deliveries' \in Seq(MessageIds) /\ lost' \subseteq MessageIds
  <2>1. dispatched < NMessages => dispatched + 1 \in MessageIds
    BY <1>2 DEF MessageIds
  <2>2. CASE Dispatch
    BY <1>2, <2>1, <2>2 DEF Dispatch
  <2>3. CASE DispatchFails
    BY <1>2, <2>1, <2>3 DEF DispatchFails
  <2>4. CASE UNCHANGED webhookVars
    BY <1>2, <2>4 DEF webhookVars
  <2> QED
    BY <2>2, <2>3, <2>4
<1>5. WebhookTypeOK'
  BY <1>1, <1>3, <1>4 DEF WebhookIInv, WebhookTypeOK
<1>6. \A w \in Workers : InOrder(worker[w])' /\ ReadsAreCounted(worker[w])'
  BY <1>1 DEF WebhookIInv, InOrder, ReadsAreCounted, Registered, Failed
<1>7. (CountsAreCovered /\ CountsAreLast /\ AbsentIsNew)'
  BY <1>1 DEF WebhookIInv, CountsAreCovered, CountsAreLast, LastFailed, AbsentIsNew, Registered, Failed
<1> QED
  BY <1>5, <1>6, <1>7 DEF WebhookIInv

LEMMA WebhookStepKeepsIInv ==
    ASSUME WebhookIInv, [WebhookNext]_(webhookVars)
    PROVE  WebhookIInv'
<1>1. ASSUME NEW w \in Workers, DeliveryStep(w) \/ Fails(w)
      PROVE  WebhookIInv'
  <2>1. deliveryFaults \in 0..MaxDeliveryFaults /\ MaxDeliveryFaults \in Nat
    BY ConstantsAre DEF WebhookIInv, WebhookTypeOK
  <2>2. CASE FlushFails(w) \/ AbortDeadlock(w) \/ Fails(w)
    BY <2>1, <2>2, RollbackKeepsIInv DEF FlushFails, AbortDeadlock, Fails
  <2> QED
    BY <1>1, <2>2, TakeKeepsIInv, PostKeepsIInv, RecordKeepsIInv, CommitKeepsIInv
       DEF DeliveryStep
<1> QED
  BY <1>1, EndpointsKeepIInv, OthersKeepIInv DEF WebhookNext

-----------------------------------------------------------------------------
\* The invariant holds of every run of dispatchers, workers and the endpoints API.
THEOREM WebhookSpecKeepsIInv ==
    WebhookSpec => []WebhookIInv
<1>1. WebhookInit => WebhookIInv
  BY WebhookInitIInv
<1>2. WebhookIInv /\ [WebhookNext]_(webhookVars) => WebhookIInv'
  BY WebhookStepKeepsIInv
<1> QED
  BY <1>1, <1>2, PTL DEF WebhookSpec

\* The variables keep their types.
THEOREM WebhookTypeCorrect ==
    WebhookSpec => []WebhookTypeOK
<1>1. WebhookIInv => WebhookTypeOK
  BY DEF WebhookIInv
<1> QED
  BY <1>1, WebhookSpecKeepsIInv, PTL

\* An endpoint is switched off only after Threshold failed deliveries on record, and they
\* are its last ones unless two workers counted for it at the same time.
THEOREM BreakersTripForCause ==
    WebhookSpec => []BreakerTripsForCause
<1>1. WebhookIInv => BreakerTripsForCause
  <2> SUFFICES ASSUME WebhookIInv, NEW e \in Registered, ~endpoints[e].active
               PROVE  /\ Failed(e) >= Threshold
                      /\ \/ e \in overlapped
                         \/ \A i \in (Len(log[e]) - Threshold + 1)..Len(log[e]) : ~log[e][i]
    BY DEF BreakerTripsForCause, Failed
  <2>1. e \in overlapped \/ (LastFailed(e, endpoints[e].failures)
                             /\ endpoints[e].failures >= Threshold)
    BY DEF WebhookIInv, CountsAreLast
  <2>2. endpoints[e].failures \in Nat /\ Threshold \in Nat /\ Len(log[e]) \in Nat
    BY ConstantsAre DEF WebhookIInv, WebhookTypeOK, Registered
  <2> QED
    BY <2>1, <2>2 DEF WebhookIInv, CountsAreCovered, LastFailed
<1> QED
  BY <1>1, WebhookSpecKeepsIInv, PTL

-----------------------------------------------------------------------------
(* Revenue recognition *)

-----------------------------------------------------------------------------
(* Sums.  SumFunction is defined by recursion over sets of arguments, in the *)
(* order CHOOSE draws them.                                                  *)

LEMMA LeastNat ==
    ASSUME NEW T, T \subseteq Nat, T # {}
    PROVE  \E n \in T : \A m \in T : n <= m
<1> DEFINE R == {ss \in Nat \X Nat : ss[1] < ss[2]}
<1>1. IsWellFoundedOn(R, Nat)
  BY NatLessThanWellFounded DEF OpToRel
<1>2. \E x \in T : \A y \in T : ~ (<<y, x>> \in R)
  <2> HIDE DEF R
  <2> QED
    BY <1>1, WFMin
<1>3. \A x, y \in T : ~ (<<y, x>> \in R) => x <= y
  OBVIOUS
<1> QED
  BY <1>2, <1>3

\* A set of sets that holds whatever is not empty has a smallest one.
LEMMA LeastSet ==
    ASSUME NEW S, IsFiniteSet(S), NEW F, F \subseteq SUBSET S, F # {}
    PROVE  \E s \in F : \A t \in F : Cardinality(s) <= Cardinality(t)
<1> DEFINE C == {Cardinality(s) : s \in F}
<1>1. C \subseteq Nat
  BY FS_Subset, FS_CardinalityType
<1>2. C # {}
  OBVIOUS
<1>3. \A s \in F : Cardinality(s) \in C
  OBVIOUS
<1>4. \A n \in C : \E s \in F : n = Cardinality(s)
  OBVIOUS
<1> HIDE DEF C
<1>5. PICK n \in C : \A m \in C : n <= m
  BY <1>1, <1>2, LeastNat
<1>6. PICK s \in F : n = Cardinality(s)
  BY <1>4
<1> QED
  BY <1>3, <1>5, <1>6

LEMMA OneLess ==
    ASSUME NEW S, IsFiniteSet(S), NEW s \in SUBSET S, NEW x \in s
    PROVE  /\ s \ {x} \in SUBSET S
           /\ Cardinality(s) \in Nat /\ Cardinality(s \ {x}) \in Nat
           /\ Cardinality(s \ {x}) = Cardinality(s) - 1
<1>1. IsFiniteSet(s)
  BY FS_Subset
<1> QED
  BY <1>1, FS_RemoveElement, FS_CardinalityType

\* What holds of the empty set, and of a set when it holds of the set without one of its
\* elements, holds of every finite set.
LEMMA EverySubset ==
    ASSUME NEW S, IsFiniteSet(S), NEW F, F \subseteq SUBSET S, {} \notin F,
           \A s \in F : \E x \in s : s \ {x} \in F
    PROVE  F = {}
<1> SUFFICES ASSUME F # {} PROVE FALSE
  OBVIOUS
<1>1. PICK s \in F : \A t \in F : Cardinality(s) <= Cardinality(t)
  BY LeastSet
<1>2. PICK x \in s : s \ {x} \in F
  OBVIOUS
<1> QED
  BY <1>1, <1>2, OneLess

Part(f, T) == [x \in T |-> f[x]]

Drawn(s) == CHOOSE x \in s : TRUE

\* The sum of f over s, when g gives the sums over smaller sets.
Total(f, g, s) == IF s = {} THEN 0 ELSE f[Drawn(s)] + g[s \ {Drawn(s)}]

Sums(f, S) == CHOOSE g : g = [s \in SUBSET S |-> Total(f, g, s)]

LEMMA SumIsSums == \A f : SumOf(f) = Sums(f, DOMAIN f)[DOMAIN f]
BY DEF SumOf, SumFunction, SumFunctionOnSet, FoldFunctionOnSet, MapThenFoldSet, Sums, Total, Drawn

LEMMA DrawnIsIn == \A s : s # {} => Drawn(s) \in s
BY DEF Drawn

LEMMA SumsExist ==
    ASSUME NEW S, IsFiniteSet(S), NEW f
    PROVE  \E g : g = [s \in SUBSET S |-> Total(f, g, s)]
<1> DEFINE Upto(n, g) == g = [s \in SUBSET S |-> IF Cardinality(s) <= n THEN Total(f, g, s) ELSE 0]
           Bad == {n \in Nat : ~ \E g : Upto(n, g)}
<1>0. \A s \in SUBSET S : IsFiniteSet(s) /\ Cardinality(s) \in Nat /\ Cardinality(s) <= Cardinality(S)
  BY FS_Subset, FS_CardinalityType
<1>1. 0 \notin Bad
  <2> DEFINE g == [s \in SUBSET S |-> 0]
  <2>1. \A s \in SUBSET S : Cardinality(s) <= 0 => s = {}
    BY <1>0, FS_EmptySet
  <2>2. g = [s \in SUBSET S |-> IF Cardinality(s) <= 0 THEN Total(f, g, s) ELSE 0]
    BY <2>1 DEF Total
  <2> QED
    BY <2>2
<1>2. ASSUME NEW n \in Nat, n \notin Bad PROVE n + 1 \notin Bad
  <2>1. PICK g : Upto(n, g)
    BY <1>2
  <2> DEFINE h == [s \in SUBSET S |-> IF Cardinality(s) <= n + 1 THEN Total(f, g, s) ELSE 0]
  <2>2. \A s \in SUBSET S : Cardinality(s) <= n + 1 => Total(f, h, s) = Total(f, g, s)
    <3> SUFFICES ASSUME NEW s \in SUBSET S, Cardinality(s) <= n + 1, s # {}
                 PROVE  h[s \ {Drawn(s)}] = g[s \ {Drawn(s)}]
      BY DEF Total
    <3>1. /\ s \ {Drawn(s)} \in SUBSET S
          /\ Cardinality(s \ {Drawn(s)}) \in Nat
          /\ Cardinality(s \ {Drawn(s)}) <= n
      BY DrawnIsIn, OneLess
    <3>2. h[s \ {Drawn(s)}] = Total(f, g, s \ {Drawn(s)})
      BY <3>1
    <3>3. g[s \ {Drawn(s)}] = Total(f, g, s \ {Drawn(s)})
      BY <2>1, <3>1
    <3> QED
      BY <3>2, <3>3
  <2>3. h = [s \in SUBSET S |-> IF Cardinality(s) <= n + 1 THEN Total(f, h, s) ELSE 0]
    BY <2>2
  <2> QED
    BY <2>3
<1>3. Bad = {}
  <2> SUFFICES ASSUME Bad # {} PROVE FALSE
    OBVIOUS
  <2>1. PICK n \in Bad : \A m \in Bad : n <= m
    BY LeastNat
  <2> HIDE DEF Bad
  <2>2. n \in Nat
    BY <2>1 DEF Bad
  <2>3. n # 0
    BY <1>1, <2>1
  <2>4. n - 1 \in Nat /\ n - 1 \notin Bad
    BY <2>1, <2>2, <2>3
  <2>5. (n - 1) + 1 \notin Bad
    BY <1>2, <2>4
  <2> QED
    BY <2>1, <2>2, <2>5
<1>4. Cardinality(S) \in Nat
  BY FS_CardinalityType
<1>5. PICK g : Upto(Cardinality(S), g)
  BY <1>3, <1>4
<1>6. g = [s \in SUBSET S |-> Total(f, g, s)]
  BY <1>0, <1>5
<1> QED
  BY <1>6

LEMMA SumsStep ==
    ASSUME NEW S, IsFiniteSet(S), NEW f, NEW s \in SUBSET S
    PROVE  Sums(f, S)[s] = IF s = {} THEN 0
                           ELSE f[Drawn(s)] + Sums(f, S)[s \ {Drawn(s)}]
<1>1. Sums(f, S) = [t \in SUBSET S |-> Total(f, Sums(f, S), t)]
  BY SumsExist DEF Sums
<1> QED
  BY <1>1 DEF Total

LEMMA SumsInt ==
    ASSUME NEW S, IsFiniteSet(S), NEW f, \A x \in S : f[x] \in Int
    PROVE  \A s \in SUBSET S : Sums(f, S)[s] \in Int
<1> DEFINE F == {s \in SUBSET S : Sums(f, S)[s] \notin Int}
<1>1. {} \notin F
  <2>1. Sums(f, S)[{}] = 0
    BY SumsStep
  <2> QED
    BY <2>1
<1>2. \A s \in F : \E x \in s : s \ {x} \in F
  <2> SUFFICES ASSUME NEW s \in F PROVE \E x \in s : s \ {x} \in F
    OBVIOUS
  <2>1. s # {}
    BY <1>1
  <2>2. Drawn(s) \in s /\ s \in SUBSET S
    BY <2>1, DrawnIsIn
  <2>3. Sums(f, S)[s] = f[Drawn(s)] + Sums(f, S)[s \ {Drawn(s)}]
    BY <2>1, <2>2, SumsStep
  <2>4. f[Drawn(s)] \in Int /\ s \ {Drawn(s)} \in SUBSET S
    BY <2>2
  <2>5. Sums(f, S)[s] \notin Int
    OBVIOUS
  <2>6. Sums(f, S)[s \ {Drawn(s)}] \notin Int
    BY <2>3, <2>4, <2>5
  <2> QED
    BY <2>2, <2>4, <2>6
<1> HIDE DEF F
<1>3. F = {}
  <2>1. F \subseteq SUBSET S
    BY DEF F
  <2> QED
    BY <1>1, <1>2, <2>1, EverySubset
<1> QED
  BY <1>3 DEF F

\* The order in which the arguments are drawn does not matter.
LEMMA SumsAnyOrder ==
    ASSUME NEW S, IsFiniteSet(S), NEW f, \A x \in S : f[x] \in Int
    PROVE  \A s \in SUBSET S : \A y \in s : Sums(f, S)[s] = f[y] + Sums(f, S)[s \ {y}]
<1> DEFINE g == Sums(f, S)
           F == {s \in SUBSET S : \E y \in s : g[s] # f[y] + g[s \ {y}]}
<1> SUFFICES ASSUME F # {} PROVE FALSE
  OBVIOUS
<1>1. PICK s \in F : \A t \in F : Cardinality(s) <= Cardinality(t)
  BY LeastSet
<1>2. PICK y \in s : g[s] # f[y] + g[s \ {y}]
  BY <1>1
<1> DEFINE x == Drawn(s)
<1>3. x \in s /\ s \in SUBSET S
  BY <1>1, <1>2, DrawnIsIn
<1>4. g[s] = f[x] + g[s \ {x}]
  BY <1>2, <1>3, SumsStep
<1> HIDE DEF x
<1>5. x # y
  BY <1>2, <1>4
<1>6. \A z \in s : s \ {z} \in SUBSET S /\ s \ {z} \notin F
  <2> SUFFICES ASSUME NEW z \in s PROVE s \ {z} \in SUBSET S /\ s \ {z} \notin F
    OBVIOUS
  <2>1. /\ s \ {z} \in SUBSET S
        /\ Cardinality(s) \in Nat /\ Cardinality(s \ {z}) \in Nat
        /\ Cardinality(s \ {z}) = Cardinality(s) - 1
    BY <1>3, OneLess
  <2>2. ~ (Cardinality(s) <= Cardinality(s \ {z}))
    BY <2>1
  <2> QED
    BY <1>1, <2>1, <2>2
<1> HIDE DEF g
<1>7. g[s \ {x}] = f[y] + g[(s \ {x}) \ {y}]
  BY <1>3, <1>5, <1>6
<1>8. g[s \ {y}] = f[x] + g[(s \ {y}) \ {x}]
  BY <1>3, <1>5, <1>6
<1>9. (s \ {x}) \ {y} = (s \ {y}) \ {x}
  OBVIOUS
<1>10. /\ f[x] \in Int /\ f[y] \in Int
       /\ g[(s \ {x}) \ {y}] \in Int
  BY <1>3, SumsInt DEF g
<1>11. g[s \ {y}] = f[x] + g[(s \ {x}) \ {y}]
  BY <1>8, <1>9
<1>12. \A a, b, c \in Int : a + (b + c) = b + (a + c)
  OBVIOUS
<1>13. f[x] + (f[y] + g[(s \ {x}) \ {y}]) = f[y] + (f[x] + g[(s \ {x}) \ {y}])
  BY <1>10, <1>12
<1>14. g[s] = f[y] + g[s \ {y}]
  BY <1>4, <1>7, <1>11, <1>13
<1> QED
  BY <1>2, <1>14

\* Nor does it matter what else there is.
LEMMA SumsPart ==
    ASSUME NEW S, IsFiniteSet(S), NEW f, NEW T \in SUBSET S
    PROVE  Sums(Part(f, T), T)[T] = Sums(f, S)[T]
<1>0. IsFiniteSet(T)
  BY FS_Subset
<1> DEFINE h == Part(f, T)
<1>4. \A x \in T : h[x] = f[x]
  BY DEF Part
<1> HIDE DEF h
<1> DEFINE F == {s \in SUBSET T : Sums(h, T)[s] # Sums(f, S)[s]}
<1>1. {} \notin F
  BY <1>0, SumsStep
<1>2. \A s \in F : \E x \in s : s \ {x} \in F
  <2> SUFFICES ASSUME NEW s \in F PROVE \E x \in s : s \ {x} \in F
    OBVIOUS
  <2>1. s # {}
    BY <1>1
  <2>2. Drawn(s) \in s /\ s \in SUBSET S /\ s \in SUBSET T
    BY <2>1, DrawnIsIn
  <2>3. /\ Sums(h, T)[s] = h[Drawn(s)] + Sums(h, T)[s \ {Drawn(s)}]
        /\ Sums(f, S)[s] = f[Drawn(s)] + Sums(f, S)[s \ {Drawn(s)}]
    BY <1>0, <2>1, <2>2, SumsStep
  <2> QED
    BY <1>4, <2>2, <2>3
<1> HIDE DEF F
<1>3. F = {}
  <2>1. F \subseteq SUBSET T
    BY DEF F
  <2> QED
    BY <1>0, <1>1, <1>2, <2>1, EverySubset
<1> QED
  BY <1>3 DEF F, h

-----------------------------------------------------------------------------
(* What is used of sums below. *)

LEMMA SumNone == \A f : DOMAIN f = {} => SumOf(f) = 0
BY SumIsSums, SumsStep, FS_EmptySet

LEMMA SumIsInt ==
    ASSUME NEW S, IsFiniteSet(S), NEW f \in [S -> Int]
    PROVE  SumOf(f) \in Int
BY SumIsSums, SumsInt

LEMMA SumTake ==
    ASSUME NEW S, IsFiniteSet(S), NEW f \in [S -> Int], NEW x \in S
    PROVE  /\ SumOf(f) = f[x] + SumOf(Part(f, S \ {x}))
           /\ SumOf(Part(f, S \ {x})) \in Int /\ f[x] \in Int
<1> DEFINE T == S \ {x}
<1>1. DOMAIN f = S /\ DOMAIN Part(f, T) = T /\ T \in SUBSET S /\ S \in SUBSET S
  BY DEF Part
<1>2. IsFiniteSet(T) /\ Part(f, T) \in [T -> Int]
  BY FS_Subset DEF Part
<1>3. Sums(f, S)[S] = f[x] + Sums(f, S)[T]
  BY SumsAnyOrder
<1> HIDE DEF T
<1>4. Sums(Part(f, T), T)[T] = Sums(f, S)[T]
  BY <1>1, SumsPart
<1>5. SumOf(f) = f[x] + SumOf(Part(f, T))
  BY <1>1, <1>3, <1>4, SumIsSums
<1>6. SumOf(Part(f, T)) \in Int
  BY <1>2, SumIsInt
<1> QED
  BY <1>5, <1>6 DEF T

LEMMA PartTake ==
    ASSUME NEW S, IsFiniteSet(S), NEW f \in [S -> Int], NEW s \in SUBSET S, NEW x \in s
    PROVE  /\ SumOf(Part(f, s)) = f[x] + SumOf(Part(f, s \ {x}))
           /\ SumOf(Part(f, s \ {x})) \in Int /\ f[x] \in Int /\ s \ {x} \in SUBSET S
<1>1. IsFiniteSet(s) /\ Part(f, s) \in [s -> Int]
  BY FS_Subset DEF Part
<1>2. Part(Part(f, s), s \ {x}) = Part(f, s \ {x}) /\ Part(f, s)[x] = f[x]
  BY DEF Part
<1>3. /\ SumOf(Part(f, s)) = Part(f, s)[x] + SumOf(Part(Part(f, s), s \ {x}))
      /\ SumOf(Part(Part(f, s), s \ {x})) \in Int /\ Part(f, s)[x] \in Int
  BY <1>1, SumTake
<1> QED
  BY <1>2, <1>3

LEMMA PartNone == \A f : SumOf(Part(f, {})) = 0
BY SumNone DEF Part

LEMMA PartInt ==
    ASSUME NEW S, IsFiniteSet(S), NEW f \in [S -> Int], NEW s \in SUBSET S
    PROVE  SumOf(Part(f, s)) \in Int
<1>1. IsFiniteSet(s) /\ Part(f, s) \in [s -> Int]
  BY FS_Subset DEF Part
<1> QED
  BY <1>1, SumIsInt

LEMMA SumNonNegative ==
    ASSUME NEW S, IsFiniteSet(S), NEW f \in [S -> Nat]
    PROVE  SumOf(f) \in Nat
<1> DEFINE F == {s \in SUBSET S : SumOf(Part(f, s)) \notin Nat}
<1>1. {} \notin F
  BY PartNone
<1>2. ASSUME NEW s \in F PROVE \E x \in s : s \ {x} \in F
  <2>1. PICK x \in s : TRUE
    BY <1>1
  <2>2. s \in SUBSET S /\ f[x] \in Nat /\ f \in [S -> Int]
    OBVIOUS
  <2>3. /\ SumOf(Part(f, s)) = f[x] + SumOf(Part(f, s \ {x}))
        /\ SumOf(Part(f, s \ {x})) \in Int /\ s \ {x} \in SUBSET S
    BY <2>2, PartTake
  <2>4. SumOf(Part(f, s)) \notin Nat
    OBVIOUS
  <2>5. SumOf(Part(f, s \ {x})) \notin Nat
    BY <2>2, <2>3, <2>4
  <2> QED
    BY <2>3, <2>5
<1>3. F = {}
  <2> HIDE DEF F
  <2>1. F \subseteq SUBSET S
    BY DEF F
  <2> QED
    BY <1>1, <1>2, <2>1, EverySubset
<1>4. Part(f, S) = f
  BY DEF Part
<1> QED
  BY <1>3, <1>4

LEMMA SumSame ==
    ASSUME NEW S, IsFiniteSet(S), NEW c \in Int
    PROVE  SumOf([x \in S |-> c]) = Cardinality(S) * c
<1> DEFINE f == [x \in S |-> c]
           F == {s \in SUBSET S : SumOf(Part(f, s)) # Cardinality(s) * c}
<1>0. f \in [S -> Int] /\ \A x \in S : f[x] = c
  OBVIOUS
<1> HIDE DEF f
<1>1. {} \notin F
  <2>1. Cardinality({}) = 0
    BY FS_EmptySet
  <2> QED
    BY <2>1, PartNone
<1>2. ASSUME NEW s \in F PROVE \E x \in s : s \ {x} \in F
  <2>1. PICK x \in s : TRUE
    BY <1>1
  <2>2. s \in SUBSET S /\ f[x] = c
    BY <1>0
  <2>3. /\ SumOf(Part(f, s)) = c + SumOf(Part(f, s \ {x}))
        /\ SumOf(Part(f, s \ {x})) \in Int /\ s \ {x} \in SUBSET S
    BY <1>0, <2>2, PartTake
  <2>4. /\ Cardinality(s) \in Nat /\ Cardinality(s \ {x}) \in Nat
        /\ Cardinality(s \ {x}) = Cardinality(s) - 1
    BY <2>2, OneLess
  <2>5. \A n \in Nat : n * c = c + (n - 1) * c
    OBVIOUS
  <2>6. Cardinality(s) * c = c + Cardinality(s \ {x}) * c
    BY <2>4, <2>5
  <2>7. SumOf(Part(f, s)) # Cardinality(s) * c
    OBVIOUS
  <2>8. SumOf(Part(f, s \ {x})) # Cardinality(s \ {x}) * c
    BY <2>3, <2>6, <2>7
  <2> QED
    BY <2>3, <2>8
<1>3. F = {}
  <2> HIDE DEF F
  <2>1. F \subseteq SUBSET S
    BY DEF F
  <2> QED
    BY <1>1, <1>2, <2>1, EverySubset
<1>4. Part(f, S) = f
  BY DEF Part, f
<1>5. SumOf(f) = Cardinality(S) * c
  BY <1>3, <1>4
<1> QED
  BY <1>5 DEF f

LEMMA SumSplit ==
    ASSUME NEW S, IsFiniteSet(S), NEW f \in [S -> Int], NEW T \in SUBSET S
    PROVE  SumOf(f) = SumOf(Part(f, T)) + SumOf(Part(f, S \ T))
<1> DEFINE F == {s \in SUBSET S : SumOf(f) # SumOf(Part(f, s)) + SumOf(Part(f, S \ s))}
<1>0. Part(f, S) = f /\ SumOf(f) \in Int
  BY SumIsInt DEF Part
<1>1. {} \notin F
  <2>1. S \ {} = S
    OBVIOUS
  <2> QED
    BY <1>0, <2>1, PartNone
<1>2. ASSUME NEW s \in F PROVE \E x \in s : s \ {x} \in F
  <2>1. PICK x \in s : TRUE
    BY <1>1
  <2>2. s \in SUBSET S /\ x \in S \ (s \ {x}) /\ S \ (s \ {x}) \in SUBSET S
        /\ (S \ (s \ {x})) \ {x} = S \ s
    OBVIOUS
  <2>3. /\ SumOf(Part(f, s)) = f[x] + SumOf(Part(f, s \ {x}))
        /\ SumOf(Part(f, s \ {x})) \in Int /\ f[x] \in Int /\ s \ {x} \in SUBSET S
    BY <2>2, PartTake
  <2> DEFINE U == S \ (s \ {x})
  <2>4. /\ SumOf(Part(f, U)) = f[x] + SumOf(Part(f, U \ {x}))
        /\ SumOf(Part(f, U \ {x})) \in Int
    <3> HIDE DEF U
    <3>1. U \in SUBSET S /\ x \in U
      BY <2>2 DEF U
    <3> QED
      BY <3>1, PartTake
  <2>5. SumOf(Part(f, U)) = f[x] + SumOf(Part(f, S \ s)) /\ SumOf(Part(f, S \ s)) \in Int
    BY <2>2, <2>4
  <2>6. SumOf(f) # SumOf(Part(f, s)) + SumOf(Part(f, S \ s))
    OBVIOUS
  <2> HIDE DEF U
  <2>7. SumOf(f) # SumOf(Part(f, s \ {x})) + SumOf(Part(f, U))
    BY <1>0, <2>3, <2>5, <2>6
  <2> QED
    BY <2>3, <2>7 DEF U
<1>3. F = {}
  <2> HIDE DEF F
  <2>1. F \subseteq SUBSET S
    BY DEF F
  <2> QED
    BY <1>1, <1>2, <2>1, EverySubset
<1> QED
  BY <1>3

LEMMA ImageIsFinite ==
    ASSUME NEW S, IsFiniteSet(S), NEW f, DOMAIN f = S, f = [x \in S |-> f[x]]
    PROVE  IsFiniteSet({f[x] : x \in S})
<1> DEFINE T == {f[x] : x \in S}
<1>1. f \in Surjection(S, T)
  BY DEF Surjection
<1> QED
  BY <1>1, FS_Surjection

\* g counts the arguments of f under another name, b.
Renamed(S, T, b, f, g) ==
    /\ IsFiniteSet(S)
    /\ b \in [S -> T] /\ f \in [T -> Int] /\ g \in [S -> Int]
    /\ \A x, y \in S : b[x] = b[y] => x = y
    /\ \A y \in T : \E x \in S : y = b[x]
    /\ \A x \in S : g[x] = f[b[x]]

LEMMA SumRenamed ==
    ASSUME NEW S, NEW T, NEW b, NEW f, NEW g, Renamed(S, T, b, f, g)
    PROVE  SumOf(g) = SumOf(f)
<1> USE DEF Renamed
<1> DEFINE Img(s) == {b[x] : x \in s}
           F == {s \in SUBSET S : SumOf(Part(g, s)) # SumOf(Part(f, Img(s)))}
<1>0. IsFiniteSet(T)
  <2> DEFINE h == [x \in S |-> b[x]]
  <2>1. T = {h[x] : x \in S} /\ DOMAIN h = S /\ h = [x \in S |-> h[x]]
    OBVIOUS
  <2> HIDE DEF h
  <2> QED
    BY <2>1, ImageIsFinite
<1>00. \A s \in SUBSET S : Img(s) \in SUBSET T
  OBVIOUS
<1>1. {} \notin F
  <2>1. Img({}) = {}
    OBVIOUS
  <2> QED
    BY <2>1, PartNone
<1>2. ASSUME NEW s \in F PROVE \E x \in s : s \ {x} \in F
  <2>1. PICK x \in s : TRUE
    BY <1>1
  <2>2. s \in SUBSET S /\ b[x] \in Img(s) /\ Img(s) \in SUBSET T /\ g[x] = f[b[x]]
    BY <1>00
  <2>3. Img(s \ {x}) = Img(s) \ {b[x]}
    BY <2>2
  <2>4. /\ SumOf(Part(g, s)) = g[x] + SumOf(Part(g, s \ {x}))
        /\ SumOf(Part(g, s \ {x})) \in Int /\ g[x] \in Int /\ s \ {x} \in SUBSET S
    BY <2>2, PartTake
  <2>5. SumOf(Part(g, s)) # SumOf(Part(f, Img(s)))
    OBVIOUS
  <2> HIDE DEF Img
  <2>6. /\ SumOf(Part(f, Img(s))) = f[b[x]] + SumOf(Part(f, Img(s) \ {b[x]}))
        /\ SumOf(Part(f, Img(s) \ {b[x]})) \in Int
    BY <1>0, <2>2, PartTake
  <2>7. SumOf(Part(g, s \ {x})) # SumOf(Part(f, Img(s \ {x})))
    BY <2>2, <2>3, <2>4, <2>5, <2>6
  <2> QED
    BY <2>4, <2>7
<1>3. F = {}
  <2> HIDE DEF F
  <2>1. F \subseteq SUBSET S
    BY DEF F
  <2> QED
    BY <1>1, <1>2, <2>1, EverySubset
<1>4. Part(g, S) = g /\ Img(S) = T /\ Part(f, T) = f
  BY DEF Part
<1> HIDE DEF Img
<1> QED
  BY <1>3, <1>4

-----------------------------------------------------------------------------
(* The pure part. *)

LEMMA HalfUpInt == \A n \in Int, d \in Nat \ {0} : HalfUp(n, d) \in Int
<1>1. \A n \in Int : Magnitude(n) \in Nat
  BY DEF Magnitude
<1>2. \A p \in Nat, e \in Nat \ {0} : (2 * p + e) \div (2 * e) \in Int
  OBVIOUS
<1> SUFFICES ASSUME NEW n \in Int, NEW d \in Nat \ {0}
             PROVE  HalfUp(n, d) \in Int
  OBVIOUS
<1> DEFINE e == Magnitude(d)
           magnitude == (2 * Magnitude(n) + e) \div (2 * e)
<1>3. e \in Nat \ {0}
  BY DEF Magnitude
<1>4. magnitude \in Int /\ -magnitude \in Int
  <2> HIDE DEF e
  <2> QED  BY <1>1, <1>2, <1>3
<1> QED  BY <1>4 DEF HalfUp

LEMMA ObligationsAre ==
    ASSUME NEW s \in Subs
    PROVE  LET obligations == Obligations(Rules[s])
               n == Len(Rules[s])
           IN  /\ n \in Nat /\ (Rules[s] # <<>> => n # 0)
               /\ DOMAIN obligations = 1..n /\ Len(obligations) = n
               /\ \A i \in 1..n : obligations[i].price \in Nat
               /\ TotalPrice(obligations) \in Nat
<1> DEFINE obligations == Obligations(Rules[s])
           n == Len(Rules[s])
<1>1. /\ Rules[s] \in Seq([model : STRING, flat : Int, unit : Int])
      /\ n \in Nat /\ (Rules[s] # <<>> => n # 0) /\ DOMAIN Rules[s] = 1..n
  BY RulesAssumption
<1>2. \A i \in 1..n : StandalonePrice(Rules[s][i]) \in Nat
  <2> DEFINE Rule == [model : STRING, flat : Int, unit : Int]
  <2>1. \A r \in Rule : r.flat \in Int /\ r.unit \in Int
    OBVIOUS
  <2>2. \A i \in 1..n : Rules[s][i] \in Rule
    <3> HIDE DEF Rule
    <3>1. Rules[s] \in Seq(Rule)
      BY <1>1 DEF Rule
    <3> QED
      BY <3>1
  <2>3. \A i \in 1..n : Rules[s][i].flat \in Int /\ Rules[s][i].unit \in Int
    BY <2>1, <2>2
  <2> QED
    BY <2>3 DEF StandalonePrice
<1>3. /\ DOMAIN obligations = 1..n
      /\ \A i \in 1..n : obligations[i].price \in Nat
  BY <1>1, <1>2 DEF Obligations
<1>4. Len(obligations) = n
  BY <1>1 DEF Obligations
<1> HIDE DEF n, obligations
<1>5. [i \in DOMAIN obligations |-> obligations[i].price] \in [1..n -> Nat]
  BY <1>3
<1>6. IsFiniteSet(1..n)
  <2>1. n \in Int /\ 1 \in Int
    BY <1>1
  <2> QED
    BY <2>1, FS_Interval
<1>7. TotalPrice(obligations) \in Nat
  BY <1>5, <1>6, SumNonNegative DEF TotalPrice
<1> QED
  BY <1>1, <1>3, <1>4, <1>7 DEF n, obligations

\* The last share makes up for the rounding of the others.
LEMMA AllocateSharesOut ==
    ASSUME NEW obligations, NEW n \in Nat \ {0}, NEW total \in Int,
           DOMAIN obligations = 1..n, Len(obligations) = n,
           \A i \in 1..n : obligations[i].price \in Nat,
           TotalPrice(obligations) \in Nat
    PROVE  /\ Allocate(total, obligations) \in [1..n -> Int]
           /\ SumOf(Allocate(total, obligations)) = total
<1> DEFINE f == Allocate(total, obligations)
           g == [i \in 1..(n - 1) |-> Share(total, obligations, i)]
<1>1. \A i \in 1..n : AllocationPct(obligations, i) \in Int
  <2> SUFFICES ASSUME NEW i \in 1..n PROVE AllocationPct(obligations, i) \in Int
    OBVIOUS
  <2>1. obligations[i].price * PctScale \in Int /\ PctScale \in Int
    BY PctScaleAssumption
  <2>2. CASE TotalPrice(obligations) = 0
    <3>1. HalfUp(PctScale, n) \in Int
      BY <2>1, HalfUpInt
    <3> QED
      BY <2>2, <3>1 DEF AllocationPct
  <2>3. CASE TotalPrice(obligations) # 0
    <3>1. HalfUp(obligations[i].price * PctScale, TotalPrice(obligations)) \in Int
      BY <2>1, <2>3, HalfUpInt
    <3> QED
      BY <2>3, <3>1 DEF AllocationPct
  <2> QED
    BY <2>2, <2>3
<1>2. \A i \in 1..n : Share(total, obligations, i) \in Int
  <2> SUFFICES ASSUME NEW i \in 1..n PROVE Share(total, obligations, i) \in Int
    OBVIOUS
  <2>1. total * AllocationPct(obligations, i) \in Int
    BY <1>1
  <2> QED
    BY <2>1, PctScaleAssumption, HalfUpInt DEF Share
<1>3. IsFiniteSet(1..n) /\ \A i \in 1..n : IsFiniteSet(1..(i - 1))
  BY FS_Interval
<1>4. \A i \in 1..n : SumOf([j \in 1..(i - 1) |-> Share(total, obligations, j)]) \in Int
  <2> SUFFICES ASSUME NEW i \in 1..n
               PROVE  SumOf([j \in 1..(i - 1) |-> Share(total, obligations, j)]) \in Int
    OBVIOUS
  <2>1. [j \in 1..(i - 1) |-> Share(total, obligations, j)] \in [1..(i - 1) -> Int]
    BY <1>2
  <2> QED
    BY <1>3, <2>1, SumIsInt
<1>5. f \in [1..n -> Int]
  BY <1>2, <1>4 DEF Allocate
<1>6. n \in 1..n /\ f[n] = total - SumOf(g)
  BY DEF Allocate
<1>7. Part(f, (1..n) \ {n}) = g
  <2>1. (1..n) \ {n} = 1..(n - 1)
    OBVIOUS
  <2>2. \A i \in 1..(n - 1) : f[i] = Share(total, obligations, i)
    BY DEF Allocate
  <2> QED
    BY <2>1, <2>2 DEF Part
<1>8. SumOf(g) \in Int
  BY <1>4, <1>6
<1> HIDE DEF f, g
<1>9. SumOf(f) = f[n] + SumOf(g)
  BY <1>3, <1>5, <1>6, <1>7, SumTake
<1>10. SumOf(f) = total
  BY <1>6, <1>8, <1>9
<1> QED
  BY <1>5, <1>10 DEF f

LEMMA RecognizedIsAll ==
    ASSUME NEW total \in Int, NEW n \in Nat \ {0}
    PROVE  /\ Recognized(total, n) \in [1..n -> Int]
           /\ SumOf(Recognized(total, n)) = total
<1> DEFINE r == Recognized(total, n)
           c == HalfUp(total, n)
<1>1. c \in Int
  BY HalfUpInt
<1>2. (n - 1) * c \in Int
  BY <1>1
<1>3. r \in [1..n -> Int] /\ n \in 1..n /\ r[n] = total - (n - 1) * c
  BY <1>1, <1>2 DEF Recognized
<1>4. Part(r, (1..n) \ {n}) = [i \in 1..(n - 1) |-> c]
  <2>1. (1..n) \ {n} = 1..(n - 1)
    OBVIOUS
  <2> QED
    BY <2>1 DEF Part, Recognized
<1>5. /\ IsFiniteSet(1..n) /\ IsFiniteSet(1..(n - 1))
      /\ Cardinality(1..(n - 1)) = n - 1
  BY FS_Interval
<1> HIDE DEF c, r
<1>6. SumOf([i \in 1..(n - 1) |-> c]) = (n - 1) * c
  BY <1>1, <1>5, SumSame
<1>7. SumOf(r) = r[n] + (n - 1) * c
  BY <1>3, <1>4, <1>5, <1>6, SumTake
<1>8. SumOf(r) = total
  BY <1>2, <1>3, <1>7
<1> QED
  BY <1>3, <1>8 DEF r

\* A schedule recognises its total in its months, and defers what the later ones recognise.
Complete(entries, n, first, last, total) ==
    /\ DOMAIN entries = 1..n
    /\ \A i \in 1..n : /\ entries[i].period = first + i - 1 /\ first + i - 1 <= last
                       /\ entries[i].recognized \in Int /\ entries[i].deferred \in Int
    /\ SumOf([i \in 1..n |-> entries[i].recognized]) = total
    /\ \A i \in 1..n :
          entries[i].deferred = SumOf([j \in (i + 1)..n |-> entries[j].recognized])

LEMMA SchedulesAreComplete ==
    ASSUME NEW obligation, NEW total \in Int, NEW first \in Nat, NEW last \in Nat, first <= last
    PROVE  \E n \in Nat \ {0} :
               Complete(Schedule(obligation, total, first, last), n, first, last, total)
<1> DEFINE entries == Schedule(obligation, total, first, last)
<1>1. CASE obligation.method = "point_in_time"
  <2>1. entries = <<[period |-> first, recognized |-> total, deferred |-> 0]>>
    BY <1>1 DEF Schedule
  <2>2. /\ DOMAIN entries = 1..1 /\ entries[1].period = first /\ entries[1].recognized = total
        /\ entries[1].deferred = 0
    BY <2>1
  <2> HIDE DEF entries
  <2> DEFINE f == [i \in 1..1 |-> entries[i].recognized]
  <2>3. SumOf(f) = total
    <3>1. f \in [1..1 -> Int] /\ 1 \in 1..1 /\ f[1] = total
      BY <2>2
    <3>2. 1..1 = {1} /\ (1..1) \ {1} = {} /\ IsFiniteSet({1})
      BY FS_Singleton
    <3> HIDE DEF f
    <3>3. SumOf(f) = f[1] + SumOf(Part(f, {}))
      BY <3>1, <3>2, SumTake
    <3> QED
      BY <3>1, <3>3, PartNone
  <2>4. SumOf([j \in (1 + 1)..1 |-> entries[j].recognized]) = 0
    <3>1. DOMAIN [j \in (1 + 1)..1 |-> entries[j].recognized] = {}
      OBVIOUS
    <3> QED
      BY <3>1, SumNone
  <2>5. \A i \in 1..1 : i = 1
    OBVIOUS
  <2>6. Complete(entries, 1, first, last, total)
    BY <2>2, <2>3, <2>4, <2>5 DEF Complete
  <2> QED
    BY <2>6 DEF entries
<1>2. CASE obligation.method # "point_in_time"
  <2> DEFINE n == last - first + 1
             r == Recognized(total, n)
  <2>1. n \in Nat \ {0}
    OBVIOUS
  <2>2. entries = [i \in 1..n |-> [period |-> first + i - 1, recognized |-> r[i],
                                   deferred |-> total - SumOf([j \in 1..i |-> r[j]])]]
    BY <1>2 DEF Schedule
  <2>3. \A i \in 1..n : first + i - 1 <= last
    OBVIOUS
  <2>4. r \in [1..n -> Int] /\ SumOf(r) = total
    <3> HIDE DEF n
    <3> QED
      BY <2>1, RecognizedIsAll
  <2> HIDE DEF n, r, entries
  <2>5. IsFiniteSet(1..n)
    BY <2>1, FS_Interval
  <2>6. \A i \in 1..n : /\ SumOf(Part(r, 1..i)) \in Int /\ SumOf(Part(r, (i + 1)..n)) \in Int
                        /\ total = SumOf(Part(r, 1..i)) + SumOf(Part(r, (i + 1)..n))
    <3> SUFFICES ASSUME NEW i \in 1..n
                 PROVE  /\ SumOf(Part(r, 1..i)) \in Int /\ SumOf(Part(r, (i + 1)..n)) \in Int
                        /\ total = SumOf(Part(r, 1..i)) + SumOf(Part(r, (i + 1)..n))
      OBVIOUS
    <3> DEFINE A == 1..i
               B == (i + 1)..n
    <3>1. A \in SUBSET (1..n) /\ B \in SUBSET (1..n) /\ (1..n) \ A = B
      BY <2>1
    <3> HIDE DEF A, B
    <3>2. SumOf(r) = SumOf(Part(r, A)) + SumOf(Part(r, (1..n) \ A))
      BY <2>4, <2>5, <3>1, SumSplit
    <3>3. SumOf(Part(r, A)) \in Int /\ SumOf(Part(r, B)) \in Int
      BY <2>4, <2>5, <3>1, PartInt
    <3> QED
      BY <2>4, <3>1, <3>2, <3>3 DEF A, B
  <2>7. \A i \in 1..n : /\ entries[i].period = first + i - 1 /\ entries[i].recognized = r[i]
                        /\ entries[i].deferred = total - SumOf(Part(r, 1..i))
    BY <2>2 DEF Part
  <2>8. DOMAIN entries = 1..n
    BY <2>2
  <2>9. [i \in 1..n |-> entries[i].recognized] = r
    BY <2>4, <2>7
  <2>10. \A i \in 1..n : [j \in (i + 1)..n |-> entries[j].recognized] = Part(r, (i + 1)..n)
    <3> SUFFICES ASSUME NEW i \in 1..n
                 PROVE  [j \in (i + 1)..n |-> entries[j].recognized] = Part(r, (i + 1)..n)
      OBVIOUS
    <3>1. \A j \in (i + 1)..n : entries[j].recognized = r[j]
      BY <2>1, <2>7
    <3> QED
      BY <3>1 DEF Part
  <2>11. \A i \in 1..n : entries[i].deferred = SumOf(Part(r, (i + 1)..n))
    BY <2>6, <2>7
  <2>12. \A i \in 1..n : entries[i].recognized \in Int /\ entries[i].deferred \in Int
    BY <2>4, <2>6, <2>7, <2>11
  <2>13. Complete(entries, n, first, last, total)
    BY <2>3, <2>4, <2>7, <2>8, <2>9, <2>10, <2>11, <2>12 DEF Complete
  <2> QED
    BY <2>1, <2>13 DEF entries
<1> QED
  BY <1>1, <1>2

LEMMA SumOfEntries ==
    ASSUME NEW S, IsFiniteSet(S), NEW b, DOMAIN b = S, b = [x \in S |-> b[x]], \A x, y \in S : b[x] = b[y] => x = y,
           \A x \in S : b[x].amount \in Int
    PROVE  SumEntries({b[x] : x \in S}) = SumOf([x \in S |-> b[x].amount])
<1> DEFINE T == {b[x] : x \in S}
           f == [e \in T |-> e.amount]
           g == [x \in S |-> b[x].amount]
<1>1. f \in [T -> Int] /\ g \in [S -> Int]
  OBVIOUS
<1>2. \A x \in S : g[x] = f[b[x]]
  OBVIOUS
<1>3. SumEntries(T) = SumOf(f)
  BY DEF SumEntries
<1>4. b \in [S -> T] /\ \A y \in T : \E x \in S : y = b[x]
  OBVIOUS
<1> HIDE DEF T, f, g
<1>5. SumOf(g) = SumOf(f)
  <2>1. Renamed(S, T, b, f, g)
    BY <1>1, <1>2, <1>4 DEF Renamed
  <2> QED
    BY <2>1, SumRenamed
<1> QED
  BY <1>3, <1>5 DEF T, g

\* A row with its entries, as SharesOut asks of it.
RowIsRight(row, total, first, last) ==
    LET recognized == {e \in row.entries : e.type = "recognized"}
    IN  /\ row.total = total
        /\ row.total = SumEntries(recognized)
        /\ \A e \in row.entries :
              /\ e.period \in first..last
              /\ e.type = "deferred" =>
                    e.amount = SumEntries({x \in recognized : x.period > e.period})

\* The rows of a complete schedule.
LEMMA RowsAreRight ==
    ASSUME NEW obligation, NEW entries, NEW n \in Nat \ {0}, NEW first \in Nat,
           NEW last \in Nat, NEW total \in Int, Complete(entries, n, first, last, total)
    PROVE  RowIsRight(Row(obligation, total, entries), total, first, last)
<1> DEFINE row == Row(obligation, total, entries)
           b == [i \in 1..n |-> Entry(entries[i].period, "recognized", entries[i].recognized)]
           all == {b[i] : i \in 1..n}
           late == {i \in 1..n : entries[i].deferred > 0}
           others == {Entry(entries[i].period, "deferred", entries[i].deferred) : i \in late}
           recognized == {e \in row.entries : e.type = "recognized"}
<1>1. /\ DOMAIN entries = 1..n
      /\ \A i \in 1..n : /\ entries[i].period = first + i - 1 /\ first + i - 1 <= last
                         /\ entries[i].recognized \in Int
      /\ SumOf([i \in 1..n |-> entries[i].recognized]) = total
      /\ \A i \in 1..n :
            entries[i].deferred = SumOf([j \in (i + 1)..n |-> entries[j].recognized])
  BY DEF Complete
<1>2. /\ row.total = total
      /\ row.entries = {Entry(entries[i].period, "recognized", entries[i].recognized) : i \in 1..n}
                       \union others
  BY <1>1 DEF Row
<1>3. {Entry(entries[i].period, "recognized", entries[i].recognized) : i \in 1..n} = all
  OBVIOUS
<1>4. \A i \in 1..n : /\ b[i].type = "recognized" /\ b[i].amount = entries[i].recognized
                      /\ b[i].period = first + i - 1
  BY <1>1 DEF Entry
<1>5. \A e \in others : e.type = "deferred"
                        /\ \E i \in 1..n : e.period = first + i - 1
                                           /\ e.amount = entries[i].deferred
  BY <1>1 DEF Entry
<1> HIDE DEF b, others, row
<1>6. recognized = all
  <2>1. \A e \in all : e.type = "recognized"
    BY <1>4
  <2> QED
    BY <1>2, <1>3, <1>5, <2>1
<1>7. \A i, j \in 1..n : b[i] = b[j] => i = j
  <2> SUFFICES ASSUME NEW i \in 1..n, NEW j \in 1..n, b[i] = b[j] PROVE i = j
    OBVIOUS
  <2>1. first + i - 1 = first + j - 1
    BY <1>4
  <2> QED
    BY <2>1
<1>8. ASSUME NEW T \in SUBSET (1..n)
      PROVE  SumEntries({b[i] : i \in T}) = SumOf([i \in T |-> entries[i].recognized])
  <2> DEFINE c == [i \in T |-> b[i]]
  <2>1. IsFiniteSet(T)
    <3>1. IsFiniteSet(1..n)
      BY FS_Interval
    <3> QED
      BY <3>1, FS_Subset
  <2>2. DOMAIN c = T /\ c = [i \in T |-> c[i]]
    OBVIOUS
  <2>3. \A i, j \in T : c[i] = c[j] => i = j
    BY <1>7
  <2>4. \A i \in T : c[i].amount = entries[i].recognized /\ c[i].amount \in Int
    BY <1>1, <1>4
  <2>5. {b[i] : i \in T} = {c[i] : i \in T}
    OBVIOUS
  <2> HIDE DEF c
  <2>6. SumEntries({c[i] : i \in T}) = SumOf([i \in T |-> c[i].amount])
    BY <2>1, <2>2, <2>3, <2>4, SumOfEntries
  <2>7. [i \in T |-> c[i].amount] = [i \in T |-> entries[i].recognized]
    BY <2>4
  <2> QED
    BY <2>5, <2>6, <2>7
<1>9. total = SumEntries(recognized)
  <2>1. SumEntries(all) = SumOf([i \in 1..n |-> entries[i].recognized])
    <3>1. 1..n \in SUBSET (1..n)
      OBVIOUS
    <3> QED
      BY <1>8, <3>1
  <2> QED
    BY <1>1, <1>6, <2>1
<1>10. \A i \in 1..n : {x \in all : x.period > first + i - 1} = {b[j] : j \in (i + 1)..n}
  <2> SUFFICES ASSUME NEW i \in 1..n
               PROVE  {x \in all : x.period > first + i - 1} = {b[j] : j \in (i + 1)..n}
    OBVIOUS
  <2>1. \A j \in 1..n : first + j - 1 > first + i - 1 <=> j \in (i + 1)..n
    OBVIOUS
  <2>2. \A j \in (i + 1)..n : j \in 1..n
    OBVIOUS
  <2> QED
    BY <1>4, <2>1, <2>2
<1>11. \A i \in 1..n : entries[i].deferred = SumEntries({x \in all : x.period > first + i - 1})
  <2> SUFFICES ASSUME NEW i \in 1..n
               PROVE  entries[i].deferred = SumEntries({x \in all : x.period > first + i - 1})
    OBVIOUS
  <2>1. (i + 1)..n \in SUBSET (1..n)
    OBVIOUS
  <2>2. SumEntries({b[j] : j \in (i + 1)..n}) = SumOf([j \in (i + 1)..n |-> entries[j].recognized])
    BY <1>8, <2>1
  <2>3. entries[i].deferred = SumOf([j \in (i + 1)..n |-> entries[j].recognized])
    BY <1>1
  <2> QED
    BY <1>10, <2>2, <2>3
<1>12. ASSUME NEW e \in row.entries
       PROVE  /\ e.period \in first..last
              /\ e.type = "deferred" =>
                     e.amount = SumEntries({x \in recognized : x.period > e.period})
  <2>1. CASE e \in all
    <3>1. PICK i \in 1..n : e = b[i]
      BY <2>1
    <3>2. e.type = "recognized" /\ e.period = first + i - 1 /\ first + i - 1 <= last
      BY <1>1, <1>4, <3>1
    <3>3. first + i - 1 \in first..last
      BY <3>2
    <3>4. e.type # "deferred"
      BY <3>2
    <3> QED
      BY <3>2, <3>3, <3>4
  <2>2. CASE e \in others
    <3>1. PICK i \in 1..n : e.period = first + i - 1 /\ e.amount = entries[i].deferred
      BY <1>5, <2>2
    <3>2. first + i - 1 \in first..last
      BY <1>1
    <3>3. e.amount = SumEntries({x \in all : x.period > e.period})
      BY <1>11, <3>1
    <3> QED
      BY <1>6, <3>1, <3>2, <3>3
  <2> QED
    BY <1>2, <1>3, <2>1, <2>2
<1> HIDE DEF all, recognized
<1>13. /\ row.total = total
       /\ total = SumEntries(recognized)
       /\ \A e \in row.entries :
                     /\ e.period \in first..last
                     /\ e.type = "deferred" =>
                           e.amount = SumEntries({x \in recognized : x.period > e.period})
  BY <1>2, <1>9, <1>12
<1> QED
  BY <1>13 DEF RowIsRight, row, recognized

LEMMA GenerationsShareOut ==
    ASSUME NEW s \in Subs, Rules[s] # <<>>, NEW p \in 0..MaxPeriod, NEW g,
           g.sub = s, g.period = p, g.rows = Generated(s, p)
    PROVE  SharesOut(g) /\ IsFiniteSet(DOMAIN g.rows)
<1> DEFINE o == Obligations(Rules[s])
           n == Len(Rules[s])
           a == Allocate(TotalPrice(o), o)
           first == Months(p).first
           last == Months(p).last
           e(i) == Schedule(o[i], a[i], first, last)
           total == TotalPrice(o)
<1>1. /\ n \in Nat \ {0} /\ DOMAIN o = 1..n /\ Len(o) = n
      /\ \A i \in 1..n : o[i].price \in Nat
      /\ total \in Nat
  BY ObligationsAre
<1>2. first = p /\ first \in Nat /\ last \in Nat /\ first <= last
  BY MonthsAssumption, BoundAssumption DEF Months
<1>3. g.rows = [i \in DOMAIN o |-> Row(o[i], a[i], e(i))]
  BY DEF Generated
<1> HIDE DEF o, n, first, last
<1>4. a \in [1..n -> Int] /\ SumOf(a) = total
  <2> HIDE DEF total
  <2>1. total \in Int /\ TotalPrice(o) \in Nat
    BY <1>1 DEF total
  <2> QED
    BY <1>1, <2>1, AllocateSharesOut DEF total
<1> HIDE DEF a, total
<1>5. IsFiniteSet(1..n)
  BY <1>1, FS_Interval
<1>6. DOMAIN g.rows = 1..n /\ Len(g.rows) = n
  BY <1>1, <1>3
<1>7. ASSUME NEW i \in 1..n
      PROVE  RowIsRight(g.rows[i], a[i], first, last)
  <2>1. a[i] \in Int /\ g.rows[i] = Row(o[i], a[i], e(i))
    BY <1>1, <1>3, <1>4
  <2>2. PICK m \in Nat \ {0} : Complete(e(i), m, first, last, a[i])
    BY <1>2, <2>1, SchedulesAreComplete
  <2>3. PICK entries, total1, obligation :
             entries = e(i) /\ total1 = a[i] /\ obligation = o[i]
    OBVIOUS
  <2> HIDE DEF e
  <2>4. g.rows[i] = Row(obligation, total1, entries)
    BY <2>1, <2>3
  <2>5. total1 \in Int /\ Complete(entries, m, first, last, total1)
    BY <2>1, <2>2, <2>3
  <2> QED
    BY <1>2, <2>3, <2>4, <2>5, RowsAreRight
<1>8. SumOf([i \in DOMAIN g.rows |-> g.rows[i].total]) = total
  <2>1. [i \in DOMAIN g.rows |-> g.rows[i].total] = a
    BY <1>4, <1>6, <1>7 DEF RowIsRight
  <2> QED
    BY <1>4, <2>1
<1>9. Months(g.period).first = first /\ Months(g.period).last = last /\ Obligations(Rules[g.sub]) = o
  BY DEF first, last, o
<1>10. TotalPrice(o) = total
  BY DEF total
<1>11. SharesOut(g)
  <2>1. \A i \in DOMAIN g.rows :
           RowIsRight(g.rows[i], a[i], Months(g.period).first, Months(g.period).last)
    BY <1>6, <1>7, <1>9
  <2>2. \A i \in DOMAIN g.rows :
           LET row == g.rows[i]
               recognized == {e1 \in row.entries : e1.type = "recognized"}
           IN  /\ row.total = SumEntries(recognized)
               /\ \A e1 \in row.entries :
                     /\ e1.period \in Months(g.period).first..Months(g.period).last
                     /\ e1.type = "deferred" =>
                           e1.amount = SumEntries({x \in recognized : x.period > e1.period})
    BY <2>1 DEF RowIsRight
  <2>3. Len(g.rows) = Len(Obligations(Rules[g.sub]))
    BY <1>1, <1>6, <1>9
  <2>4. SumOf([i \in DOMAIN g.rows |-> g.rows[i].total]) = TotalPrice(Obligations(Rules[g.sub]))
    BY <1>8, <1>9, <1>10
  <2> QED
    BY <2>2, <2>3, <2>4 DEF SharesOut
<1> QED
  BY <1>5, <1>6, <1>11

-----------------------------------------------------------------------------
(* The inductive invariant: every set of rows is what the endpoint writes    *)
(* for its subscription and period.  The worker writes none.                 *)

SchedulesAreRight ==
    \A g \in schedules : /\ g.sub \in Subs /\ Rules[g.sub] # <<>>
                         /\ g.period \in 0..MaxPeriod
                         /\ g.rows = Generated(g.sub, g.period)

Call ==
    [at : {"idle"}]
    \union [at : {"refused", "commit", "ended"}, sub : Subs, period : 0..MaxPeriod]

CallsAreRight ==
    /\ call \in [Requests -> Call]
    /\ \A r \in Requests :
          call[r].at = "commit" => /\ call[r].sub \in Subs /\ Rules[call[r].sub] # <<>>
                                   /\ call[r].period \in 0..MaxPeriod

IInv == SchedulesAreRight /\ CallsAreRight

USE RulesAssumption, MonthsAssumption, BoundAssumption

LEMMA InitIInv == Init => IInv
BY DEF Init, IInv, SchedulesAreRight, CallsAreRight, Call

LEMMA Untouched == IInv /\ UNCHANGED <<schedules, call>> => IInv'
BY DEF IInv, SchedulesAreRight, CallsAreRight

LEMMA SelectSubscriptionKeeps ==
    ASSUME IInv, NEW r \in Requests, NEW s \in Subs, SelectSubscription(r, s)
    PROVE  IInv'
<1>0. PICK p \in 0..MaxPeriod : call' = [call EXCEPT ![r] =
              [at |-> IF Rules[s] = <<>> THEN "refused" ELSE "commit", sub |-> s, period |-> p]]
  BY DEF SelectSubscription
<1> DEFINE new == [at |-> IF Rules[s] = <<>> THEN "refused" ELSE "commit", sub |-> s,
                   period |-> p]
<1>1. /\ new \in Call
      /\ new.at = "commit" => new.sub \in Subs /\ Rules[new.sub] # <<>> /\ new.period \in 0..MaxPeriod
  BY DEF IInv, Call
<1>2. call' = [call EXCEPT ![r] = new]
  BY <1>0
<1> HIDE DEF new
<1>3. CallsAreRight'
  BY <1>1, <1>2 DEF IInv, CallsAreRight
<1> QED
  BY <1>3 DEF IInv, SelectSubscription, SchedulesAreRight

LEMMA Ending ==
    ASSUME CallsAreRight, NEW r \in Requests, call[r].at = "commit",
           call' = [call EXCEPT ![r].at = "ended"]
    PROVE  CallsAreRight'
<1> DEFINE new == [call[r] EXCEPT !.at = "ended"]
<1>1. call[r] \in Call
  BY DEF CallsAreRight
<1>2. new \in Call /\ new.at = "ended"
  BY <1>1 DEF Call
<1>3. call' = [call EXCEPT ![r] = new]
  OBVIOUS
<1> HIDE DEF new
<1> QED
  BY <1>2, <1>3 DEF CallsAreRight

LEMMA CommitKeeps == ASSUME IInv, NEW r \in Requests, Commit(r) PROVE IInv'
<1> DEFINE g == [by |-> r, sub |-> call[r].sub, period |-> call[r].period,
                 rows |-> Generated(call[r].sub, call[r].period)]
<1>1. /\ g.sub = call[r].sub /\ g.period = call[r].period
      /\ g.rows = Generated(call[r].sub, call[r].period)
      /\ schedules' = schedules \union {g}
  BY DEF Commit
<1>2. /\ call[r].sub \in Subs /\ Rules[call[r].sub] # <<>>
      /\ call[r].period \in 0..MaxPeriod
  BY DEF Commit, IInv, CallsAreRight
<1> HIDE DEF g
<1>3. SchedulesAreRight'
  <2>1. g.sub \in Subs /\ Rules[g.sub] # <<>> /\ g.period \in 0..MaxPeriod
        /\ g.rows = Generated(g.sub, g.period)
    BY <1>1, <1>2
  <2> QED
    BY <1>1, <2>1 DEF IInv, SchedulesAreRight
<1>4. CallsAreRight'
  BY Ending DEF IInv, Commit
<1> QED
  BY <1>3, <1>4 DEF IInv

LEMMA RollbackKeeps == ASSUME IInv, NEW r \in Requests, Rollback(r) PROVE IInv'
<1>1. CallsAreRight'
  BY Ending DEF IInv, Rollback
<1> QED
  BY <1>1 DEF IInv, Rollback, SchedulesAreRight

LEMMA StepKeepsIInv == IInv /\ [Next]_vars => IInv'
<1> SUFFICES ASSUME IInv, [Next]_vars PROVE IInv'
  OBVIOUS
<1>1. CASE \E r \in Requests : \E s \in Subs : SelectSubscription(r, s)
  BY <1>1, SelectSubscriptionKeeps
<1>2. CASE \E r \in Requests : Commit(r)
  BY <1>2, CommitKeeps
<1>3. CASE \E r \in Requests : Rollback(r)
  BY <1>3, RollbackKeeps
<1>4. CASE \E m \in Messages, s \in Subs \union Malformed : Push(m, s)
  BY <1>4, Untouched DEF Push
<1>5. CASE WorkerStep
  BY <1>5, Untouched DEF WorkerStep, Take, LoadSubscription, IdentifyObligations, Worker
<1>6. CASE RunFails \/ WorkerEnds \/ WorkerStarts
  BY <1>6, Untouched DEF RunFails, WorkerEnds, WorkerStarts, Worker
<1>7. CASE UNCHANGED vars
  BY <1>7, Untouched DEF vars
<1> QED
  BY <1>1, <1>2, <1>3, <1>4, <1>5, <1>6, <1>7 DEF Next

\* The invariant holds of every run of the endpoint and the worker.
THEOREM SpecKeepsIInv == Spec => []IInv
BY InitIInv, StepKeepsIInv, PTL DEF Spec

\* Whatever the rules, the periods and their lengths are: each generation of
\* generate_schedule_endpoint shares out the price of the plan, and each schedule
\* recognises its share within the months of the period and defers what later months
\* recognise.
THEOREM PricesAreRecognised == Spec => []PriceIsRecognised
<1>1. IInv => PriceIsRecognised
  BY GenerationsShareOut DEF IInv, SchedulesAreRight, PriceIsRecognised
<1> QED
  BY <1>1, SpecKeepsIInv, PTL
=============================================================================
