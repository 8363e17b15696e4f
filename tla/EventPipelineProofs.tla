------------------------ MODULE EventPipelineProofs ------------------------
(***************************************************************************)
(* The event pipeline for any number of calls, keys and payloads.          *)
(*                                                                         *)
(* Two facts carry the proof: a payload is in one place of the pipe at a   *)
(* time (InOnePlace), and what a call has pushed says how far the call is  *)
(* (CallsInOrder): before its commit it holds its key, after it the key is *)
(* persisted, and a call that is lost leaves an orphan.                    *)
(***************************************************************************)
EXTENDS EventPipeline, TLAPS

StoredCalls == {e.call : e \in stored}

InOnePlace ==
    /\ IsInjective(queue) /\ IsInjective(batch) /\ IsInjective(flushing)
    /\ ToSet(queue) \intersect ToSet(batch) = {}
    /\ ToSet(queue) \intersect ToSet(flushing) = {}
    /\ ToSet(batch) \intersect ToSet(flushing) = {}
    /\ (ToSet(queue) \union ToSet(batch) \union ToSet(flushing)) \intersect dropped = {}
    /\ (ToSet(queue) \union ToSet(batch) \union ToSet(flushing) \union dropped)
          \intersect StoredCalls = {}

\* write_to_clickhouse gives every row the default.
StoredPending == \A e \in stored : e.outcome_status = "pending"

CallsInOrder ==
    \A c \in Calls :
        /\ pc[c] \in {"push", "commit"} => holder[KeyOf[c]] = c /\ ~ Persisted(KeyOf[c])
        /\ c \in Pushed =>
              /\ pc[c] \in {"commit", "done", "lost"}
              /\ pc[c] = "done" => Persisted(KeyOf[c])
              /\ pc[c] = "lost" => c \in orphans

\* Of two payloads with one key, one is an orphan, wherever they are.
OnePerKey ==
    \A c, d \in Pushed : c # d /\ KeyOf[c] = KeyOf[d] => {c, d} \intersect orphans # {}

IInv ==
    /\ TypeOK
    /\ InOnePlace
    /\ StoredPending
    /\ CallsInOrder
    /\ OnePerKey

-----------------------------------------------------------------------------
(* Sequences without duplicates, and what is in them. *)

LEMMA EmptyProperties == ToSet(<<>>) = {} /\ IsInjective(<<>>)
BY DEF ToSet, IsInjective

LEMMA AppendOne ==
    ASSUME NEW S, NEW s \in Seq(S), NEW x \in S
    PROVE  /\ Append(s, x) \in Seq(S)
           /\ Len(Append(s, x)) = Len(s) + 1
           /\ ToSet(Append(s, x)) = ToSet(s) \union {x}
           /\ IsInjective(s) /\ x \notin ToSet(s) => IsInjective(Append(s, x))
<1>1. /\ DOMAIN s = 1..Len(s) /\ DOMAIN Append(s, x) = 1..(Len(s) + 1)
      /\ Len(s) \in Nat
      /\ Append(s, x)[Len(s) + 1] = x
      /\ \A i \in 1..Len(s) : Append(s, x)[i] = s[i]
  OBVIOUS
<1>2. ToSet(Append(s, x)) = ToSet(s) \union {x}
  BY <1>1 DEF ToSet
<1>3. ASSUME IsInjective(s), x \notin ToSet(s) PROVE IsInjective(Append(s, x))
  BY <1>1, <1>3 DEF IsInjective, ToSet
<1> QED
  BY <1>2, <1>3

LEMMA TakeOne ==
    ASSUME NEW S, NEW s \in Seq(S), s # <<>>
    PROVE  /\ Head(s) \in S /\ Tail(s) \in Seq(S)
           /\ ToSet(s) = ToSet(Tail(s)) \union {Head(s)}
           /\ IsInjective(s) => IsInjective(Tail(s)) /\ Head(s) \notin ToSet(Tail(s))
<1>1. /\ DOMAIN s = 1..Len(s) /\ DOMAIN Tail(s) = 1..(Len(s) - 1)
      /\ Len(s) \in Nat \ {0}
      /\ Head(s) = s[1]
      /\ \A i \in 1..(Len(s) - 1) : Tail(s)[i] = s[i + 1]
  OBVIOUS
<1>2. ToSet(s) = ToSet(Tail(s)) \union {Head(s)}
  <2>1. \A i \in DOMAIN s : i = 1 \/ (i - 1 \in DOMAIN Tail(s) /\ Tail(s)[i - 1] = s[i])
    BY <1>1
  <2>2. \A i \in DOMAIN Tail(s) : i + 1 \in DOMAIN s /\ Tail(s)[i] = s[i + 1]
    BY <1>1
  <2>3. ToSet(s) \subseteq ToSet(Tail(s)) \union {Head(s)}
    BY <1>1, <2>1 DEF ToSet
  <2>4. ToSet(Tail(s)) \union {Head(s)} \subseteq ToSet(s)
    <3>1. 1 \in DOMAIN s
      BY <1>1
    <3> QED
      BY <1>1, <2>2, <3>1 DEF ToSet
  <2> QED
    BY <2>3, <2>4
<1>3. ASSUME IsInjective(s) PROVE IsInjective(Tail(s)) /\ Head(s) \notin ToSet(Tail(s))
  BY <1>1, <1>3 DEF IsInjective, ToSet
<1> QED
  BY <1>2, <1>3

LEMMA JoinTwo ==
    ASSUME NEW S, NEW s \in Seq(S), NEW t \in Seq(S)
    PROVE  /\ s \o t \in Seq(S)
           /\ ToSet(s \o t) = ToSet(s) \union ToSet(t)
           /\ IsInjective(s) /\ IsInjective(t) /\ ToSet(s) \intersect ToSet(t) = {}
                 => IsInjective(s \o t)
<1>1. /\ DOMAIN s = 1..Len(s) /\ DOMAIN t = 1..Len(t) /\ DOMAIN (s \o t) = 1..(Len(s) + Len(t))
      /\ Len(s) \in Nat /\ Len(t) \in Nat
      /\ \A i \in 1..Len(s) : (s \o t)[i] = s[i]
      /\ \A i \in 1..Len(t) : (s \o t)[Len(s) + i] = t[i]
      /\ \A i \in 1..(Len(s) + Len(t)) : i \notin 1..Len(s) =>
            i - Len(s) \in 1..Len(t) /\ (s \o t)[i] = t[i - Len(s)]
  OBVIOUS
<1>2. ToSet(s \o t) = ToSet(s) \union ToSet(t)
  <2>1. ToSet(s \o t) \subseteq ToSet(s) \union ToSet(t)
    BY <1>1 DEF ToSet
  <2>2. \A i \in DOMAIN t : Len(s) + i \in DOMAIN (s \o t)
    BY <1>1
  <2>3. \A i \in DOMAIN s : i \in DOMAIN (s \o t)
    BY <1>1
  <2>4. ToSet(s) \union ToSet(t) \subseteq ToSet(s \o t)
    BY <1>1, <2>2, <2>3 DEF ToSet
  <2> QED
    BY <2>1, <2>4
<1>3. ASSUME IsInjective(s), IsInjective(t), ToSet(s) \intersect ToSet(t) = {}
      PROVE  IsInjective(s \o t)
  <2> SUFFICES ASSUME NEW i \in DOMAIN (s \o t), NEW j \in DOMAIN (s \o t),
                      (s \o t)[i] = (s \o t)[j]
               PROVE  i = j
    BY DEF IsInjective
  <2>1. CASE i \in DOMAIN s /\ j \in DOMAIN s
    BY <1>1, <1>3, <2>1 DEF IsInjective
  <2>2. CASE i \notin DOMAIN s /\ j \notin DOMAIN s
    BY <1>1, <1>3, <2>2 DEF IsInjective
  <2>3. CASE i \in DOMAIN s /\ j \notin DOMAIN s
    <3>1. s[i] \in ToSet(s) /\ t[j - Len(s)] \in ToSet(t)
      BY <1>1, <2>3 DEF ToSet
    <3>2. s[i] = t[j - Len(s)]
      BY <1>1, <2>3
    <3> QED
      BY <1>3, <3>1, <3>2
  <2>4. CASE i \notin DOMAIN s /\ j \in DOMAIN s
    <3>1. s[j] \in ToSet(s) /\ t[i - Len(s)] \in ToSet(t)
      BY <1>1, <2>4 DEF ToSet
    <3>2. s[j] = t[i - Len(s)]
      BY <1>1, <2>4
    <3> QED
      BY <1>3, <3>1, <3>2
  <2> QED
    BY <2>1, <2>2, <2>3, <2>4
<1> QED
  BY <1>2, <1>3

-----------------------------------------------------------------------------
(* What the steps of the worker and of Redis do: they move payloads.  Each    *)
(* lemma shows that nothing is copied and that nothing pushed is forgotten.   *)

LEMMA PushedPlaces ==
    Pushed = ToSet(queue) \union ToSet(batch) \union ToSet(flushing) \union dropped
                \union StoredCalls
BY DEF Pushed, StoredCalls

LEMMA InitIInv == Init => IInv
<1> SUFFICES ASSUME Init PROVE IInv
  OBVIOUS
<1> USE EmptyProperties DEF Init
<1>1. TypeOK
  BY BatchSizeAssumption DEF TypeOK, Labels
<1>2. StoredCalls = {} /\ Pushed = {}
  BY DEF StoredCalls, Pushed
<1>3. InOnePlace
  BY <1>2 DEF InOnePlace
<1>4. StoredPending
  BY DEF StoredPending
<1>5. CallsInOrder
  BY <1>2 DEF CallsInOrder
<1>6. OnePerKey
  BY <1>2 DEF OnePerKey
<1> QED
  BY <1>1, <1>3, <1>4, <1>5, <1>6 DEF IInv

\* A step that leaves the calls alone and only moves payloads.
PipeInv == TypeOK /\ InOnePlace /\ StoredPending

MovesOnly ==
    /\ PipeInv'
    /\ Pushed' = Pushed
    /\ UNCHANGED <<status, api, orphans>>

LEMMA PopMoves == PipeInv /\ Pop => MovesOnly
<1> SUFFICES ASSUME PipeInv, Pop PROVE MovesOnly
  OBVIOUS
<1> USE DEF PipeInv
<1>1. /\ queue \in Seq(Calls) /\ batch \in Seq(Calls) /\ queue # <<>>
      /\ Len(batch) < BatchSize /\ Len(batch) \in Nat
  BY DEF Pop, TypeOK
<1> DEFINE c == Head(queue)
<1>2. /\ c \in Calls /\ queue' \in Seq(Calls)
      /\ ToSet(queue) = ToSet(queue') \union {c}
      /\ IsInjective(queue) => IsInjective(queue') /\ c \notin ToSet(queue')
  BY <1>1, TakeOne DEF Pop
<1>3. c \notin ToSet(batch)
  BY <1>2 DEF InOnePlace
<1>4. /\ batch' = Append(batch, c)
      /\ UNCHANGED <<status, holder, pc, worker, flushing, stored, dropped, orphans>>
  BY DEF Pop, api
<1> HIDE DEF c
<1>5. /\ batch' \in Seq(Calls) /\ Len(batch') = Len(batch) + 1
      /\ ToSet(batch') = ToSet(batch) \union {c}
      /\ IsInjective(batch) => IsInjective(batch')
  BY <1>1, <1>2, <1>3, <1>4, AppendOne
<1>6. Len(batch') <= BatchSize
  BY <1>1, <1>5, BatchSizeAssumption
<1>7. TypeOK'
  BY <1>2, <1>4, <1>5, <1>6 DEF TypeOK
<1>8. StoredCalls' = StoredCalls
  BY <1>4 DEF StoredCalls
<1>9. InOnePlace'
  BY <1>2, <1>4, <1>5, <1>8 DEF InOnePlace
<1>10. StoredPending'
  BY <1>4 DEF StoredPending
<1>11. Pushed' = Pushed
  BY <1>2, <1>4, <1>5 DEF Pushed
<1> QED
  BY <1>4, <1>7, <1>9, <1>10, <1>11 DEF MovesOnly, api

LEMMA PopFailsMoves == PipeInv /\ PopFails => MovesOnly
<1> SUFFICES ASSUME PipeInv, PopFails PROVE MovesOnly
  OBVIOUS
<1> USE DEF PipeInv
<1> DEFINE c == Head(queue)
<1>1. queue \in Seq(Calls) /\ queue # <<>>
  BY DEF PopFails, TypeOK
<1>2. /\ c \in Calls /\ queue' \in Seq(Calls)
      /\ ToSet(queue) = ToSet(queue') \union {c}
      /\ IsInjective(queue) => IsInjective(queue') /\ c \notin ToSet(queue')
  BY <1>1, TakeOne DEF PopFails
<1>3. ToSet(<<c>>) = {c}
  BY DEF ToSet
<1>4. /\ dropped' = dropped \union {c}
      /\ UNCHANGED <<status, holder, pc, worker, batch, flushing, stored, orphans>>
  BY <1>3 DEF PopFails, Dropped, api
<1> HIDE DEF c
<1>5. TypeOK'
  BY <1>2, <1>4 DEF TypeOK
<1>6. StoredCalls' = StoredCalls
  BY <1>4 DEF StoredCalls
<1>7. InOnePlace'
  BY <1>2, <1>4, <1>6 DEF InOnePlace
<1>8. StoredPending'
  BY <1>4 DEF StoredPending
<1>9. Pushed' = Pushed
  BY <1>2, <1>4 DEF Pushed
<1> QED
  BY <1>4, <1>5, <1>7, <1>8, <1>9 DEF MovesOnly, api

LEMMA StartFlushMoves == PipeInv /\ StartFlush => MovesOnly
<1> SUFFICES ASSUME PipeInv, StartFlush PROVE MovesOnly
  OBVIOUS
<1> USE DEF PipeInv
<1>1. /\ flushing = <<>> /\ flushing' = batch /\ batch' = <<>>
      /\ UNCHANGED <<status, holder, pc, queue, worker, stored, dropped, orphans>>
  BY DEF StartFlush, api
<1>2. TypeOK'
  BY <1>1, BatchSizeAssumption DEF TypeOK
<1>3. StoredCalls' = StoredCalls
  BY <1>1 DEF StoredCalls
<1>4. InOnePlace'
  BY <1>1, <1>3, EmptyProperties DEF InOnePlace
<1>5. StoredPending'
  BY <1>1 DEF StoredPending
<1>6. Pushed' = Pushed
  BY <1>1, EmptyProperties DEF Pushed
<1> QED
  BY <1>1, <1>2, <1>4, <1>5, <1>6 DEF MovesOnly, api

LEMMA FlushWrittenMoves == PipeInv /\ FlushWritten => MovesOnly
<1> SUFFICES ASSUME PipeInv, FlushWritten PROVE MovesOnly
  OBVIOUS
<1> USE DEF PipeInv
<1>1. /\ stored' = stored \union Rows(flushing) /\ flushing' = <<>>
      /\ UNCHANGED <<status, holder, pc, queue, worker, batch, dropped, orphans>>
  BY DEF FlushWritten, api
<1>2. ToSet(flushing) \subseteq Calls
  BY DEF TypeOK, ToSet
<1>3. \A e \in Rows(flushing) :
          /\ e \in [call : Calls, outcome_status : {"pending", "validated", "rejected"}]
          /\ e.outcome_status = "pending"
  BY <1>2 DEF Rows
<1>4. TypeOK'
  BY <1>1, <1>3 DEF TypeOK
<1>5. StoredCalls' = StoredCalls \union ToSet(flushing)
  <2>1. {e.call : e \in Rows(flushing)} = ToSet(flushing)
    <3>1. \A c \in ToSet(flushing) : \E e \in Rows(flushing) : e.call = c
      <4> SUFFICES ASSUME NEW c \in ToSet(flushing)
                   PROVE  \E e \in Rows(flushing) : e.call = c
        OBVIOUS
      <4>1. [call |-> c, outcome_status |-> "pending"] \in Rows(flushing)
        BY DEF Rows
      <4> QED
        BY <4>1
    <3>2. \A e \in Rows(flushing) : e.call \in ToSet(flushing)
      BY DEF Rows
    <3> QED
      BY <3>1, <3>2
  <2> QED
    BY <1>1, <2>1 DEF StoredCalls
<1>6. InOnePlace'
  BY <1>1, <1>5, EmptyProperties DEF InOnePlace
<1>7. StoredPending'
  BY <1>1, <1>3 DEF StoredPending
<1>8. Pushed' = Pushed
  BY <1>1, <1>5, EmptyProperties DEF Pushed, StoredCalls
<1> QED
  BY <1>1, <1>4, <1>6, <1>7, <1>8 DEF MovesOnly, api

LEMMA FlushFailsMoves == PipeInv /\ FlushFails => MovesOnly
<1> SUFFICES ASSUME PipeInv, FlushFails PROVE MovesOnly
  OBVIOUS
<1> USE DEF PipeInv
<1>1. /\ dropped' = dropped \union ToSet(flushing) /\ flushing' = <<>>
      /\ UNCHANGED <<status, holder, pc, queue, worker, batch, stored, orphans>>
  BY DEF FlushFails, Dropped, api
<1>2. ToSet(flushing) \subseteq Calls
  BY DEF TypeOK, ToSet
<1>3. TypeOK'
  BY <1>1, <1>2 DEF TypeOK
<1>4. StoredCalls' = StoredCalls
  BY <1>1 DEF StoredCalls
<1>5. InOnePlace'
  BY <1>1, <1>4, EmptyProperties DEF InOnePlace
<1>6. StoredPending'
  BY <1>1 DEF StoredPending
<1>7. Pushed' = Pushed
  BY <1>1, EmptyProperties DEF Pushed
<1> QED
  BY <1>1, <1>3, <1>5, <1>6, <1>7 DEF MovesOnly, api

LEMMA EvictMoves == PipeInv /\ Evict => MovesOnly
<1> SUFFICES ASSUME PipeInv, Evict PROVE MovesOnly
  OBVIOUS
<1> USE DEF PipeInv
<1>1. /\ dropped' = dropped \union ToSet(queue) /\ queue' = <<>>
      /\ UNCHANGED <<status, holder, pc, flushing, worker, batch, stored, orphans>>
  BY DEF Evict, Dropped, api
<1>2. ToSet(queue) \subseteq Calls
  BY DEF TypeOK, ToSet
<1>3. TypeOK'
  BY <1>1, <1>2 DEF TypeOK
<1>4. StoredCalls' = StoredCalls
  BY <1>1 DEF StoredCalls
<1>5. InOnePlace'
  BY <1>1, <1>4, EmptyProperties DEF InOnePlace
<1>6. StoredPending'
  BY <1>1 DEF StoredPending
<1>7. Pushed' = Pushed
  BY <1>1, EmptyProperties DEF Pushed
<1> QED
  BY <1>1, <1>3, <1>5, <1>6, <1>7 DEF MovesOnly, api

LEMMA WorkerCrashMoves == PipeInv /\ WorkerCrash => MovesOnly
<1> SUFFICES ASSUME PipeInv, WorkerCrash PROVE MovesOnly
  OBVIOUS
<1> USE DEF PipeInv
<1>1. /\ worker' = "down" /\ batch' = <<>> /\ flushing' = <<>>
      /\ dropped' = dropped \union ToSet(batch \o flushing)
      /\ UNCHANGED <<status, holder, pc, queue, stored, orphans>>
  BY DEF WorkerCrash, Dropped, api
<1>2. dropped' = dropped \union ToSet(batch) \union ToSet(flushing)
  <2>1. batch \in Seq(Calls) /\ flushing \in Seq(Calls)
    BY DEF TypeOK
  <2> QED
    BY <1>1, <2>1, JoinTwo
<1>3. ToSet(batch) \subseteq Calls /\ ToSet(flushing) \subseteq Calls
  BY DEF TypeOK, ToSet
<1>4. TypeOK'
  BY <1>1, <1>2, <1>3, BatchSizeAssumption DEF TypeOK
<1>5. StoredCalls' = StoredCalls
  BY <1>1 DEF StoredCalls
<1>6. InOnePlace'
  BY <1>1, <1>2, <1>5, EmptyProperties DEF InOnePlace
<1>7. StoredPending'
  BY <1>1 DEF StoredPending
<1>8. Pushed' = Pushed
  BY <1>1, <1>2, EmptyProperties DEF Pushed
<1> QED
  BY <1>1, <1>4, <1>6, <1>7, <1>8 DEF MovesOnly, api

LEMMA WorkerStateMoves == PipeInv /\ (SeeShutdown \/ ShutdownComplete \/ WorkerStart) => MovesOnly
<1> SUFFICES ASSUME PipeInv, SeeShutdown \/ ShutdownComplete \/ WorkerStart PROVE MovesOnly
  OBVIOUS
<1>1. /\ worker' \in {"running", "draining", "down"}
      /\ UNCHANGED <<status, holder, pc, queue, batch, flushing, stored, dropped, orphans>>
  BY DEF SeeShutdown, ShutdownComplete, WorkerStart, api
<1>2. PipeInv'
  BY <1>1 DEF PipeInv, TypeOK, InOnePlace, StoredCalls, StoredPending
<1>3. Pushed' = Pushed
  BY <1>1 DEF Pushed
<1> QED
  BY <1>1, <1>2, <1>3 DEF MovesOnly, api

LEMMA WorkerMoves ==
    PipeInv /\ (WorkerStep \/ Evict \/ SeeShutdown \/ WorkerCrash) => MovesOnly
BY PopMoves, PopFailsMoves, StartFlushMoves, FlushWrittenMoves, FlushFailsMoves, EvictMoves, WorkerCrashMoves,
   WorkerStateMoves DEF WorkerStep

LEMMA MovesKeepIInv == IInv /\ MovesOnly => IInv'
<1> SUFFICES ASSUME IInv, MovesOnly PROVE IInv'
  OBVIOUS
<1>1. PipeInv' /\ Pushed' = Pushed /\ UNCHANGED <<status, holder, pc, orphans>>
  BY DEF MovesOnly, api
<1>2. CallsInOrder'
  BY <1>1 DEF IInv, CallsInOrder, Persisted
<1>3. OnePerKey'
  BY <1>1 DEF IInv, OnePerKey
<1> QED
  BY <1>1, <1>2, <1>3 DEF IInv, PipeInv

-----------------------------------------------------------------------------
(* What the calls do.  All but Push leave the pipe alone. *)

LEMMA PipeAlone ==
    ASSUME TypeOK, InOnePlace, StoredPending, UNCHANGED pipe
    PROVE  /\ InOnePlace' /\ StoredPending' /\ Pushed' = Pushed
           /\ {queue', batch', flushing'} \subseteq Seq(Calls) /\ Len(batch') <= BatchSize
           /\ worker' \in {"running", "draining", "down"}
           /\ stored' \subseteq [call : Calls, outcome_status : {"pending", "validated", "rejected"}]
           /\ dropped' \in SUBSET Calls
<1>1. UNCHANGED <<queue, worker, batch, flushing, stored, dropped>>
  BY DEF pipe
<1> QED
  BY <1>1 DEF TypeOK, InOnePlace, StoredCalls, StoredPending, Pushed

\* Steps that change where the call is, and at most take its key.
LEMMA LabelStep ==
    ASSUME IInv, NEW c \in Calls, Post(c) \/ Check(c) \/ Insert(c) \/ InsertConflict(c) \/ PushFails(c)
    PROVE  IInv'
<1> USE KeyOfAssumption, NobodyAssumption DEF Goto
<1>1. UNCHANGED <<status, pipe, orphans>>
  BY DEF Post, Check, Insert, InsertConflict, PushFails
<1>2. pc' \in [Calls -> Labels] /\ holder' \in [Keys -> Calls \union {Nobody}]
  <2>1. pc \in [Calls -> Labels] /\ holder \in [Keys -> Calls \union {Nobody}]
    BY DEF IInv, TypeOK
  <2>2. \E label \in Labels : pc' = [pc EXCEPT ![c] = label]
    BY DEF Labels, Post, Check, Insert, InsertConflict, PushFails
  <2>3. holder' = holder \/ holder' = [holder EXCEPT ![KeyOf[c]] = c]
    BY DEF Post, Check, Insert, InsertConflict, PushFails
  <2> QED
    BY <2>1, <2>2, <2>3
<1>3. /\ InOnePlace' /\ StoredPending' /\ Pushed' = Pushed /\ TypeOK'
  BY <1>1, <1>2, PipeAlone DEF IInv, TypeOK
<1>4. OnePerKey'
  BY <1>1, <1>3 DEF IInv, OnePerKey
<1>5. c \notin Pushed
  BY DEF IInv, CallsInOrder, Post, Check, Insert, InsertConflict, PushFails
<1>6. ASSUME NEW d \in Calls, d \in Pushed
      PROVE  /\ pc'[d] \in {"commit", "done", "lost"}
             /\ pc'[d] = "done" => Persisted(KeyOf[d])'
             /\ pc'[d] = "lost" => d \in orphans'
  <2>1. d # c
    BY <1>5, <1>6
  <2>2. pc'[d] = pc[d]
    BY <2>1 DEF IInv, TypeOK, Post, Check, Insert, InsertConflict, PushFails
  <2> QED
    BY <1>1, <1>6, <2>2 DEF IInv, CallsInOrder, Persisted
<1>7. ASSUME NEW d \in Calls, pc'[d] \in {"push", "commit"}
      PROVE  holder'[KeyOf[d]] = d /\ ~ Persisted(KeyOf[d])'
  <2>0. pc \in [Calls -> Labels] /\ holder \in [Keys -> Calls \union {Nobody}]
        /\ KeyOf[d] \in Keys /\ KeyOf[c] \in Keys
    BY DEF IInv, TypeOK
  <2>1. CASE Insert(c)
    <3>1. CASE d = c
      BY <1>1, <2>0, <2>1, <3>1 DEF Insert, Persisted
    <3>2. CASE d # c
      <4>1. pc[d] \in {"push", "commit"}
        BY <1>7, <2>0, <2>1, <3>2 DEF Insert
      <4>2. holder[KeyOf[d]] = d /\ ~ Persisted(KeyOf[d])
        BY <4>1 DEF IInv, CallsInOrder
      <4>3. KeyOf[d] # KeyOf[c]
        BY <2>1, <4>2 DEF Insert
      <4> QED
        BY <1>1, <2>0, <2>1, <4>2, <4>3 DEF Insert, Persisted
    <3> QED
      BY <3>1, <3>2
  <2>2. CASE Post(c) \/ Check(c) \/ InsertConflict(c) \/ PushFails(c)
    <3>1. holder' = holder
      BY <2>2 DEF Post, Check, InsertConflict, PushFails
    <3>2. pc[d] \in {"push", "commit"}
      BY <1>7, <2>0, <2>2 DEF Post, Check, InsertConflict, PushFails
    <3> QED
      BY <1>1, <3>1, <3>2 DEF IInv, CallsInOrder, Persisted
  <2> QED
    BY <2>1, <2>2
<1>8. CallsInOrder'
  BY <1>3, <1>6, <1>7 DEF CallsInOrder
<1> QED
  BY <1>3, <1>4, <1>8 DEF IInv

LEMMA PushStep == ASSUME IInv, NEW c \in Calls, Push(c) PROVE IInv'
<1> USE KeyOfAssumption
<1>1. /\ pc[c] = "push" /\ queue' = Append(queue, c) /\ pc' = [pc EXCEPT ![c] = "commit"]
      /\ UNCHANGED <<status, holder, worker, batch, flushing, stored, dropped, orphans>>
  BY DEF Push, Goto
<1>2. queue \in Seq(Calls) /\ pc \in [Calls -> Labels]
  BY DEF IInv, TypeOK
<1>3. c \notin Pushed
  BY <1>1 DEF IInv, CallsInOrder
<1>4. /\ queue' \in Seq(Calls) /\ ToSet(queue') = ToSet(queue) \union {c}
      /\ IsInjective(queue) => IsInjective(queue')
  BY <1>1, <1>2, <1>3, AppendOne, PushedPlaces
<1>5. StoredCalls' = StoredCalls
  BY <1>1 DEF StoredCalls
<1>6. Pushed' = Pushed \union {c}
  BY <1>1, <1>4 DEF Pushed
<1>7. TypeOK'
  BY <1>1, <1>2, <1>4 DEF IInv, TypeOK, Labels
<1>8. InOnePlace'
  BY <1>1, <1>3, <1>4, <1>5, PushedPlaces DEF IInv, InOnePlace
<1>9. StoredPending'
  BY <1>1 DEF IInv, StoredPending
<1>10. CallsInOrder'
  <2>1. \A d \in Calls : d # c => pc'[d] = pc[d]
    BY <1>1, <1>2
  <2>2. pc'[c] = "commit"
    BY <1>1, <1>2
  <2>3. \A k : Persisted(k)' = Persisted(k)
    BY <1>1 DEF Persisted
  <2> QED
    BY <1>1, <1>6, <2>1, <2>2, <2>3 DEF IInv, CallsInOrder
<1>11. \A d \in Pushed : KeyOf[d] = KeyOf[c] => d \in orphans
  <2> SUFFICES ASSUME NEW d \in Pushed, KeyOf[d] = KeyOf[c] PROVE d \in orphans
    OBVIOUS
  <2>1. holder[KeyOf[c]] = c /\ ~ Persisted(KeyOf[c])
    BY <1>1 DEF IInv, CallsInOrder
  <2>2. d \in Calls
    BY DEF IInv, TypeOK, Pushed, ToSet
  <2>3. pc[d] # "done"
    BY <2>1, <2>2 DEF IInv, CallsInOrder
  <2>4. pc[d] # "commit"
    BY <1>3, <2>1, <2>2 DEF IInv, CallsInOrder
  <2> QED
    BY <2>2, <2>3, <2>4 DEF IInv, CallsInOrder
<1>12. OnePerKey'
  BY <1>1, <1>6, <1>11 DEF IInv, OnePerKey
<1> QED
  BY <1>7, <1>8, <1>9, <1>10, <1>12 DEF IInv

LEMMA CommitStep == ASSUME IInv, NEW c \in Calls, Commit(c) PROVE IInv'
<1> USE KeyOfAssumption, NobodyAssumption
<1>1. /\ pc[c] = "commit" /\ pc' = [pc EXCEPT ![c] = "done"]
      /\ status' = [status EXCEPT ![KeyOf[c]] = "unset"]
      /\ holder' = [k \in Keys |-> IF holder[k] = c THEN Nobody ELSE holder[k]]
      /\ UNCHANGED <<pipe, orphans>>
  BY DEF Commit, Goto, Release
<1>2. /\ pc \in [Calls -> Labels] /\ holder \in [Keys -> Calls \union {Nobody}]
      /\ status \in [Keys -> {"absent", "unset", "validated", "rejected"}]
  BY DEF IInv, TypeOK
<1>3. /\ pc' \in [Calls -> Labels] /\ holder' \in [Keys -> Calls \union {Nobody}]
      /\ status' \in [Keys -> {"absent", "unset", "validated", "rejected"}]
  BY <1>1, <1>2 DEF Labels
<1>4. InOnePlace' /\ StoredPending' /\ Pushed' = Pushed /\ TypeOK'
  BY <1>1, <1>3, PipeAlone DEF IInv, TypeOK
<1>5. OnePerKey'
  BY <1>1, <1>4 DEF IInv, OnePerKey
<1>6. Persisted(KeyOf[c])' /\ \A k \in Keys : Persisted(k) => Persisted(k)'
  BY <1>1, <1>2 DEF Persisted
<1>7. \A d \in Calls : d # c => pc'[d] = pc[d]
  BY <1>1, <1>2
<1>8. pc'[c] = "done"
  BY <1>1, <1>2
<1>9. ASSUME NEW d \in Calls, pc'[d] \in {"push", "commit"}
      PROVE  holder'[KeyOf[d]] = d /\ ~ Persisted(KeyOf[d])'
  <2>1. d # c /\ pc[d] \in {"push", "commit"}
    BY <1>7, <1>8, <1>9
  <2>2. holder[KeyOf[d]] = d /\ ~ Persisted(KeyOf[d]) /\ holder[KeyOf[c]] = c
    BY <1>1, <2>1 DEF IInv, CallsInOrder
  <2>3. KeyOf[d] # KeyOf[c] /\ KeyOf[d] \in Keys
    BY <2>1, <2>2
  <2> QED
    BY <1>1, <1>2, <2>1, <2>2, <2>3 DEF Persisted
<1>10. ASSUME NEW d \in Calls, d \in Pushed
      PROVE  /\ pc'[d] \in {"commit", "done", "lost"}
             /\ pc'[d] = "done" => Persisted(KeyOf[d])'
             /\ pc'[d] = "lost" => d \in orphans'
  BY <1>1, <1>6, <1>7, <1>8, <1>10 DEF IInv, CallsInOrder
<1>11. CallsInOrder'
  BY <1>4, <1>9, <1>10 DEF CallsInOrder
<1> QED
  BY <1>4, <1>5, <1>11 DEF IInv

LEMMA LoseStep == ASSUME IInv, NEW c \in Calls, Lose(c) PROVE IInv'
<1> USE KeyOfAssumption, NobodyAssumption
<1>1. /\ pc[c] \notin {"idle", "done", "conflict", "lost"} /\ pc' = [pc EXCEPT ![c] = "lost"]
      /\ orphans' = orphans \union ({c} \intersect Pushed)
      /\ holder' = [k \in Keys |-> IF holder[k] = c THEN Nobody ELSE holder[k]]
      /\ UNCHANGED <<status, pipe>>
  BY DEF Lose, Goto, Release, Ended
<1>2. /\ pc \in [Calls -> Labels] /\ holder \in [Keys -> Calls \union {Nobody}]
      /\ orphans \in SUBSET Calls
  BY DEF IInv, TypeOK
<1>3. /\ pc' \in [Calls -> Labels] /\ holder' \in [Keys -> Calls \union {Nobody}]
      /\ orphans' \in SUBSET Calls
  BY <1>1, <1>2 DEF Labels
<1>4. InOnePlace' /\ StoredPending' /\ Pushed' = Pushed /\ TypeOK'
  BY <1>1, <1>3, PipeAlone DEF IInv, TypeOK
<1>5. OnePerKey'
  BY <1>1, <1>4 DEF IInv, OnePerKey
<1>6. \A k : Persisted(k)' = Persisted(k)
  BY <1>1 DEF Persisted
<1>7. \A d \in Calls : d # c => pc'[d] = pc[d]
  BY <1>1, <1>2
<1>8. pc'[c] = "lost"
  BY <1>1, <1>2
<1>9. ASSUME NEW d \in Calls, pc'[d] \in {"push", "commit"}
      PROVE  holder'[KeyOf[d]] = d /\ ~ Persisted(KeyOf[d])'
  <2>1. d # c /\ pc[d] \in {"push", "commit"}
    BY <1>7, <1>8, <1>9
  <2>2. holder[KeyOf[d]] = d /\ ~ Persisted(KeyOf[d])
    BY <2>1 DEF IInv, CallsInOrder
  <2> QED
    BY <1>1, <1>2, <1>6, <2>1, <2>2
<1>10. ASSUME NEW d \in Calls, d \in Pushed
      PROVE  /\ pc'[d] \in {"commit", "done", "lost"}
             /\ pc'[d] = "done" => Persisted(KeyOf[d])'
             /\ pc'[d] = "lost" => d \in orphans'
  BY <1>1, <1>6, <1>7, <1>8, <1>10 DEF IInv, CallsInOrder
<1>11. CallsInOrder'
  BY <1>4, <1>9, <1>10 DEF CallsInOrder
<1> QED
  BY <1>4, <1>5, <1>11 DEF IInv

LEMMA ValidateStep == ASSUME IInv, NEW k \in Keys, ValidateOutcome(k) PROVE IInv'
<1>1. /\ Persisted(k)
      /\ \E verdict \in {"validated", "rejected"} : status' = [status EXCEPT ![k] = verdict]
      /\ UNCHANGED <<holder, pc, pipe, orphans>>
  BY DEF ValidateOutcome, api
<1>2. status \in [Keys -> {"absent", "unset", "validated", "rejected"}]
  BY DEF IInv, TypeOK
<1>3. status' \in [Keys -> {"absent", "unset", "validated", "rejected"}]
  BY <1>1, <1>2
<1>4. InOnePlace' /\ StoredPending' /\ Pushed' = Pushed /\ TypeOK'
  BY <1>1, <1>3, PipeAlone DEF IInv, TypeOK
<1>5. \A x \in Keys : Persisted(x)' = Persisted(x)
  BY <1>1, <1>2 DEF Persisted
<1>6. CallsInOrder'
  <2>1. \A c \in Calls : KeyOf[c] \in Keys
    BY KeyOfAssumption
  <2> QED
    BY <1>1, <1>4, <1>5, <2>1 DEF IInv, CallsInOrder
<1>7. OnePerKey'
  BY <1>1, <1>4 DEF IInv, OnePerKey
<1> QED
  BY <1>4, <1>6, <1>7 DEF IInv

-----------------------------------------------------------------------------
(* The theorems. *)

LEMMA NextKeepsIInv == IInv /\ [Next]_vars => IInv'
<1> SUFFICES ASSUME IInv, [Next]_vars PROVE IInv'
  OBVIOUS
<1>1. CASE \E c \in Calls : Post(c) \/ CallStep(c) \/ Lose(c)
  BY <1>1, LabelStep, PushStep, CommitStep, LoseStep DEF CallStep
<1>2. CASE WorkerStep \/ Evict \/ SeeShutdown \/ WorkerCrash
  BY <1>2, WorkerMoves, MovesKeepIInv DEF IInv, PipeInv
<1>3. CASE \E k \in Keys : ValidateOutcome(k)
  BY <1>3, ValidateStep
<1>4. CASE UNCHANGED vars
  <2>1. UNCHANGED <<status, holder, pc, pipe, orphans>>
    BY <1>4 DEF vars, api
  <2>2. InOnePlace' /\ StoredPending' /\ Pushed' = Pushed /\ TypeOK'
    BY <2>1, PipeAlone DEF IInv, TypeOK
  <2> QED
    BY <2>1, <2>2 DEF IInv, CallsInOrder, OnePerKey, Persisted
<1> QED
  BY <1>1, <1>2, <1>3, <1>4 DEF Next

\* The invariant holds in every behaviour, with any number of calls, keys and
\* payloads in flight, whatever crashes, rolls back or is evicted.
THEOREM SpecKeepsIInv == Spec => []IInv
BY InitIInv, NextKeepsIInv, PTL DEF Spec

\* Every variable of the pipeline keeps its type; a batch never exceeds
\* BATCH_SIZE (EventProcessorWorker._collect).
THEOREM TypeCorrect == Spec => []TypeOK
<1>1. IInv => TypeOK
  BY DEF IInv
<1> QED
  BY <1>1, SpecKeepsIInv, PTL

\* The idempotency key of create_event: of two rows with one key in ClickHouse,
\* one was pushed by a call that rolled back afterwards.
THEOREM EventsAreCountedOnce == Spec => []CountedOnce
<1>1. IInv => CountedOnce
  <2> SUFFICES ASSUME IInv, NEW e \in stored, NEW f \in stored, e # f,
                      KeyOf[e.call] = KeyOf[f.call]
               PROVE  {e.call, f.call} \intersect orphans # {}
    BY DEF CountedOnce
  <2>1. e.outcome_status = "pending" /\ f.outcome_status = "pending"
    BY DEF IInv, StoredPending
  <2>2. /\ e \in [call : Calls, outcome_status : {"pending", "validated", "rejected"}]
        /\ f \in [call : Calls, outcome_status : {"pending", "validated", "rejected"}]
    BY DEF IInv, TypeOK
  <2>3. e.call # f.call
    BY <2>1, <2>2
  <2>4. e.call \in Pushed /\ f.call \in Pushed
    BY DEF Pushed
  <2> QED
    BY <2>3, <2>4 DEF IInv, OnePerKey
<1> QED
  BY <1>1, SpecKeepsIInv, PTL

\* The worker copies nothing: whatever is popped, flushed, lost or written is in
\* one place of the pipe only (_collect, _flush and run of the event processor).
THEOREM PayloadsAreNotCopied == Spec => []NothingCopied
<1>1. IInv => NothingCopied
  <2> SUFFICES ASSUME IInv PROVE NothingCopied
    OBVIOUS
  <2> DEFINE early == queue \o batch
             transit == early \o flushing
  <2>1. queue \in Seq(Calls) /\ batch \in Seq(Calls) /\ flushing \in Seq(Calls)
    BY DEF IInv, TypeOK
  <2>2. /\ early \in Seq(Calls) /\ ToSet(early) = ToSet(queue) \union ToSet(batch)
        /\ IsInjective(early)
    BY <2>1, JoinTwo DEF IInv, InOnePlace
  <2> HIDE DEF early
  <2>3. ToSet(early) \intersect ToSet(flushing) = {} /\ IsInjective(flushing)
    BY <2>2 DEF IInv, InOnePlace
  <2>4. /\ ToSet(transit) = ToSet(early) \union ToSet(flushing)
        /\ IsInjective(transit)
    BY <2>1, <2>2, <2>3, JoinTwo
  <2>5. transit = queue \o batch \o flushing
    BY DEF early
  <2> HIDE DEF transit
  <2>6. ToSet(transit) = ToSet(queue) \union ToSet(batch) \union ToSet(flushing)
    BY <2>2, <2>4
  <2>7. \A e \in stored : e.call \in StoredCalls
    BY DEF StoredCalls
  <2>8. /\ ToSet(transit) \intersect dropped = {}
        /\ (ToSet(transit) \union dropped) \intersect StoredCalls = {}
    BY <2>6 DEF IInv, InOnePlace
  <2> QED
    BY <2>4, <2>5, <2>7, <2>8 DEF NothingCopied
<1> QED
  BY <1>1, SpecKeepsIInv, PTL
=============================================================================
