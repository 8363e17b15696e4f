---------------------------- MODULE SessionProofs ----------------------------
(***************************************************************************)
(* The two components whose sessions read rows without a lock and write    *)
(* them later: the tree of legal entities and the credit balance.          *)
(*                                                                         *)
(* Moves keep the tree a tree, for any number of entities and sessions.    *)
(* A loop is a set of entities whose parents are in the set.  The proof is *)
(* about loops, not about ways up of some length: what a session that is   *)
(* undisturbed has visited has every child of a visited entity in it or    *)
(* below one that is still queued (ChildrenAreSeen), so when the queue is  *)
(* empty, the rest of a loop that a move would close was a loop before.    *)
(*                                                                         *)
(* The balance is the work of any number of sessions and any requests.     *)
(* NonNegative and BalanceIsPosted are not inductive: they follow from     *)
(* what a session holds between its read and its commit (SessionHolds),    *)
(* and from a row that nobody has committed yet being worth nothing        *)
(* (NoRowIsEmpty).                                                         *)
(***************************************************************************)
EXTENDS EntityHierarchy, CreditLedger, FiniteSetTheorems, WellFoundedInduction, TLAPS

-----------------------------------------------------------------------------
(* The tree of legal entities *)

IsLoop(loop) == loop # {} /\ \A e \in loop : parent[e] \in loop

Queued(s, e) == \E i \in DOMAIN session[s].queue : session[s].queue[i] = e

Checking(s) ==
    /\ session[s].at \in {"descending", "flushed"}
    /\ session[s].call = "move"
    /\ session[s].next # Nobody
    /\ session[s].alone

ParentsExist == \A e \in Existing : parent[e] \in Existing \union {Nobody}

\* What a session names exists, and what it flushes passed the check.
Named(s) ==
    /\ session[s].at # "idle" => session[s].entity \in Existing
    /\ session[s].at # "idle" => session[s].next \in Existing \union {Nobody}
    /\ session[s].at \in {"descending", "flushed"} =>
          /\ session[s].call \in {"move", "update"}
          /\ session[s].entity \in session[s].visited
    /\ session[s].at = "flushed" => session[s].queue = <<>> /\ ~Cyclic(s)

ChildrenAreSeen(s) ==
    Checking(s) => \A e \in Entities :
        parent[e] \in session[s].visited =>
            e \in session[s].visited \/ Queued(s, parent[e])

LoopsHaveACause ==
    \A loop \in SUBSET Entities : IsLoop(loop) => loop \intersect unchecked # {}

IInv ==
    /\ TypeOK
    /\ ParentsExist
    /\ \A s \in Sessions : Named(s) /\ ChildrenAreSeen(s)
    /\ LoopsHaveACause

-----------------------------------------------------------------------------
\* The rows of a SELECT, in whatever order they come, are all there and nothing else.
LEMMA RowsInAnyOrder ==
    ASSUME NEW S, IsFiniteSet(S), NEW q \in SetToSeqs(S)
    PROVE  /\ q \in Seq(S)
           /\ \A x \in S : \E i \in DOMAIN q : q[i] = x
<1> DEFINE n == Cardinality(S)
<1>1. n \in Nat
  BY FS_CardinalityType
<1>2. q \in [1..n -> S] /\ \A i, j \in 1..n : i # j => q[i] # q[j]
  BY DEF SetToSeqs
<1>3. q \in Seq(S)
  BY <1>1, <1>2
<1>4. q \in Injection(1..n, S)
  BY <1>2 DEF Injection, IsInjective
<1>5. Cardinality(1..n) = n
  BY <1>1, FS_Interval
<1>6. q \in Surjection(1..n, S)
  BY <1>4, <1>5, FS_Injection
<1>7. \A x \in S : \E i \in 1..n : q[i] = x
  BY <1>6 DEF Surjection
<1> QED
  BY <1>2, <1>3, <1>7

LEMMA InitIInv == Init => IInv
<1> SUFFICES ASSUME Init PROVE IInv
  OBVIOUS
<1>1. TypeOK
  BY HierarchyAssumption DEF Init, TypeOK, Idle, Id
<1>2. ParentsExist
  BY HierarchyAssumption, TreeAssumption DEF Init, ParentsExist, Existing
<1>3. \A s \in Sessions : Named(s) /\ ChildrenAreSeen(s)
  BY DEF Init, Idle, Named, ChildrenAreSeen, Checking
<1>4. LoopsHaveACause
  BY TreeAssumption DEF Init, LoopsHaveACause, IsLoop
<1> QED
  BY <1>1, <1>2, <1>3, <1>4 DEF IInv

-----------------------------------------------------------------------------
(* The steps of a session that write nothing. *)

\* A session that starts a call.
LEMMA StartsKeepsIInv ==
    ASSUME IInv, NEW s \in Sessions, NEW e \in Existing, NEW new,
           Starts(s, new),
           new \in [at : {"descending", "climbing"}, call : {"move", "update", "ancestors"},
                    entity : {e}, next : Existing \union {Nobody}, queue : Seq(Entities),
                    visited : {{e}}, read : Id, alone : {TRUE}],
           new.at = "descending" => new.call \in {"move", "update"},
           new.call = "move" /\ new.next # Nobody => new.queue = <<e>>
    PROVE  IInv'
<1>1. /\ parent' = parent /\ unchecked' = unchecked /\ calls' = calls + 1
      /\ session' = [session EXCEPT ![s] = new]
      /\ Existing' = Existing /\ Existing \subseteq Entities
  BY DEF Starts, Existing
<1>2. new \in [at : {"idle", "descending", "flushed", "climbing"},
               call : {"none", "move", "update", "ancestors"},
               entity : Id, next : Id, queue : Seq(Entities), visited : SUBSET Entities,
               read : Id, alone : BOOLEAN]
  <2>1. new = [at |-> new.at, call |-> new.call, entity |-> new.entity, next |-> new.next,
               queue |-> new.queue, visited |-> new.visited, read |-> new.read,
               alone |-> new.alone]
    OBVIOUS
  <2>2. /\ new.at \in {"descending", "climbing"} /\ new.call \in {"move", "update", "ancestors"}
        /\ new.entity = e /\ new.next \in Existing \union {Nobody}
        /\ new.queue \in Seq(Entities) /\ new.visited = {e} /\ new.read \in Id
        /\ new.alone = TRUE
    OBVIOUS
  <2>3. e \in Entities /\ e \in Id /\ new.next \in Id /\ new.visited \subseteq Entities
    BY <1>1, <2>2 DEF Id
  <2> HIDE DEF Id
  <2> QED
    BY <2>1, <2>2, <2>3
<1>3. TypeOK'
  BY <1>1, <1>2 DEF IInv, TypeOK, Id
<1>4. session'[s] = new /\ \A t \in Sessions \ {s} : session'[t] = session[t]
  BY <1>1 DEF IInv, TypeOK
<1>5. ASSUME NEW t \in Sessions PROVE Named(t)' /\ ChildrenAreSeen(t)'
  <2>1. CASE t # s
    BY <1>1, <1>4, <2>1 DEF IInv, Named, Cyclic, ChildrenAreSeen, Checking, Queued
  <2>2. CASE t = s
    <3>1. Named(s)'
      BY <1>1, <1>4 DEF Named
    <3>2. Checking(s)' => new.queue = <<e>> /\ new.visited = {e}
      BY <1>4 DEF Checking
    <3>3. ChildrenAreSeen(s)'
      BY <1>1, <1>4, <3>2 DEF ChildrenAreSeen, Queued
    <3> QED
      BY <2>2, <3>1, <3>3
  <2> QED
    BY <2>1, <2>2
<1> QED
  BY <1>1, <1>3, <1>5 DEF IInv, ParentsExist, LoopsHaveACause, IsLoop

LEMMA StartKeepsIInv ==
    ASSUME IInv, NEW s \in Sessions, StartMove(s) \/ StartUpdate(s) \/ StartClimb(s)
    PROVE  IInv'
<1>1. \A e \in Existing : parent[e] \in Existing \union {Nobody} /\ parent[e] \in Id /\ e \in Entities
  BY DEF IInv, ParentsExist, Existing, Id
<1>2. \A e \in Existing : <<e>> \in Seq(Entities) /\ <<>> \in Seq(Entities)
  BY <1>1
<1>3. CASE StartMove(s)
  <2>1. PICK e \in Existing, p \in Existing \union {Nobody} :
            Starts(s, Walk("descending", "move", e, p, IF p = Nobody THEN <<>> ELSE <<e>>))
    BY <1>3 DEF StartMove
  <2> QED
    BY <1>1, <1>2, <2>1, StartsKeepsIInv DEF Walk
<1>4. CASE StartUpdate(s)
  <2>1. PICK e \in Existing, p \in Existing \union {Nobody} :
            Starts(s, Walk("descending", "update", e, p, <<>>))
    BY <1>4 DEF StartUpdate
  <2> QED
    BY <1>1, <1>2, <2>1, StartsKeepsIInv DEF Walk
<1>5. CASE StartClimb(s)
  <2>1. PICK e \in Existing : Starts(s, Walk("climbing", "ancestors", e, parent[e], <<>>))
    BY <1>5 DEF StartClimb
  <2> QED
    BY <1>1, <1>2, <2>1, StartsKeepsIInv DEF Walk
<1> QED
  BY <1>3, <1>4, <1>5

\* A session that becomes idle, or moves on, while the rows stay as they are.
LEMMA SessionKeepsIInv ==
    ASSUME IInv, NEW s \in Sessions, UNCHANGED <<parent, unchecked, calls>>,
           DOMAIN session' = Sessions, session' = [t \in Sessions |-> session'[t]],
           \A t \in Sessions \ {s} : session'[t] = session[t],
           session'[s] \in
               [at : {"idle", "descending", "flushed", "climbing"},
                call : {"none", "move", "update", "ancestors"},
                entity : Id, next : Id, queue : Seq(Entities), visited : SUBSET Entities,
                read : Id, alone : BOOLEAN],
           Named(s)', ChildrenAreSeen(s)'
    PROVE  IInv'
<1>1. parent' = parent /\ unchecked' = unchecked /\ calls' = calls /\ Existing' = Existing
  BY DEF Existing
<1>2. TypeOK'
  <2> DEFINE Rows == [at : {"idle", "descending", "flushed", "climbing"},
                      call : {"none", "move", "update", "ancestors"},
                      entity : Id, next : Id, queue : Seq(Entities), visited : SUBSET Entities,
                      read : Id, alone : BOOLEAN]
  <2>1. session \in [Sessions -> Rows] /\ session'[s] \in Rows
    BY DEF IInv, TypeOK
  <2> HIDE DEF Rows
  <2>2. session' \in [Sessions -> Rows]
    BY <2>1
  <2> USE DEF Rows
  <2> QED
    BY <1>1, <2>2 DEF IInv, TypeOK, Id
<1>3. ASSUME NEW t \in Sessions PROVE Named(t)' /\ ChildrenAreSeen(t)'
  <2>1. CASE t # s
    BY <1>1, <2>1 DEF IInv, Named, Cyclic, ChildrenAreSeen, Checking, Queued
  <2>2. CASE t = s
    BY <2>2
  <2> QED
    BY <2>1, <2>2
<1> QED
  BY <1>1, <1>2, <1>3 DEF IInv, ParentsExist, LoopsHaveACause, IsLoop

\* The second of two sequences, where it is in both together.
LEMMA AfterTheFirst ==
    ASSUME NEW S, NEW p \in Seq(S), NEW q \in Seq(S), NEW i \in DOMAIN q
    PROVE  Len(p) + i \in DOMAIN (p \o q) /\ (p \o q)[Len(p) + i] = q[i]
<1>1. i \in 1..Len(q) /\ Len(p) \in Nat /\ Len(q) \in Nat
  OBVIOUS
<1>2. Len(p \o q) = Len(p) + Len(q)
  OBVIOUS
<1>3. DOMAIN (p \o q) = 1..(Len(p) + Len(q))
  BY <1>2
<1>4. Len(p) + i \in 1..(Len(p) + Len(q))
  BY <1>1
<1>5. (p \o q)[Len(p) + i] = q[i]
  BY <1>1
<1> QED
  BY <1>3, <1>4, <1>5

LEMMA DescendKeepsIInv == ASSUME IInv, NEW s \in Sessions, Descend(s) PROVE IInv'
<1> DEFINE at == session[s]
           found == {c \in Existing : parent[c] = Head(at.queue)} \ at.visited
<1>1. PICK children \in SetToSeqs(found) :
          session' = [session EXCEPT ![s].queue = Tail(at.queue) \o children,
                                     ![s].visited = @ \union found]
  BY DEF Descend
<1>2. /\ at.at = "descending" /\ at.queue # <<>>
      /\ parent' = parent /\ unchecked' = unchecked /\ calls' = calls /\ Existing' = Existing
  BY DEF Descend, Existing
<1>3. /\ at \in [at : {"idle", "descending", "flushed", "climbing"},
                 call : {"none", "move", "update", "ancestors"},
                 entity : Id, next : Id, queue : Seq(Entities), visited : SUBSET Entities,
                 read : Id, alone : BOOLEAN]
      /\ at.queue \in Seq(Entities) /\ session \in [Sessions -> {session[t] : t \in Sessions}]
  BY DEF IInv, TypeOK
<1>4. found \subseteq Entities /\ IsFiniteSet(found)
  <2>1. found \subseteq Entities
    BY DEF Existing
  <2> QED
    BY <2>1, TreeAssumption, FS_Subset
<1>5. children \in Seq(found) /\ \A x \in found : \E i \in DOMAIN children : children[i] = x
  <2> HIDE DEF found
  <2> QED
    BY <1>4, RowsInAnyOrder
<1> DEFINE queue == Tail(at.queue) \o children
<1>6. /\ Tail(at.queue) \in Seq(Entities) /\ children \in Seq(Entities)
      /\ queue \in Seq(Entities)
  BY <1>2, <1>3, <1>4, <1>5
<1>7. /\ \A x \in found : \E i \in DOMAIN queue : queue[i] = x
      /\ \A i \in DOMAIN at.queue : at.queue[i] = Head(at.queue)
                                        \/ \E k \in DOMAIN queue : queue[k] = at.queue[i]
  <2>1. ASSUME NEW i \in DOMAIN children PROVE \E k \in DOMAIN queue : queue[k] = children[i]
    <3>1. /\ Len(Tail(at.queue)) + i \in DOMAIN queue
          /\ queue[Len(Tail(at.queue)) + i] = children[i]
      BY <1>6, AfterTheFirst
    <3> QED
      BY <3>1
  <2>2. ASSUME NEW i \in DOMAIN at.queue, at.queue[i] # Head(at.queue)
        PROVE  \E k \in DOMAIN queue : queue[k] = at.queue[i]
    <3>1. i \in 2..Len(at.queue)
      BY <1>2, <1>3, <2>2
    <3>2. i - 1 \in DOMAIN Tail(at.queue) /\ Tail(at.queue)[i - 1] = at.queue[i]
      BY <1>2, <1>3, <3>1
    <3>3. i - 1 \in DOMAIN queue /\ queue[i - 1] = at.queue[i]
      BY <1>6, <3>2
    <3> QED
      BY <3>3
  <2> QED
    BY <1>5, <2>1, <2>2
<1> DEFINE new == [at |-> at.at, call |-> at.call, entity |-> at.entity, next |-> at.next,
                   queue |-> queue, visited |-> at.visited \union found,
                   read |-> at.read, alone |-> at.alone]
<1> HIDE DEF found, queue
<1>8. [at EXCEPT !.queue = queue, !.visited = @ \union found] = new
  <2> DEFINE y == [at EXCEPT !.queue = queue, !.visited = @ \union found]
  <2>1. y \in [at : {at.at}, call : {at.call}, entity : {at.entity}, next : {at.next},
               queue : {queue}, visited : {at.visited \union found},
               read : {at.read}, alone : {at.alone}]
    BY <1>3
  <2> HIDE DEF y
  <2>2. y = new
    BY <2>1
  <2> QED
    BY <2>2 DEF y
<1>9. session' = [session EXCEPT ![s] = new]
  BY <1>1, <1>3, <1>8 DEF queue
<1>10. session'[s] = new /\ \A t \in Sessions \ {s} : session'[t] = session[t]
  BY <1>3, <1>9
<1>11. new \in [at : {"idle", "descending", "flushed", "climbing"},
                call : {"none", "move", "update", "ancestors"},
                entity : Id, next : Id, queue : Seq(Entities), visited : SUBSET Entities,
                read : Id, alone : BOOLEAN]
  BY <1>3, <1>4, <1>6
<1>12. Named(s)'
  BY <1>2, <1>10 DEF IInv, Named
<1>13. ChildrenAreSeen(s)'
  <2> SUFFICES ASSUME Checking(s)', NEW e \in Entities, parent[e] \in new.visited,
                      e \notin new.visited
               PROVE  \E i \in DOMAIN queue : queue[i] = parent[e]
    BY <1>2, <1>10 DEF ChildrenAreSeen, Queued
  <2>1. Checking(s)
    BY <1>10 DEF Checking
  <2>2. CASE parent[e] \in found
    BY <1>7, <2>2
  <2>3. CASE parent[e] \in at.visited
    <3>1. PICK i \in DOMAIN at.queue : at.queue[i] = parent[e]
      BY <2>1, <2>3 DEF IInv, ChildrenAreSeen, Queued
    <3>2. parent[e] # Head(at.queue)
      <4>1. parent[e] \in Entities
        BY <1>3, <3>1
      <4>2. e \in Existing
        BY <4>1, HierarchyAssumption DEF Existing
      <4> QED
        BY <4>2 DEF found
    <3> QED
      BY <1>7, <3>1, <3>2
  <2> QED
    BY <2>2, <2>3
<1> HIDE DEF new
<1>14. DOMAIN session' = Sessions /\ session' = [t \in Sessions |-> session'[t]]
  BY <1>3, <1>9
<1> QED
  BY <1>2, <1>10, <1>11, <1>12, <1>13, <1>14, SessionKeepsIInv

\* A call that ends without a write, a walk upwards, a flush.
LEMMA QuietStepKeepsIInv ==
    ASSUME IInv, NEW s \in Sessions,
           \/ Refuse(s) \/ Flush(s) \/ Rollback(s) \/ Climb(s)
           \/ Commit(s) /\ ~Updates(s)
    PROVE  IInv'
<1> DEFINE at == session[s]
<1>1. /\ parent' = parent /\ unchecked' = unchecked /\ calls' = calls /\ Existing' = Existing
  BY DEF Refuse, Flush, Rollback, Climb, Commit, Existing
<1>2. /\ at \in [at : {"idle", "descending", "flushed", "climbing"},
                 call : {"none", "move", "update", "ancestors"},
                 entity : Id, next : Id, queue : Seq(Entities), visited : SUBSET Entities,
                 read : Id, alone : BOOLEAN]
      /\ session \in [Sessions -> {session[t] : t \in Sessions}]
  BY DEF IInv, TypeOK
<1>3. ASSUME NEW new, session' = [session EXCEPT ![s] = new],
             new \in [at : {"idle", "descending", "flushed", "climbing"},
                      call : {"none", "move", "update", "ancestors"},
                      entity : Id, next : Id, queue : Seq(Entities), visited : SUBSET Entities,
                      read : Id, alone : BOOLEAN],
             session'[s] = new => Named(s)' /\ ChildrenAreSeen(s)'
      PROVE  IInv'
  <2>1. session'[s] = new /\ \A t \in Sessions \ {s} : session'[t] = session[t]
    BY <1>2, <1>3
  <2>2. DOMAIN session' = Sessions /\ session' = [t \in Sessions |-> session'[t]]
    BY <1>2, <1>3
  <2> QED
    BY <1>1, <1>3, <2>1, <2>2, SessionKeepsIInv
<1>4. CASE session' = [session EXCEPT ![s] = Idle]
  <2>1. session'[s] = Idle => Named(s)' /\ ChildrenAreSeen(s)'
    BY DEF Named, ChildrenAreSeen, Checking, Idle
  <2>2. Idle \in [at : {"idle", "descending", "flushed", "climbing"},
                  call : {"none", "move", "update", "ancestors"},
                  entity : Id, next : Id, queue : Seq(Entities), visited : SUBSET Entities,
                  read : Id, alone : BOOLEAN]
    BY DEF Idle, Id
  <2> QED
    BY <1>3, <1>4, <2>1, <2>2
<1>5. CASE Flush(s)
  <2> DEFINE new == [at |-> "flushed", call |-> at.call, entity |-> at.entity, next |-> at.next,
                     queue |-> at.queue, visited |-> at.visited,
                     read |-> at.read, alone |-> at.alone]
  <2>1. [at EXCEPT !.at = "flushed"] = new
    BY <1>2
  <2>2. session' = [session EXCEPT ![s] = new]
    BY <1>2, <1>5, <2>1 DEF Flush
  <2>3. at.at = "descending" /\ at.queue = <<>> /\ ~Cyclic(s)
    BY <1>5 DEF Flush
  <2>4. session'[s] = new => Named(s)'
    BY <1>1, <2>3 DEF IInv, Named, Cyclic
  <2>5. session'[s] = new => ChildrenAreSeen(s)'
    BY <1>1, <2>3 DEF IInv, ChildrenAreSeen, Checking, Queued
  <2>6. new \in [at : {"idle", "descending", "flushed", "climbing"},
                 call : {"none", "move", "update", "ancestors"},
                 entity : Id, next : Id, queue : Seq(Entities), visited : SUBSET Entities,
                 read : Id, alone : BOOLEAN]
    BY <1>2
  <2> HIDE DEF new
  <2> QED
    BY <1>3, <2>2, <2>4, <2>5, <2>6
<1>6. CASE Climb(s) /\ session' # [session EXCEPT ![s] = Idle]
  <2> DEFINE new == [at |-> at.at, call |-> at.call, entity |-> at.entity, next |-> parent[at.next],
                     queue |-> at.queue, visited |-> at.visited \union {at.next},
                     read |-> at.read, alone |-> at.alone]
  <2>1. /\ at.at = "climbing" /\ at.next # Nobody
        /\ session' = [session EXCEPT ![s].visited = @ \union {at.next}, ![s].next = parent[@]]
    BY <1>6 DEF Climb
  <2>2. [at EXCEPT !.visited = @ \union {at.next}, !.next = parent[@]] = new
    <3> DEFINE y == [at EXCEPT !.visited = @ \union {at.next}, !.next = parent[@]]
    <3>1. y \in [at : {at.at}, call : {at.call}, entity : {at.entity}, next : {parent[at.next]},
                 queue : {at.queue}, visited : {at.visited \union {at.next}},
                 read : {at.read}, alone : {at.alone}]
      BY <1>2
    <3> HIDE DEF y
    <3>2. y = new
      BY <3>1
    <3> QED
      BY <3>2 DEF y
  <2>3. session' = [session EXCEPT ![s] = new]
    BY <1>2, <2>1, <2>2
  <2>4. at.next \in Existing /\ parent[at.next] \in Existing \union {Nobody}
    BY <2>1 DEF IInv, Named, ParentsExist
  <2>5. session'[s] = new => Named(s)' /\ ChildrenAreSeen(s)'
    BY <1>1, <2>1, <2>4 DEF IInv, Named, ChildrenAreSeen, Checking
  <2>6. new \in [at : {"idle", "descending", "flushed", "climbing"},
                 call : {"none", "move", "update", "ancestors"},
                 entity : Id, next : Id, queue : Seq(Entities), visited : SUBSET Entities,
                 read : Id, alone : BOOLEAN]
    BY <1>2, <2>4 DEF Existing, Id
  <2> HIDE DEF new
  <2> QED
    BY <1>3, <2>3, <2>5, <2>6
<1> QED
  BY <1>4, <1>5, <1>6 DEF Refuse, Rollback, Commit

-----------------------------------------------------------------------------
(* The steps that write. *)

\* After a commit every other session keeps what it holds, but is not alone any more.
LEMMA OthersAreDisturbed ==
    ASSUME IInv, NEW by, session' = Disturbed(session, by),
           \A e \in Existing : e \in Existing'
    PROVE  /\ session' \in [Sessions ->
                [at : {"idle", "descending", "flushed", "climbing"},
                 call : {"none", "move", "update", "ancestors"},
                 entity : Id, next : Id, queue : Seq(Entities), visited : SUBSET Entities,
                 read : Id, alone : BOOLEAN]]
           /\ \A s \in Sessions : Named(s)' /\ ChildrenAreSeen(s)'
<1> DEFINE Session == [at : {"idle", "descending", "flushed", "climbing"},
                       call : {"none", "move", "update", "ancestors"},
                       entity : Id, next : Id, queue : Seq(Entities), visited : SUBSET Entities,
                       read : Id, alone : BOOLEAN]
           After(s) == IF s = by THEN Idle ELSE [session[s] EXCEPT !.alone = FALSE]
<1>1. session' = [s \in Sessions |-> After(s)]
  BY DEF Disturbed
<1>2. \A s \in Sessions : session[s] \in Session
  BY DEF IInv, TypeOK
<1>3. \A s \in Sessions : After(s) \in Session
  <2>1. Idle \in Session
    BY DEF Idle, Id
  <2>2. \A s \in Sessions : [session[s] EXCEPT !.alone = FALSE] \in Session
    BY <1>2
  <2> QED
    BY <2>1, <2>2
<1>4. ASSUME NEW s \in Sessions PROVE Named(s)' /\ ChildrenAreSeen(s)'
  <2>1. session'[s] = After(s)
    BY <1>1
  <2>2. CASE s = by
    BY <2>1, <2>2 DEF Named, ChildrenAreSeen, Checking, Idle
  <2>3. CASE s # by
    <3>1. /\ session'[s].at = session[s].at /\ session'[s].call = session[s].call
          /\ session'[s].entity = session[s].entity /\ session'[s].next = session[s].next
          /\ session'[s].queue = session[s].queue /\ session'[s].visited = session[s].visited
          /\ session'[s].alone = FALSE
      BY <1>2, <2>1, <2>3
    <3>2. Named(s)
      BY DEF IInv
    <3>3. Named(s)'
      BY <3>1, <3>2 DEF Named, Cyclic
    <3>4. ChildrenAreSeen(s)'
      BY <3>1 DEF ChildrenAreSeen, Checking
    <3> QED
      BY <3>3, <3>4
  <2> QED
    BY <2>2, <2>3
<1> HIDE DEF After
<1> QED
  BY <1>1, <1>3, <1>4

LEMMA CreateKeepsIInv ==
    ASSUME IInv, NEW e \in Entities, NEW p \in Entities \union {Nobody}, Create(e, p)
    PROVE  IInv'
<1>1. /\ e \notin Existing /\ p \in Existing \union {Nobody}
      /\ parent' = [parent EXCEPT ![e] = p] /\ unchecked' = unchecked
      /\ session' = Disturbed(session, Nobody) /\ calls' = calls + 1
  BY DEF Create
<1>2. parent \in [Entities -> Id \union {Absent}] /\ calls \in Nat /\ unchecked \subseteq Entities
  BY DEF IInv, TypeOK
<1>3. /\ parent'[e] = p /\ \A x \in Entities \ {e} : parent'[x] = parent[x]
      /\ \A x \in Existing : x # e /\ parent'[x] = parent[x]
      /\ Absent \notin Entities \union {Nobody}
  BY <1>1, <1>2, HierarchyAssumption DEF Existing
<1>4. Existing' = Existing \union {e}
  BY <1>1, <1>3 DEF Existing
<1>5. /\ session' \in [Sessions ->
            [at : {"idle", "descending", "flushed", "climbing"},
             call : {"none", "move", "update", "ancestors"},
             entity : Id, next : Id, queue : Seq(Entities), visited : SUBSET Entities,
             read : Id, alone : BOOLEAN]]
      /\ \A s \in Sessions : Named(s)' /\ ChildrenAreSeen(s)'
  BY <1>1, <1>4, OthersAreDisturbed
<1>6. TypeOK'
  <2>1. parent' \in [Entities -> Id \union {Absent}]
    BY <1>1, <1>2 DEF Id
  <2> QED
    BY <1>1, <1>2, <1>5, <2>1 DEF TypeOK, Id
<1>7. ParentsExist'
  BY <1>1, <1>3, <1>4 DEF IInv, ParentsExist
<1>8. LoopsHaveACause'
  <2> SUFFICES ASSUME NEW loop \in SUBSET Entities, IsLoop(loop)'
               PROVE  loop \intersect unchecked # {}
    BY <1>1 DEF LoopsHaveACause
  <2> DEFINE rest == loop \ {e}
  <2>1. \A x \in loop : parent'[x] \in loop
    BY DEF IsLoop
  <2>2. \A x \in rest : parent[x] \in loop /\ parent[x] # e
    <3> SUFFICES ASSUME NEW x \in rest PROVE parent[x] \in loop /\ parent[x] # e
      OBVIOUS
    <3>1. parent[x] \in loop
      BY <1>3, <2>1
    <3>2. x \in Existing
      BY <1>3, <3>1 DEF Existing
    <3> QED
      BY <1>1, <3>1, <3>2, HierarchyAssumption DEF IInv, ParentsExist
  <2>3. rest # {}
    <3>1. CASE e \in loop
      <4>1. p \in loop /\ p # e
        BY <1>1, <1>3, <2>1, <3>1, HierarchyAssumption
      <4> QED
        BY <4>1
    <3>2. CASE e \notin loop
      BY <3>2 DEF IsLoop
    <3> QED
      BY <3>1, <3>2
  <2>4. IsLoop(rest)
    BY <2>2, <2>3 DEF IsLoop
  <2> QED
    BY <2>4 DEF IInv, LoopsHaveACause
<1> QED
  BY <1>5, <1>6, <1>7, <1>8 DEF IInv

\* A move or a patch: whatever loop there is afterwards has an unchecked entity on it.
LEMMA CommitKeepsIInv ==
    ASSUME IInv, NEW s \in Sessions, Commit(s), Updates(s)
    PROVE  IInv'
<1> DEFINE at == session[s]
           e == at.entity
           p == at.next
<1>1. /\ at.at = "flushed" /\ parent' = [parent EXCEPT ![e] = p]
      /\ unchecked' = IF Unchecked(s) THEN unchecked \union {e} ELSE unchecked \ {e}
      /\ session' = Disturbed(session, s) /\ calls' = calls
  BY DEF Commit
<1>2. /\ parent \in [Entities -> Id \union {Absent}] /\ calls \in Nat /\ unchecked \subseteq Entities
      /\ at.visited \subseteq Entities /\ at.alone \in BOOLEAN
  BY DEF IInv, TypeOK
<1>3. /\ e \in Existing /\ p \in Existing \union {Nobody} /\ e \in at.visited
      /\ at.call \in {"move", "update"} /\ at.queue = <<>>
      /\ p \notin at.visited \ {e}
  BY <1>1 DEF IInv, Named, Cyclic
<1>4. e \in Entities /\ p \in Id /\ Existing \subseteq Entities
      /\ Absent \notin Entities \union {Nobody} /\ Nobody \notin Entities
  BY <1>3, HierarchyAssumption DEF Existing, Id
<1> HIDE DEF e, p
<1>5. parent'[e] = p /\ \A x \in Entities \ {e} : parent'[x] = parent[x]
  BY <1>1, <1>2, <1>4
<1>6. Existing' = Existing
  BY <1>3, <1>4, <1>5 DEF Existing
<1>7. /\ session' \in [Sessions ->
            [at : {"idle", "descending", "flushed", "climbing"},
             call : {"none", "move", "update", "ancestors"},
             entity : Id, next : Id, queue : Seq(Entities), visited : SUBSET Entities,
             read : Id, alone : BOOLEAN]]
      /\ \A t \in Sessions : Named(t)' /\ ChildrenAreSeen(t)'
  BY <1>1, <1>6, OthersAreDisturbed
<1>8. TypeOK'
  <2>1. parent' \in [Entities -> Id \union {Absent}]
    BY <1>1, <1>2, <1>4
  <2> QED
    BY <1>1, <1>2, <1>4, <1>7, <2>1 DEF TypeOK, Id
<1>9. ParentsExist'
  BY <1>3, <1>4, <1>5, <1>6 DEF IInv, ParentsExist
<1>10. LoopsHaveACause'
  <2> SUFFICES ASSUME NEW loop \in SUBSET Entities, IsLoop(loop)'
               PROVE  loop \intersect unchecked' # {}
    BY DEF LoopsHaveACause
  <2>1. loop # {} /\ \A x \in loop : parent'[x] \in loop
    BY DEF IsLoop
  <2>2. CASE e \notin loop
    <3>1. IsLoop(loop)
      BY <1>5, <2>1, <2>2 DEF IsLoop
    <3>2. loop \intersect unchecked # {}
      BY <3>1 DEF IInv, LoopsHaveACause
    <3> QED
      BY <1>1, <2>2, <3>2
  <2>3. CASE e \in loop /\ Unchecked(s)
    BY <1>1, <2>3
  <2>4. CASE e \in loop /\ ~Unchecked(s)
    <3>1. p \in loop /\ p # Nobody /\ p # e /\ at.call = "move" /\ at.alone
      BY <1>2, <1>3, <1>4, <1>5, <2>1, <2>4 DEF Unchecked, e, p
    <3>2. \A x \in Entities : parent[x] \in at.visited => x \in at.visited
      BY <1>1, <1>3, <3>1 DEF IInv, ChildrenAreSeen, Checking, Queued, p
    <3> DEFINE rest == loop \ at.visited
    <3>3. p \in rest /\ e \notin rest
      BY <1>3, <3>1
    <3>4. \A x \in rest : parent[x] \in rest
      BY <1>5, <2>1, <3>2, <3>3
    <3>5. IsLoop(rest)
      BY <3>3, <3>4 DEF IsLoop
    <3>6. rest \intersect unchecked # {}
      BY <3>5 DEF IInv, LoopsHaveACause
    <3> QED
      BY <1>1, <2>4, <3>3, <3>6
  <2> QED
    BY <2>2, <2>3, <2>4
<1> QED
  BY <1>7, <1>8, <1>9, <1>10 DEF IInv

LEMMA StepPreserves == IInv /\ [Next]_vars => IInv'
<1> SUFFICES ASSUME IInv, [Next]_vars PROVE IInv'
  OBVIOUS
<1>1. CASE UNCHANGED vars
  <2>1. UNCHANGED <<parent, session, unchecked, calls>>
    BY <1>1 DEF vars
  <2> QED
    BY <2>1 DEF IInv, TypeOK, Id, ParentsExist, Existing, Named, Cyclic, ChildrenAreSeen, Checking,
       Queued, LoopsHaveACause, IsLoop
<1>2. ASSUME NEW s \in Sessions, Commit(s) PROVE IInv'
  BY <1>2, QuietStepKeepsIInv, CommitKeepsIInv
<1> QED
  BY <1>1, <1>2, CreateKeepsIInv, StartKeepsIInv, DescendKeepsIInv, QuietStepKeepsIInv
     DEF Next, CallStep

\* Whatever moves, patches and walks interleave, the sessions and the rows stay so.
THEOREM SpecKeepsIInv == Spec => []IInv
BY InitIInv, StepPreserves, PTL DEF Spec

\* The rows, the sessions and the walks they are on keep their types.
THEOREM TypeCorrect == Spec => []TypeOK
<1>1. IInv => TypeOK
  BY DEF IInv
<1> QED
  BY <1>1, SpecKeepsIInv, PTL

-----------------------------------------------------------------------------
(* The ways up.  Above is defined by recursion over their length: what is    *)
(* above an entity that is on its own way up holds a loop.                   *)

Level(e, way, n) == IF n = 0 THEN {e} ELSE {parent[x] : x \in way[n - 1]} \ {Nobody}

Way(e) == CHOOSE way : way = [n \in 0..Cardinality(Entities) |-> Level(e, way, n)]

LEMMA AboveIsOnTheWay ==
    \A e : Above(e) = UNION {Way(e)[n] : n \in 1..Cardinality(Entities)}
BY DEF Above, Way, Level

\* Natural numbers one after the other: a least exception has a predecessor.
LEMMA ByInduction ==
    ASSUME NEW S, 0 \in S, \A n \in Nat : n \in S => n + 1 \in S
    PROVE  \A n \in Nat : n \in S
<1> DEFINE T == Nat \ S
           R == {ss \in Nat \X Nat : ss[1] < ss[2]}
<1> SUFFICES ASSUME T # {} PROVE FALSE
  OBVIOUS
<1>1. IsWellFoundedOn(R, Nat)
  BY NatLessThanWellFounded DEF OpToRel
<1>2. T \subseteq Nat
  OBVIOUS
<1>3. PICK n \in T : \A m \in T : ~ (<<m, n>> \in R)
  <2> HIDE DEF R, T
  <2> QED
    BY <1>1, <1>2, WFMin
<1>4. n \in Nat /\ n # 0
  BY <1>3
<1>5. n - 1 \in Nat /\ <<n - 1, n>> \in R
  BY <1>4
<1>6. n - 1 \in S
  BY <1>3, <1>5
<1>7. (n - 1) + 1 \in S
  BY <1>5, <1>6
<1> QED
  BY <1>3, <1>4, <1>7

LEMMA WayIs ==
    ASSUME NEW e
    PROVE  Way(e) = [n \in 0..Cardinality(Entities) |-> Level(e, Way(e), n)]
<1> DEFINE N == Cardinality(Entities)
           Upto(m, way) == way = [n \in 0..N |-> IF n <= m THEN Level(e, way, n) ELSE {}]
           S == {m \in Nat : \E way : Upto(m, way)}
<1>0. N \in Nat
  BY TreeAssumption, FS_CardinalityType
<1> HIDE DEF N
<1>1. 0 \in S
  <2> DEFINE way == [n \in 0..N |-> IF n = 0 THEN {e} ELSE {}]
  <2>1. way = [n \in 0..N |-> IF n <= 0 THEN Level(e, way, n) ELSE {}]
    BY <1>0 DEF Level
  <2> QED
    BY <2>1
<1>2. ASSUME NEW m \in Nat, m \in S PROVE m + 1 \in S
  <2>1. PICK f : Upto(m, f)
    BY <1>2
  <2> DEFINE g == [n \in 0..N |-> IF n <= m + 1 THEN Level(e, f, n) ELSE {}]
  <2>2. \A n \in 0..N : n <= m + 1 => Level(e, g, n) = Level(e, f, n)
    <3> SUFFICES ASSUME NEW n \in 0..N, n <= m + 1, n # 0
                 PROVE  g[n - 1] = f[n - 1]
      BY DEF Level
    <3>1. n - 1 \in 0..N /\ n - 1 <= m
      BY <1>0
    <3>2. g[n - 1] = Level(e, f, n - 1)
      BY <3>1
    <3>3. f[n - 1] = Level(e, f, n - 1)
      BY <2>1, <3>1
    <3> QED
      BY <3>2, <3>3
  <2>3. g = [n \in 0..N |-> IF n <= m + 1 THEN Level(e, g, n) ELSE {}]
    BY <2>2
  <2>4. m + 1 \in Nat
    OBVIOUS
  <2> HIDE DEF g
  <2> QED
    BY <2>3, <2>4
<1>3. N \in S
  <2> HIDE DEF S
  <2> QED
    BY <1>0, <1>1, <1>2, ByInduction
<1>4. PICK way : Upto(N, way)
  BY <1>3
<1>5. way = [n \in 0..N |-> Level(e, way, n)]
  BY <1>0, <1>4
<1> QED
  BY <1>5 DEF Way, N

\* An entity that is above itself is on a loop, all of which is above it.
LEMMA WaysThatReturnAreLoops ==
    ASSUME TypeOK, ParentsExist, NEW e \in Existing, e \in Above(e)
    PROVE  \E loop \in SUBSET Entities : IsLoop(loop) /\ loop \subseteq Above(e)
<1> DEFINE N == Cardinality(Entities)
           way == Way(e)
<1>0. N \in Nat
  BY TreeAssumption, FS_CardinalityType
<1>1. \A n \in 0..N : way[n] = IF n = 0 THEN {e} ELSE {parent[x] : x \in way[n - 1]} \ {Nobody}
  BY WayIs DEF Level
<1>2. Above(e) = UNION {way[n] : n \in 1..N}
  BY AboveIsOnTheWay
<1> HIDE DEF N, way
<1>3. way[0] = {e}
  <2>1. 0 \in 0..N
    BY <1>0
  <2>2. 0 = 0 => way[0] = {e}
    BY <1>1, <2>1, Zenon
  <2> QED
    BY <2>2
<1>4. \A n \in 1..N : way[n] = {parent[x] : x \in way[n - 1]} \ {Nobody}
  <2> SUFFICES ASSUME NEW n \in 1..N
               PROVE  way[n] = {parent[x] : x \in way[n - 1]} \ {Nobody}
    OBVIOUS
  <2>1. n \in 0..N /\ n # 0
    BY <1>0
  <2> QED
    BY <1>1, <2>1
<1>5. \A n \in Nat : n + 1 <= N => way[n + 1] = {parent[x] : x \in way[n]} \ {Nobody}
  <2> SUFFICES ASSUME NEW n \in Nat, n + 1 <= N
               PROVE  way[n + 1] = {parent[x] : x \in way[n]} \ {Nobody}
    OBVIOUS
  <2>1. n + 1 \in 1..N /\ (n + 1) - 1 = n
    BY <1>0
  <2>2. way[n + 1] = {parent[x] : x \in way[(n + 1) - 1]} \ {Nobody}
    BY <1>4, <2>1
  <2> QED
    BY <2>1, <2>2
<1>6. PICK k \in 1..N : e \in way[k]
  BY <1>2
<1>7. \A n \in Nat : n <= N => way[n] \subseteq Existing /\ \A x, y \in way[n] : x = y
  <2> DEFINE S == {n \in Nat : n <= N => way[n] \subseteq Existing /\ \A x, y \in way[n] : x = y}
  <2>1. 0 \in S
    BY <1>0, <1>3
  <2>2. ASSUME NEW n \in Nat, n \in S PROVE n + 1 \in S
    <3> SUFFICES ASSUME n + 1 <= N
                 PROVE  way[n + 1] \subseteq Existing /\ \A x, y \in way[n + 1] : x = y
      OBVIOUS
    <3>1. way[n + 1] = {parent[x] : x \in way[n]} \ {Nobody}
      BY <1>5
    <3>2. way[n] \subseteq Existing /\ \A x, y \in way[n] : x = y
      BY <1>0, <2>2
    <3> QED
      BY <3>1, <3>2 DEF ParentsExist
  <2> HIDE DEF S
  <2>3. \A n \in Nat : n \in S
    BY <2>1, <2>2, ByInduction
  <2> QED
    BY <2>3 DEF S
<1>8. \A n \in Nat : n <= k => way[k - n] # {}
  <2> DEFINE S == {n \in Nat : n <= k => way[k - n] # {}}
  <2>1. 0 \in S
    BY <1>6
  <2>2. ASSUME NEW n \in Nat, n \in S PROVE n + 1 \in S
    <3> SUFFICES ASSUME n + 1 <= k PROVE way[k - (n + 1)] # {}
      OBVIOUS
    <3> DEFINE m == k - n
    <3>1. m \in 1..N /\ m - 1 = k - (n + 1)
      BY <1>0, <1>6
    <3>2. way[m] # {}
      BY <2>2
    <3> HIDE DEF m
    <3>3. way[m - 1] # {}
      BY <1>4, <3>1, <3>2
    <3> QED
      BY <3>1, <3>3
  <2> HIDE DEF S
  <2>3. \A n \in Nat : n \in S
    BY <2>1, <2>2, ByInduction
  <2> QED
    BY <2>3 DEF S
<1>9. \A n \in 0..k : way[n] # {}
  <2> SUFFICES ASSUME NEW n \in 0..k PROVE way[n] # {}
    OBVIOUS
  <2>1. k - n \in Nat /\ k - n <= k /\ k - (k - n) = n
    BY <1>6
  <2> QED
    BY <1>8, <2>1
<1> DEFINE loop == UNION {way[n] : n \in 1..k}
<1>10. loop \subseteq Existing /\ Existing \subseteq Entities
  BY <1>0, <1>6, <1>7 DEF Existing
<1>11. loop \subseteq Above(e)
  BY <1>0, <1>2, <1>6
<1>12. \A n \in 1..k : way[n] \subseteq loop
  OBVIOUS
<1>13. ASSUME NEW x \in loop PROVE parent[x] \in loop
  <2>1. PICK n \in 1..k : x \in way[n]
    OBVIOUS
  <2> HIDE DEF loop
  <2>2. \A m \in 1..k : \A y \in way[m - 1] : parent[y] \in way[m]
    <3> SUFFICES ASSUME NEW m \in 1..k, NEW y \in way[m - 1] PROVE parent[y] \in way[m]
      OBVIOUS
    <3>1. m \in 1..N /\ m \in 0..k /\ m - 1 \in Nat /\ m - 1 <= N
      BY <1>0, <1>6
    <3>2. way[m] = {parent[z] : z \in way[m - 1]} \ {Nobody}
      BY <1>4, <3>1
    <3>3. \A z \in way[m - 1] : z = y
      BY <1>7, <3>1
    <3>4. way[m] # {}
      BY <1>9, <3>1
    <3> QED
      BY <3>2, <3>3, <3>4
  <2>3. CASE n < k
    <3>1. n + 1 \in 1..k /\ (n + 1) - 1 = n
      BY <1>6, <2>3
    <3>2. parent[x] \in way[n + 1]
      BY <2>1, <2>2, <3>1
    <3> QED
      BY <1>12, <3>1, <3>2
  <2>4. CASE n = k
    <3>1. x = e
      BY <1>0, <1>6, <1>7, <2>1, <2>4
    <3>2. 1 \in 1..k /\ 1 - 1 = 0 /\ e \in way[0]
      BY <1>0, <1>6, <1>3
    <3>3. parent[e] \in way[1]
      BY <2>2, <3>2
    <3> QED
      BY <1>12, <3>1, <3>2, <3>3
  <2> QED
    BY <1>6, <2>1, <2>3, <2>4
<1>14. e \in loop
  BY <1>6
<1> HIDE DEF loop
<1>15. IsLoop(loop)
  BY <1>13, <1>14 DEF IsLoop
<1> QED
  BY <1>10, <1>11, <1>15

\* move_entity's check: however many moves, patches and creations interleave, an entity
\* is its own ancestor only if something on that way up was written unchecked.
THEOREM MovesKeepTheTree == Spec => []CyclesHaveACause
<1>1. IInv => CyclesHaveACause
  <2> SUFFICES ASSUME IInv, NEW e \in Existing, e \in Above(e)
               PROVE  Above(e) \intersect unchecked # {}
    BY DEF CyclesHaveACause
  <2>1. PICK loop \in SUBSET Entities : IsLoop(loop) /\ loop \subseteq Above(e)
    BY WaysThatReturnAreLoops DEF IInv
  <2>2. loop \intersect unchecked # {}
    BY <2>1 DEF IInv, LoopsHaveACause
  <2> QED
    BY <2>1, <2>2
<1> QED
  BY <1>1, SpecKeepsIInv, PTL

-----------------------------------------------------------------------------
(* The credit balance *)

SessionHolds(s) ==
    /\ pc[s] # "idle" => request[s] \in Requests
    /\ lock = s => pc[s] \in {"apply", "commit"}
    /\ pc[s] = "apply" =>
          /\ seen[s] <= version
          /\ read[s] >= 0
          /\ ~ stale /\ seen[s] = version => read[s] = balance
          /\ exists \/ lock = s
          /\ lock = s => ~ exists /\ seen[s] = version
    /\ pc[s] = "commit" =>
          /\ read[s] >= 0
          /\ lock = s \/ (exists /\ Delta(request[s]) = 0)
          /\ lock = s /\ ~ stale => read[s] = balance + Delta(request[s])

NoRowIsEmpty == ~ exists => balance = 0 /\ posted = 0

CreditIInv ==
    /\ CreditTypeOK
    /\ NonNegative
    /\ BalanceIsPosted
    /\ NoRowIsEmpty
    /\ \A s \in Calls : SessionHolds(s)

-----------------------------------------------------------------------------
\* What a request adds to the balance is what its transaction row says.
LEMMA DeltaIsChange ==
    ASSUME NEW r \in Requests, NEW current \in Int
    PROVE  /\ Delta(r) \in Int
           /\ NewBalance(r, current) = current + Delta(r)
           /\ r.op \notin {"consume", "adjust"} => Delta(r) >= 0
BY RequestsAssumption DEF Delta, NewBalance, Ops

LEMMA CreditInitIInv ==
    ASSUME CreditInit
    PROVE  CreditIInv
<1>1. exists \in BOOLEAN /\ stale \in BOOLEAN
  BY Zenon DEF CreditInit
<1>2. CreditTypeOK
  BY <1>1 DEF CreditInit, CreditTypeOK, Labels
<1>3. NonNegative /\ BalanceIsPosted /\ NoRowIsEmpty
  BY DEF CreditInit, NonNegative, BalanceIsPosted, NoRowIsEmpty
<1>4. \A s \in Calls : SessionHolds(s)
  BY FreeAssumption DEF CreditInit, SessionHolds
<1> QED
  BY <1>2, <1>3, <1>4 DEF CreditIInv

LEMMA CreditStepKeepsIInv ==
    ASSUME CreditIInv, [CreditNext]_(creditVars)
    PROVE  CreditIInv'
<1>0. Free \notin Calls
  BY FreeAssumption
<1> USE <1>0
    DEF CreditIInv, CreditTypeOK, NonNegative, BalanceIsPosted,
        NoRowIsEmpty, Labels, Goto, row
<1>1. ASSUME NEW s \in Calls, Call(s) PROVE CreditIInv'
  BY <1>1 DEF Call, SessionHolds
<1>2. ASSUME NEW s \in Calls, Select(s) PROVE CreditIInv'
  BY <1>2 DEF Select, SessionHolds
<1>3. ASSUME NEW s \in Calls, InsertRow(s) PROVE CreditIInv'
  BY <1>3 DEF InsertRow, SessionHolds
<1>4. ASSUME NEW s \in Calls, InsertConflict(s) PROVE CreditIInv'
  BY <1>4 DEF InsertConflict, SessionHolds
<1>5. ASSUME NEW s \in Calls, Reject(s) PROVE CreditIInv'
  BY <1>5 DEF Reject, Release, SessionHolds
<1>6. ASSUME NEW s \in Calls, Write(s) PROVE CreditIInv'
  <2>1. request[s] \in Requests /\ read[s] \in Int
    BY <1>6 DEF Write, SessionHolds
  <2>2. /\ Delta(request[s]) \in Int
        /\ NewBalance(request[s], read[s]) = read[s] + Delta(request[s])
    BY <2>1, DeltaIsChange
  <2>3. NewBalance(request[s], read[s]) >= 0
    BY <1>6, <2>1, <2>2, DeltaIsChange DEF Write, Allowed, SessionHolds
  <2>4. ASSUME ~ stale' PROVE read'[s] = balance + Delta(request[s])
    BY <1>6, <2>1, <2>2, <2>4 DEF Write, SessionHolds
  <2>5. CreditTypeOK'
    BY <1>6, <2>1, <2>2 DEF Write
  <2>6. \A t \in Calls : SessionHolds(t)'
    BY <1>6, <2>2, <2>3, <2>4 DEF Write, SessionHolds
  <2> QED
    BY <1>6, <2>5, <2>6 DEF Write
<1>7. ASSUME NEW s \in Calls, KeepBalance(s) PROVE CreditIInv'
  <2>1. request[s] \in Requests
    BY <1>7 DEF KeepBalance, SessionHolds
  <2> QED
    BY <1>7, <2>1 DEF KeepBalance, SessionHolds
<1>8. ASSUME NEW s \in Calls, CommitBalance(s) PROVE CreditIInv'
  <2>1. request[s] \in Requests /\ Delta(request[s]) \in Int
    BY <1>8, DeltaIsChange DEF CommitBalance, SessionHolds
  <2>2. CASE lock = s
    BY <1>8, <2>1, <2>2 DEF CommitBalance, Release, SessionHolds
  <2>3. CASE lock # s
    BY <1>8, <2>1, <2>3 DEF CommitBalance, Release, SessionHolds
  <2> QED
    BY <2>2, <2>3
<1>9. ASSUME NEW s \in Calls, Lose(s) PROVE CreditIInv'
  BY <1>9 DEF Lose, Release, SessionHolds
<1>10. CASE UNCHANGED creditVars
  BY <1>10 DEF creditVars, SessionHolds
<1> QED
  BY <1>1, <1>2, <1>3, <1>4, <1>5, <1>6, <1>7, <1>8, <1>9, <1>10 DEF CreditNext, Step

-----------------------------------------------------------------------------
\* The invariant holds of every run of any requests.
THEOREM CreditSpecKeepsIInv ==
    CreditSpec => []CreditIInv
<1>1. CreditInit => CreditIInv
  BY CreditInitIInv
<1>2. CreditIInv /\ [CreditNext]_(creditVars) => CreditIInv'
  BY CreditStepKeepsIInv
<1> QED
  BY <1>1, <1>2, PTL DEF CreditSpec

\* The variables keep their types.
THEOREM CreditTypeCorrect ==
    CreditSpec => []CreditTypeOK
<1>1. CreditIInv => CreditTypeOK
  BY DEF CreditIInv
<1> QED
  BY <1>1, CreditSpecKeepsIInv, PTL

\* consume_credits and the adjust endpoint check before they write, and every
\* write is absolute: the stored balance is never negative.
THEOREM BalanceNeverNegative ==
    CreditSpec => []NonNegative
<1>1. CreditIInv => NonNegative
  BY DEF CreditIInv
<1> QED
  BY <1>1, CreditSpecKeepsIInv, PTL

\* The balance drifts from its transactions only through a lost update.
THEOREM OnlyLostUpdatesDrift ==
    CreditSpec => []BalanceIsPosted
<1>1. CreditIInv => BalanceIsPosted
  BY DEF CreditIInv
<1> QED
  BY <1>1, CreditSpecKeepsIInv, PTL
=============================================================================
