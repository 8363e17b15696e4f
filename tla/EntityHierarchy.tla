--------------------------- MODULE EntityHierarchy ---------------------------
(***************************************************************************)
(* The tree of legal entities: an adjacency list in PostgreSQL, walked one *)
(* SELECT at a time under READ COMMITTED.                                  *)
(*                                                                         *)
(*   EntityTree.move_entity, get_descendants, get_ancestors                *)
(*     (entities/hierarchy.py)                                             *)
(*   create_entity (entities/entity.py)                                    *)
(*   create_entity_endpoint, update_entity, get_entity_ancestors           *)
(*     (api/v1/entities.py)                                                *)
(*                                                                         *)
(* move_entity has no caller in the sources; a caller is assumed to give   *)
(* it a session of its own.  No operation deletes an entity.               *)
(***************************************************************************)
EXTENDS Naturals, Sequences, FiniteSets, SequencesExt

CONSTANTS
    Entities, Sessions,
    Nobody,      \* parent_id of a top-level entity
    Absent,      \* the entity is not created yet
    Tree,        \* parent_id of every entity at the start
    MaxCalls     \* bound: calls that are started

ASSUME HierarchyAssumption ==
    /\ Nobody \notin Entities /\ Absent \notin Entities \union {Nobody} /\ MaxCalls \in Nat
    /\ Tree \in [Entities -> Entities \union {Nobody, Absent}]

\* A table has finitely many rows; at the start every parent exists (the foreign key) and
\* the way up from every entity ends.
ASSUME TreeAssumption ==
    /\ IsFiniteSet(Entities)
    /\ \A e \in Entities : Tree[e] \in Entities => Tree[Tree[e]] # Absent
    /\ \A loop \in SUBSET Entities : loop # {} => \E e \in loop : Tree[e] \notin loop

VARIABLES
    parent,      \* committed rows: parent_id
    session,     \* [at, call, entity, next, queue, visited, read, alone]
    unchecked,   \* history: entities whose parent no undisturbed check allowed
    calls

vars == <<parent, session, unchecked, calls>>

\* next: the new parent of a move or patch, the next id of a walk upwards; read: the
\* parent_id that was loaded; alone: history, nothing was committed since.
Idle == [at |-> "idle", call |-> "none", entity |-> Nobody, next |-> Nobody, queue |-> <<>>,
         visited |-> {}, read |-> Nobody, alone |-> TRUE]

Init ==
    /\ parent = Tree
    /\ session = [s \in Sessions |-> Idle]
    /\ unchecked = {} /\ calls = 0

Existing == {e \in Entities : parent[e] # Absent}

\* A call that has loaded e and walks from there.
Walk(at, call, e, next, queue) ==
    [at |-> at, call |-> call, entity |-> e, next |-> next, queue |-> queue,
     visited |-> {e}, read |-> parent[e], alone |-> TRUE]

Starts(s, call) ==
    /\ session[s].at = "idle" /\ calls < MaxCalls
    /\ session' = [session EXCEPT ![s] = call]
    /\ calls' = calls + 1
    /\ UNCHANGED <<parent, unchecked>>

\* What another session committed is seen by the next SELECT.
Disturbed(sessions, by) ==
    [s \in Sessions |-> IF s = by THEN Idle ELSE [sessions[s] EXCEPT !.alone = FALSE]]

-----------------------------------------------------------------------------
(* create_entity_endpoint: the foreign key wants the parent to exist *)

Create(e, p) ==
    /\ e \notin Existing /\ p \in Existing \union {Nobody} /\ calls < MaxCalls
    /\ parent' = [parent EXCEPT ![e] = p]
    /\ session' = Disturbed(session, Nobody)
    /\ calls' = calls + 1
    /\ UNCHANGED unchecked

-----------------------------------------------------------------------------
(* move_entity and update_entity *)

\* A move to the top level looks for no descendants.
StartMove(s) ==
    \E e \in Existing, p \in Existing \union {Nobody} :
        Starts(s, Walk("descending", "move", e, p, IF p = Nobody THEN <<>> ELSE <<e>>))

StartUpdate(s) ==
    \E e \in Existing, p \in Existing \union {Nobody} :
        Starts(s, Walk("descending", "update", e, p, <<>>))

\* Mutant: the children of children are not looked for.
DescendOnce(s) ==
    LET at == session[s]
        found == {c \in Existing : parent[c] = Head(at.queue)} \ at.visited
    IN  /\ at.at = "descending" /\ at.queue # <<>>
        /\ session' = [session EXCEPT ![s].queue = Tail(at.queue),
                                      ![s].visited = @ \union found]
        /\ UNCHANGED <<parent, unchecked, calls>>

\* One SELECT of get_descendants; its rows come in any order.
Descend(s) ==
    LET at == session[s]
        found == {c \in Existing : parent[c] = Head(at.queue)} \ at.visited
    IN  /\ at.at = "descending" /\ at.queue # <<>>
        /\ \E children \in SetToSeqs(found) :
              session' = [session EXCEPT ![s].queue = Tail(at.queue) \o children,
                                         ![s].visited = @ \union found]
        /\ UNCHANGED <<parent, unchecked, calls>>

\* The entity is not one of its own descendants.
Cyclic(s) == session[s].next \in session[s].visited \ {session[s].entity}

Refuse(s) ==
    /\ session[s].at = "descending" /\ session[s].queue = <<>> /\ Cyclic(s)
    /\ session' = [session EXCEPT ![s] = Idle]
    /\ UNCHANGED <<parent, unchecked, calls>>

\* An attribute that is set to the value it was loaded with is not updated.
Updates(s) == session[s].at = "flushed" /\ session[s].next # session[s].read

Flush(s) ==
    /\ session[s].at = "descending" /\ session[s].queue = <<>> /\ ~Cyclic(s)
    /\ session[s].next = session[s].read
       \/ \A other \in Sessions : ~(Updates(other) /\ session[other].entity = session[s].entity)
    /\ session' = [session EXCEPT ![s].at = "flushed"]
    /\ UNCHANGED <<parent, unchecked, calls>>

Unchecked(s) ==
    \/ session[s].call = "update"
    \/ session[s].next = session[s].entity
    \/ ~session[s].alone /\ session[s].next # Nobody

Commit(s) ==
    LET e == session[s].entity IN
    /\ session[s].at = "flushed"
    /\ IF Updates(s)
       THEN /\ parent' = [parent EXCEPT ![e] = session[s].next]
            /\ unchecked' = IF Unchecked(s) THEN unchecked \union {e} ELSE unchecked \ {e}
            /\ session' = Disturbed(session, s)
       ELSE /\ session' = [session EXCEPT ![s] = Idle]
            /\ UNCHANGED <<parent, unchecked>>
    /\ UNCHANGED calls

\* The connection is lost.
Rollback(s) ==
    /\ session[s].at = "flushed"
    /\ session' = [session EXCEPT ![s] = Idle]
    /\ UNCHANGED <<parent, unchecked, calls>>

-----------------------------------------------------------------------------
(* get_ancestors *)

StartClimb(s) ==
    \E e \in Existing :
        Starts(s, Walk("climbing", "ancestors", e, parent[e], <<>>))

\* Mutant: the walk does not remember where it was.
ClimbOn(s) ==
    /\ session[s].at = "climbing"
    /\ session' = IF session[s].next = Nobody THEN [session EXCEPT ![s] = Idle]
                  ELSE [session EXCEPT ![s].next = parent[@]]
    /\ UNCHANGED <<parent, unchecked, calls>>

Climb(s) ==
    LET at == session[s] IN
    /\ at.at = "climbing"
    /\ session' = IF at.next \in at.visited \union {Nobody} THEN [session EXCEPT ![s] = Idle]
                  ELSE [session EXCEPT ![s].visited = @ \union {at.next}, ![s].next = parent[@]]
    /\ UNCHANGED <<parent, unchecked, calls>>

-----------------------------------------------------------------------------
CallStep(s) == Descend(s) \/ Refuse(s) \/ Flush(s) \/ Commit(s) \/ Climb(s)

Next ==
    \/ \E e \in Entities, p \in Entities \union {Nobody} : Create(e, p)
    \/ \E s \in Sessions :
          StartMove(s) \/ StartUpdate(s) \/ StartClimb(s) \/ CallStep(s) \/ Rollback(s)

\* The event loop runs every call; PostgreSQL gives a lock that is released to a waiter.
Fairness == \A s \in Sessions : WF_vars(CallStep(s))

Spec == Init /\ [][Next]_vars /\ Fairness

-----------------------------------------------------------------------------
(* Properties *)

Id == Entities \union {Nobody}

\* A session holds ids, and what it waits in.
TypeOK ==
    /\ parent \in [Entities -> Id \union {Absent}]
    /\ session \in [Sessions ->
          [at : {"idle", "descending", "flushed", "climbing"},
           call : {"none", "move", "update", "ancestors"},
           entity : Id, next : Id, queue : Seq(Entities), visited : SUBSET Entities,
           read : Id, alone : BOOLEAN]]
    /\ unchecked \subseteq Entities
    /\ calls \in Nat

\* The entities above e, e itself among them if it is on a cycle.
Above(e) ==
    LET up[n \in 0..Cardinality(Entities)] ==
            IF n = 0 THEN {e} ELSE {parent[x] : x \in up[n - 1]} \ {Nobody}
    IN  UNION {up[n] : n \in 1..Cardinality(Entities)}

\* Moves keep the tree a tree: on every cycle of entities there is one whose parent was
\* written by the PATCH handler, which checks nothing, by a move of the entity under
\* itself, which the check does not see, or by a move whose check another commit
\* overtook.
CyclesHaveACause ==
    \A e \in Existing : e \in Above(e) => Above(e) \intersect unchecked # {}

\* Every call ends, on a tree with cycles too and while others move entities: the walks
\* up and down remember where they were, and a move waits for at most one row.
EveryCallEnds == \A s \in Sessions : session[s].at # "idle" ~> session[s].at = "idle"
=============================================================================
