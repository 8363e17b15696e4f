------------------------- MODULE MCEntityHierarchy -------------------------
EXTENDS EntityHierarchy

CONSTANTS a, b, c

\* A company, its subsidiary, and an entity that is created later.
MCTree == [e \in Entities |-> IF e = a THEN Nobody ELSE IF e = b THEN a ELSE Absent]
=============================================================================
