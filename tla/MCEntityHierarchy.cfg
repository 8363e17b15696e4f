CONSTANTS
    a = a
    b = b
    c = c
    Entities = {a, b, c}
    Sessions = {s1, s2}
    Nobody = Nobody
    Absent = Absent
    Tree <- MCTree
    MaxCalls = 3
SPECIFICATION Spec
INVARIANT
    CyclesHaveACause
PROPERTY
    EveryCallEnds
CHECK_DEADLOCK FALSE
