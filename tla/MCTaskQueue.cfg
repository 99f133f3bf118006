CONSTANTS
    NULL = NULL
    Nodes = {n1, n2, n3}
    Queues = {q1, q2}
    Stores = {s1, s2}
    Lists = {q1, q2, s1, s2}
    ArrayMax = 3
SPECIFICATION Spec
SYMMETRY Symmetry
INVARIANTS TypeOK Linked
