SPECIFICATION Spec
CONSTANTS
    Nodes = {n1, n2, n3}
    Doc = doc
    Null = null
    Values = {v1, v2}
    AttrNames = {a1}
    Leaves = {"text", "cdata", "comment"}
    MaxDropped = 1
SYMMETRY DomSymmetry
CHECK_DEADLOCK FALSE
INVARIANTS TreeIntact PoolsAccounted
