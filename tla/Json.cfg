SPECIFICATION Spec
CONSTANTS
  Nodes = {n1, n2, n3, n4}
  JsonNames = {"k"}
  Objects = {j1, j2, j3}
  Docs <- MCDocs
  Typed <- MCTyped
  MaxDepth = 2
  NULL = NULL
SYMMETRY JsonSymmetry
CHECK_DEADLOCK FALSE
INVARIANTS TreesOwned TextReadsBack WithinBuffers
