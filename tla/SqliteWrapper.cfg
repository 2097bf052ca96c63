SPECIFICATION Spec
CONSTANTS
  Conns = {c1, c2}
  VMs = {v1, v2}
  Queries = {q1, q2}
  Statements = {s1, s2}
  MaxObjects = 3
  MaxRows = 1
  Timeouts = {0, 60000}
  DefaultTimeout = 60000
  NameLens = {62, 63}
  NULL = NULL
  GARBAGE = GARBAGE
VIEW Relevant
SYMMETRY SqliteSymmetry
CHECK_DEADLOCK FALSE
INVARIANTS HandlesAccounted  UndefinedOnlyByMisuse
