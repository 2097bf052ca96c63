SPECIFICATION Spec
CONSTANTS
  Objs = {o1, o2}
  MsgTypes = {m1}
  Requests = {r1}
  MaxCallbacks = 3
  MaxChunks = 1
CHECK_DEADLOCK FALSE
INVARIANTS WalkExact ListsKept
 
