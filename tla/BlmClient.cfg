SPECIFICATION FairSpec
CONSTANTS
    Keys = {k1, k2, k3}
    Tcps = {p1, p2, p3, p4}
    NoTcp = NoTcp
    NoKey = NoKey
    MaxIps = 3
    Reentrant = {"conn", "msg", "close"}
    ConnectOutcomes = {"pending", "ok", "error"}
    ReadOutcomes = {"part", "msg", "bad", "eof", "error"}
CHECK_DEADLOCK FALSE
INVARIANTS ObjectsAndKeys KeyRefsExact OneOutcome NoUndefinedBehaviour
PROPERTIES CandidatesResolve
