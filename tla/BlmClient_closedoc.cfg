SPECIFICATION Spec
CONSTANTS
    Keys = {k1, k2, k3}
    Tcps = {p1, p2, p3, p4}
    NoTcp = NoTcp
    NoKey = NoKey
    MaxIps = 2
    Reentrant = {"close"}
    ConnectOutcomes = {"pending"}
    ReadOutcomes = {"part", "msg", "bad", "eof"}
INVARIANT CloseOnlyIfConnected
