-------------------------- MODULE MCSqliteWrapper --------------------------
EXTENDS SqliteWrapper, TLC

SqliteSymmetry == Permutations(Conns) \cup Permutations(VMs)
                  \cup Permutations(Queries) \cup Permutations(Statements)

\* Left out of a state's identity, since no later call or property can tell:
\* the last exception; the timeouts but for whether the one in force is the
\* one asked for; the members of a query or statement that no call reads while
\* its mpVM is null or finalized, and the user of a VM that has left it; how a
\* VM that is no longer live or a connection that is freed was let go, and
\* whether a connection nobody refers to is sick.  Where Undefined ended the
\* program all else is as in the state before, of which only the verdict of
\* UndefinedOnlyByMisuse is kept.
Relevant ==
    IF ub \in {"null handle", "atoi of null", "sql buffer", "dangling vm"}
    THEN <<ub, UndefinedOnlyByMisuse>>
    ELSE
    <<mpDB, ub, let.pulled # {},
      [v \in VMs |-> <<IF vm[v].user # NULL /\ query[vm[v].user].mpVM = v THEN vm[v]
                       ELSE [vm[v] EXCEPT !.user = NULL],
                       IF vm[v].st = "live" THEN v \in let.assigned
                       ELSE Owners(v) # {} /\ v \in let.pulled>>],
      [c \in Conns |->
         <<IF conn[c].st = "sick" /\ c # mpDB THEN "open" ELSE conn[c].st,
           IF c = mpDB THEN conn[c].timeout = mnBusyTimeoutMs
           ELSE conn[c].st \in {"open", "sick"} /\ c \in let.conns>>],
      [s \in Statements |-> IF stmt[s].mpVM = NULL THEN stmt[s].alive ELSE stmt[s]],
      [q \in Queries |->
         LET r == query[q] IN
         IF r.mpVM = NULL THEN <<r.alive, r.mpDB, r.moved /\ ub # "">>
         ELSE IF Dangling(r.mpVM) THEN <<r.mpVM, r.mpDB, r.mbOwnVM, r.moved /\ ub # "">>
         ELSE [r EXCEPT !.visited = IF vm[r.mpVM].user = q THEN @ ELSE 0]]>>
=============================================================================
