---------------------------- MODULE SqliteWrapper ----------------------------
(***************************************************************************)
(* The CppSQLite3 classes that hold handles of the SQLite library: one     *)
(* CppSQLite3DB, and CppSQLite3Query and CppSQLite3Statement objects that   *)
(* an application constructs, copies, assigns, finalizes and destroys.      *)
(* Connections and virtual machines (prepared statements) live in the       *)
(* library: conn and vm say what is known of each handle.  A VM yields      *)
(* `rows` rows and stands at `pos`: 0 before the first step, rows + 1 once  *)
(* SQLITE_DONE was returned.  Every sqlite3_step may fail.                  *)
(*                                                                          *)
(* A failed step is followed in the same call by sqlite3_reset or           *)
(* sqlite3_finalize, so no VM keeps an error for a later finalize().        *)
(* `ub` names the undefined behaviour that ended the program, "" if none.   *)
(***************************************************************************)
EXTENDS Naturals, FiniteSets

CONSTANTS Conns,        \* handles sqlite3_open may hand out
          VMs,          \* handles sqlite3_prepare may hand out
          Queries,      \* CppSQLite3Query variables of the application
          Statements,   \* CppSQLite3Statement variables of the application
          MaxObjects,   \* bound on the queries and statements alive at once
          MaxRows,      \* bound on the rows of a result
          Timeouts,     \* busy timeouts, the default among them
          NameLens,     \* lengths of table names given to tableExists
          DefaultTimeout,
          NULL,
          GARBAGE       \* an uninitialized pointer

ASSUME SqliteAssumption == /\ MaxRows \in Nat /\ MaxObjects \in Nat
                           /\ DefaultTimeout \in Timeouts
                           /\ NULL \notin Conns \cup VMs \cup Queries
                           /\ GARBAGE \notin Conns \cup {NULL}
                           /\ NameLens \subseteq Nat

VARIABLES mpDB, mnBusyTimeoutMs,   \* the CppSQLite3DB object
          conn, vm,                \* the library's side
          query, stmt,             \* the application's objects
          thrown,                  \* exception of the last call, or "none"
          ub,
          let                      \* history: what was let go, and how

dbvars == <<mpDB, mnBusyTimeoutMs>>
vars == <<mpDB, mnBusyTimeoutMs, conn, vm, query, stmt, thrown, ub, let>>

\* sqlite3*: none, open, sick (sqlite3_open failed) or freed.
ConnState == [st : {"none", "open", "sick", "freed"}, timeout : Timeouts \cup {0}]

\* sqlite3_stmt*.  `user` is the query that alone has stepped it since it
\* stood at 0, NULL when two objects share its position.
VMState == [st : {"none", "live", "final"}, conn : Conns \cup {NULL},
            rows : 0..MaxRows, pos : 0..(MaxRows + 1), user : Queries \cup {NULL}]

\* A Query; `visited` counts the rows it stood on while it was its
\* VM's only user, `moved` tells whether its
\* VM arrived by the copy constructor or operator=.
QueryState == [alive : BOOLEAN, mpVM : VMs \cup {NULL}, mpDB : Conns \cup {GARBAGE},
               mbEof : BOOLEAN, mbOwnVM : BOOLEAN, visited : 0..(MaxRows + 1), moved : BOOLEAN]

StmtState == [alive : BOOLEAN, mpVM : VMs \cup {NULL}, mpDB : Conns \cup {NULL}]

\* VMs lost by assignment over them, VMs finalized by a query that does not
\* own them, connections lost by open over open or by close while busy.
LetGo == [assigned : SUBSET VMs, pulled : SUBSET VMs, conns : SUBSET Conns]

NoConn == [st |-> "none", timeout |-> 0]
NoVM == [st |-> "none", conn |-> NULL, rows |-> 0, pos |-> 0, user |-> NULL]

CppSQLite3Query == [alive |-> TRUE, mpVM |-> NULL, mpDB |-> GARBAGE, mbEof |-> TRUE,
                    mbOwnVM |-> FALSE, visited |-> 0, moved |-> FALSE]

CppSQLite3Statement == [alive |-> TRUE, mpVM |-> NULL, mpDB |-> NULL]

Dead(o) == [o EXCEPT !.alive = FALSE]

Init ==
    /\ mpDB = NULL /\ mnBusyTimeoutMs = DefaultTimeout
    /\ conn = [c \in Conns |-> NoConn]
    /\ vm = [v \in VMs |-> NoVM]
    /\ query = [q \in Queries |-> Dead(CppSQLite3Query)]
    /\ stmt = [s \in Statements |-> Dead(CppSQLite3Statement)]
    /\ thrown = "none" /\ ub = ""
    /\ let = [assigned |-> {}, pulled |-> {}, conns |-> {}]

Throw(e) == thrown' = e /\ UNCHANGED <<mpDB, mnBusyTimeoutMs, conn, vm, query, stmt, ub, let>>

\* The program runs into undefined behaviour.
Undefined(what) == ub' = what /\ UNCHANGED <<mpDB, mnBusyTimeoutMs, conn, vm, query, stmt, thrown, let>>

Returns == thrown' = "none" /\ ub' = ub

Alive(objs) == {o \in DOMAIN objs : objs[o].alive}

-----------------------------------------------------------------------------
(* The library, as the wrapper uses it.                                     *)

\* The position sqlite3_step moves to; past SQLITE_DONE it starts over.
NextPos(m) == IF m.pos > m.rows THEN 1 ELSE m.pos + 1

HasRow(m) == m.pos \in 1..m.rows

\* After sqlite3_step: the next row or the end, or the start if it failed.
\* q is the query that stepped, NULL for a statement's execDML.
Step(m, q, fails) ==
    LET p == IF fails THEN 0 ELSE NextPos(m)
    IN  [m EXCEPT !.pos = p,
                  !.user = IF @ = q THEN q ELSE NULL]

sqlite3_reset(m) == [m EXCEPT !.pos = 0, !.user = NULL]

sqlite3_finalize(m) == [NoVM EXCEPT !.st = "final"]

\* sqlite3_close refuses while a VM of the connection lives.
Busy(c) == \E v \in VMs : vm[v].st = "live" /\ vm[v].conn = c

\* What the library may hand out next.
Fresh(objs) == {o \in DOMAIN objs : objs[o].st = "none"}

-----------------------------------------------------------------------------
(* CppSQLite3DB                                                             *)

setBusyTimeout(c, t, cs) == [cs EXCEPT ![c].timeout = t]

\* open() overwrites mpDB whatever it held.
Open(c, st) ==
    /\ c \in Fresh(conn)
    /\ mpDB' = c
    /\ conn' = IF st = "open" THEN setBusyTimeout(c, mnBusyTimeoutMs, [conn EXCEPT ![c].st = st])
                              ELSE [conn EXCEPT ![c].st = st]
    /\ thrown' = IF st = "open" THEN "none" ELSE "SQLITE"
    /\ let' = [let EXCEPT !.conns = @ \cup ({mpDB} \ {NULL})]
    /\ UNCHANGED <<mnBusyTimeoutMs, vm, query, stmt, ub>>

\* sqlite3_open without memory for a handle sets mpDB to null.
OpenNoMem ==
    /\ mpDB' = NULL /\ thrown' = "SQLITE"
    /\ let' = [let EXCEPT !.conns = @ \cup ({mpDB} \ {NULL})]
    /\ UNCHANGED <<mnBusyTimeoutMs, conn, vm, query, stmt, ub>>

\* close() ignores SQLITE_BUSY and forgets the handle.
CloseDB ==
    /\ mpDB # NULL
    /\ mpDB' = NULL
    /\ conn' = IF Busy(mpDB) THEN conn ELSE [conn EXCEPT ![mpDB] = [NoConn EXCEPT !.st = "freed"]]
    /\ let' = IF Busy(mpDB) THEN [let EXCEPT !.conns = @ \cup {mpDB}] ELSE let
    /\ Returns /\ UNCHANGED <<mnBusyTimeoutMs, vm, query, stmt>>

SetBusyTimeout(t) ==
    IF mpDB = NULL THEN Undefined("null handle")
    ELSE /\ mnBusyTimeoutMs' = t
         /\ conn' = setBusyTimeout(mpDB, t, conn)
         /\ Returns /\ UNCHANGED <<mpDB, vm, query, stmt, let>>

\* lastRowId() and interrupt() use the handle unchecked.
LastRowId == IF mpDB = NULL THEN Undefined("null handle") ELSE Throw("none")

\* checkDB(), and what sqlite3_prepare or sqlite3_exec answer on a sick handle.
CanCompile == mpDB # NULL /\ conn[mpDB].st = "open"

Compiled(rows) == [NoVM EXCEPT !.st = "live", !.conn = mpDB, !.rows = rows]

\* compile(sql) throws, or the first step of execQuery fails and its VM is
\* finalized again; the object meant to receive the result is untouched.
CompileFails == Throw(IF mpDB = NULL THEN "CPPSQLITE" ELSE "SQLITE")

\* execDML(sql) and getTable(sql): run by the library from start to end.
\* Their errors are those of CompileFails.
ExecDML == CanCompile /\ Throw("none")

\* execScalar: its query is local and finalized on return, so no VM remains.
\* The result has no row, or a first field that is NULL or a number.
ExecScalar(result) ==
    /\ CanCompile
    /\ IF result = "null" THEN Undefined("atoi of null")
       ELSE Throw(IF result = "empty" THEN "CPPSQLITE" ELSE "none")

\* tableExists formats its SQL, 65 characters and the name, into szSQL[128].
TableExists(len) ==
    IF 65 + len + 1 > 128 THEN Undefined("sql buffer") ELSE ExecScalar("number")

-----------------------------------------------------------------------------
(* CppSQLite3Query                                                          *)

NewQuery(q) ==
    /\ ~query[q].alive
    /\ query' = [query EXCEPT ![q] = CppSQLite3Query]
    /\ Returns /\ UNCHANGED <<dbvars, conn, vm, stmt, let>>

\* finalize() of query r: the VMs after it.
FinalizeQuery(r, vms) ==
    IF r.mpVM # NULL /\ r.mbOwnVM THEN [vms EXCEPT ![r.mpVM] = sqlite3_finalize(@)] ELSE vms

\* Mutant: an empty result does not set mbEof.
ConstructedNotEof(v, m, own) ==
    [CppSQLite3Query EXCEPT !.mpVM = v, !.mpDB = m.conn, !.mbEof = FALSE, !.mbOwnVM = own,
                            !.visited = IF HasRow(m) THEN 1 ELSE 0]

\* Query(pDB, pVM, bEof, bOwnVM).
Constructed(v, m, own) ==
    [CppSQLite3Query EXCEPT !.mpVM = v, !.mpDB = m.conn, !.mbEof = ~HasRow(m), !.mbOwnVM = own,
                            !.visited = IF HasRow(m) THEN 1 ELSE 0]

\* operator= and the copy constructor take everything but mpDB.
Assigned(r, from) ==
    [from EXCEPT !.alive = TRUE, !.mpDB = r.mpDB, !.moved = TRUE]

\* A query value t arrives in variable q: constructed there, or assigned.
Receive(q, t) == IF query[q].alive THEN Assigned(query[q], t) ELSE t

\* Undefined behaviour of finalizing a VM that is gone.
Dangling(v) == v # NULL /\ vm[v].st = "final"

\* db.execQuery(sql) into q, past the errors of CompileFails and with a step
\* that succeeds.
DBExecQuery(q, v, rows) ==
    /\ CanCompile /\ v \in Fresh(vm)
    /\ IF query[q].mbOwnVM /\ Dangling(query[q].mpVM) THEN Undefined("dangling vm")
       ELSE LET m == [Step(Compiled(rows), q, FALSE) EXCEPT !.user = q]
            IN  /\ vm' = FinalizeQuery(query[q], [vm EXCEPT ![v] = m])
                /\ query' = [query EXCEPT ![q] = Receive(q, Constructed(v, m, TRUE))]
                /\ Returns /\ UNCHANGED <<dbvars, conn, stmt, let>>

\* Compiling SQL without a statement gives a null VM: step and finalize on it
\* return SQLITE_MISUSE and SQLITE_OK, and the exception carries the latter.
DBExecNothing == CanCompile /\ Throw("OK")

\* q = r or Query q(r): only one object keeps the VM.
CopyQuery(q, r) ==
    /\ query[r].alive
    /\ (q = r) => query[q].alive
    /\ IF query[q].mbOwnVM /\ Dangling(query[q].mpVM) THEN Undefined("dangling vm")
       ELSE LET src == IF q = r /\ query[q].mbOwnVM THEN [query[r] EXCEPT !.mpVM = NULL] ELSE query[r]
                t == IF query[q].alive THEN Assigned(query[q], src)
                                       ELSE [src EXCEPT !.mpDB = GARBAGE, !.moved = TRUE]
                vms == FinalizeQuery(query[q], vm)
            IN  /\ vm' = IF src.mpVM = NULL THEN vms
                         ELSE [vms EXCEPT ![src.mpVM].user = IF @ = r THEN q ELSE NULL]
                /\ query' = IF q = r THEN [query EXCEPT ![q] = [t EXCEPT !.mpVM = NULL]]
                            ELSE [query EXCEPT ![q] = t, ![r].mpVM = NULL]
                /\ Returns /\ UNCHANGED <<dbvars, conn, stmt, let>>

\* finalize(), and ~CppSQLite3Query which calls it.
CloseQuery(q, destroyed) ==
    /\ query[q].alive
    /\ IF query[q].mbOwnVM /\ Dangling(query[q].mpVM) THEN Undefined("dangling vm")
       ELSE /\ vm' = FinalizeQuery(query[q], vm)
            /\ query' = [query EXCEPT ![q] = IF destroyed THEN Dead(CppSQLite3Query)
                                             ELSE [query[q] EXCEPT !.mpVM = IF @ # NULL /\ query[q].mbOwnVM THEN NULL ELSE @]]
            /\ Returns /\ UNCHANGED <<dbvars, conn, stmt, let>>

\* The handle sqlite3_errmsg(mpDB) reads when a step of q failed.
ErrmsgOf(r) ==
    IF r.mpDB = GARBAGE THEN "garbage handle"
    ELSE IF conn[r.mpDB].st = "freed" THEN "freed handle" ELSE ""

\* Mutant: mpVM keeps the VM that was finalized.
NextRowKeepsVM(q, fails) ==
    /\ query[q].alive
    /\ LET r == query[q] v == r.mpVM IN
       IF v = NULL THEN Throw("CPPSQLITE")
       ELSE IF Dangling(v) THEN Undefined("dangling vm")
       ELSE /\ vm' = [vm EXCEPT ![v] = IF fails THEN sqlite3_finalize(@) ELSE Step(@, q, FALSE)]
            /\ let' = IF fails /\ ~r.mbOwnVM THEN [let EXCEPT !.pulled = @ \cup {v}] ELSE let
            /\ thrown' = IF fails THEN "SQLITE" ELSE "none"
            /\ ub' = IF fails THEN ErrmsgOf(r) ELSE ""
            /\ UNCHANGED <<dbvars, conn, query, stmt>>

\* nextRow(): a failed step finalizes the VM, owned or not.
NextRow(q, fails) ==
    /\ query[q].alive
    /\ LET r == query[q] v == r.mpVM IN
       IF v = NULL THEN Throw("CPPSQLITE")
       ELSE IF Dangling(v) THEN Undefined("dangling vm")
       ELSE /\ vm' = [vm EXCEPT ![v] = IF fails THEN sqlite3_finalize(@) ELSE Step(@, q, FALSE)]
            /\ query' = [query EXCEPT ![q] =
                 IF fails THEN [r EXCEPT !.mpVM = NULL]
                 ELSE IF HasRow(vm'[v]) THEN [r EXCEPT !.visited = IF vm[v].user # q THEN 0
                                                               ELSE IF r.mbEof THEN @ ELSE @ + 1]
                 ELSE [r EXCEPT !.mbEof = TRUE]]
            /\ let' = IF fails /\ ~r.mbOwnVM THEN [let EXCEPT !.pulled = @ \cup {v}] ELSE let
            /\ thrown' = IF fails THEN "SQLITE" ELSE "none"
            /\ ub' = IF fails THEN ErrmsgOf(r) ELSE ""
            /\ UNCHANGED <<dbvars, conn, stmt>>

\* The accessors of the current row: they check mpVM for null only.
ReadField(q) ==
    /\ query[q].alive
    /\ IF query[q].mpVM = NULL THEN Throw("CPPSQLITE")
       ELSE IF Dangling(query[q].mpVM) THEN Undefined("dangling vm") ELSE Throw("none")

-----------------------------------------------------------------------------
(* CppSQLite3Statement                                                      *)

NewStatement(s) ==
    /\ ~stmt[s].alive
    /\ stmt' = [stmt EXCEPT ![s] = CppSQLite3Statement]
    /\ Returns /\ UNCHANGED <<dbvars, conn, vm, query, let>>

\* operator= drops the VM the target held: it is not finalized.
Overwrites(s) == {stmt[s].mpVM} \ {NULL}

\* db.compileStatement(sql) into s; v = NULL for SQL without a statement.
CompileStatement(s, v, rows) ==
    /\ CanCompile /\ v \in Fresh(vm) \cup {NULL}
    /\ vm' = IF v = NULL THEN vm ELSE [vm EXCEPT ![v] = Compiled(rows)]
    /\ stmt' = [stmt EXCEPT ![s] = [alive |-> TRUE, mpVM |-> v, mpDB |-> mpDB]]
    /\ let' = [let EXCEPT !.assigned = @ \cup Overwrites(s)]
    /\ Returns /\ UNCHANGED <<dbvars, conn, query>>

\* Mutant: both statements keep the VM.
CopyStatementShares(s, t) ==
    /\ stmt[t].alive
    /\ (s = t) => stmt[s].alive
    /\ stmt' = [stmt EXCEPT ![s] = stmt[t]]
    /\ let' = [let EXCEPT !.assigned = @ \cup Overwrites(s)]
    /\ Returns /\ UNCHANGED <<dbvars, conn, vm, query>>

\* s = t or Statement s(t); t = t also loses its VM.
CopyStatement(s, t) ==
    /\ stmt[t].alive
    /\ (s = t) => stmt[s].alive
    /\ stmt' = [stmt EXCEPT ![s] = stmt[t], ![t].mpVM = NULL]
    /\ let' = [let EXCEPT !.assigned = @ \cup Overwrites(s)]
    /\ Returns /\ UNCHANGED <<dbvars, conn, vm, query>>

\* Calls that need the VM: the exception or the undefined behaviour, "" if fine.
Obstacle(s) ==
    IF stmt[s].mpDB = NULL \/ stmt[s].mpVM = NULL THEN "CPPSQLITE"
    ELSE IF Dangling(stmt[s].mpVM) THEN "dangling vm" ELSE ""

\* execDML(): any result but SQLITE_DONE is thrown after a reset; a row gives
\* an exception whose code is the reset's SQLITE_OK.
StatementExecDML(s, fails) ==
    /\ stmt[s].alive
    /\ LET v == stmt[s].mpVM IN
       CASE Obstacle(s) = "CPPSQLITE" -> Throw("CPPSQLITE")
         [] Obstacle(s) = "dangling vm" -> Undefined("dangling vm")
         [] OTHER -> /\ vm' = [vm EXCEPT ![v] = sqlite3_reset(Step(@, NULL, fails))]
                     /\ thrown' = IF fails THEN "SQLITE"
                                  ELSE IF HasRow(Step(vm[v], NULL, FALSE)) THEN "OK" ELSE "none"
                     /\ UNCHANGED <<dbvars, conn, query, stmt, ub, let>>

\* execQuery(): steps from where the VM stands and shares it with q.
StatementExecQuery(s, q, fails) ==
    /\ stmt[s].alive
    /\ LET v == stmt[s].mpVM IN
       CASE Obstacle(s) = "CPPSQLITE" -> Throw("CPPSQLITE")
         [] Obstacle(s) = "dangling vm" -> Undefined("dangling vm")
         [] OTHER ->
            LET m == Step(vm[v], q, FALSE)
            IN  IF fails
                THEN /\ vm' = [vm EXCEPT ![v] = sqlite3_reset(@)] /\ thrown' = "SQLITE"
                     /\ UNCHANGED <<dbvars, conn, query, stmt, ub, let>>
                ELSE IF query[q].mbOwnVM /\ Dangling(query[q].mpVM) THEN Undefined("dangling vm")
                ELSE /\ vm' = FinalizeQuery(query[q], [vm EXCEPT ![v] =
                                 [m EXCEPT !.user = IF vm[v].pos = 0 THEN q ELSE NULL]])
                     /\ query' = [query EXCEPT ![q] = Receive(q,
                                    [Constructed(v, m, FALSE) EXCEPT !.mpDB = stmt[s].mpDB])]
                     /\ Returns /\ UNCHANGED <<dbvars, conn, stmt, let>>

\* bind() and bindNull(): SQLite takes a value only before the first step.
Bind(s) ==
    /\ stmt[s].alive
    /\ IF stmt[s].mpVM = NULL THEN Throw("CPPSQLITE")
       ELSE IF Dangling(stmt[s].mpVM) THEN Undefined("dangling vm")
       ELSE Throw(IF vm[stmt[s].mpVM].pos = 0 THEN "none" ELSE "SQLITE")

ResetStatement(s) ==
    /\ stmt[s].alive
    /\ IF stmt[s].mpVM = NULL THEN Throw("none")
       ELSE IF Dangling(stmt[s].mpVM) THEN Undefined("dangling vm")
       ELSE /\ vm' = [vm EXCEPT ![stmt[s].mpVM] = sqlite3_reset(@)]
            /\ Returns /\ UNCHANGED <<dbvars, conn, query, stmt, let>>

\* finalize(), and ~CppSQLite3Statement which calls it.
CloseStatement(s, destroyed) ==
    /\ stmt[s].alive
    /\ IF Dangling(stmt[s].mpVM) THEN Undefined("dangling vm")
       ELSE /\ vm' = IF stmt[s].mpVM = NULL THEN vm
                     ELSE [vm EXCEPT ![stmt[s].mpVM] = sqlite3_finalize(@)]
            /\ stmt' = [stmt EXCEPT ![s] = IF destroyed THEN Dead(CppSQLite3Statement)
                                           ELSE [@ EXCEPT !.mpVM = NULL]]
            /\ Returns /\ UNCHANGED <<dbvars, conn, query, let>>

-----------------------------------------------------------------------------
Calls ==
    \/ \E c \in Conns, st \in {"open", "sick"} : Open(c, st)
    \/ OpenNoMem
    \/ CloseDB
    \/ \E t \in Timeouts : SetBusyTimeout(t)
    \/ LastRowId
    \/ CompileFails
    \/ ExecDML
    \/ \E result \in {"empty", "null", "number"} : ExecScalar(result)
    \/ \E len \in NameLens : TableExists(len)
    \/ DBExecNothing
    \/ \E q \in Queries :
          \/ NewQuery(q)
          \/ \E v \in VMs, rows \in 0..MaxRows : DBExecQuery(q, v, rows)
          \/ \E r \in Queries : CopyQuery(q, r)
          \/ \E destroyed \in BOOLEAN : CloseQuery(q, destroyed)
          \/ \E fails \in BOOLEAN : NextRow(q, fails)
          \/ ReadField(q)
    \/ \E s \in Statements :
          \/ NewStatement(s)
          \/ \E v \in VMs, rows \in 0..MaxRows : CompileStatement(s, v, rows)
          \/ CompileStatement(s, NULL, 0)
          \/ \E t \in Statements : CopyStatement(s, t)
          \/ \E destroyed \in BOOLEAN : CloseStatement(s, destroyed)
          \/ \E fails \in BOOLEAN : StatementExecDML(s, fails)
          \/ \E q \in Queries, fails \in BOOLEAN : StatementExecQuery(s, q, fails)
          \/ Bind(s)
          \/ ResetStatement(s)

Next == /\ ub = "" /\ Calls
        /\ Cardinality(Alive(query')) + Cardinality(Alive(stmt')) <= MaxObjects

Spec == Init /\ [][Next]_vars

-----------------------------------------------------------------------------
(* Properties                                                               *)

\* Types of the wrapper's members and of the library's handles.
TypeOK ==
    /\ mpDB \in Conns \cup {NULL} /\ mnBusyTimeoutMs \in Timeouts
    /\ conn \in [Conns -> ConnState] /\ vm \in [VMs -> VMState]
    /\ query \in [Queries -> QueryState] /\ stmt \in [Statements -> StmtState]
    /\ thrown \in {"none", "OK", "SQLITE", "CPPSQLITE"}
    /\ let \in LetGo

\* The objects whose finalize() releases v.
Owners(v) == {q \in Queries : query[q].mpVM = v /\ query[q].mbOwnVM}
             \cup {s \in Statements : stmt[s].mpVM = v}

\* "Only one object can own the VM" (CppSQLite3.cpp:278, 321, 874, 902):
\* however queries and statements are copied, assigned and shared, no VM is
\* reachable from two objects that would both finalize it.
OneOwner == \A v \in VMs : Cardinality(Owners(v)) <= 1

\* An owner's VM is live, so that its destructor releases it once, unless a
\* query made by the statement's execQuery failed in nextRow(), which
\* finalizes the VM it does not own.
OwnersPointToLive ==
    \A v \in VMs : Owners(v) # {} => vm[v].st = "live" \/ v \in let.pulled

\* No VM is leaked except the one a statement held when another was assigned
\* to it: every other path hands it on or finalizes it, failed calls included.
VMsAccounted == \A v \in VMs : vm[v].st = "live" => Owners(v) # {} \/ v \in let.assigned

\* A connection is left open only by open() over an open database or by
\* close() while a query or statement was unfinished.
ConnectionsAccounted ==
    \A c \in Conns : conn[c].st \in {"open", "sick"} => c = mpDB \/ c \in let.conns

\* Whoever can step a VM can also read the error of its connection: the
\* mpDB beside the mpVM is that connection, and it has not been freed.  Only
\* queries that got their VM by copy or assignment have another mpDB.
ErrorHandleValid ==
    /\ \A s \in Statements : stmt[s].mpVM # NULL /\ vm[stmt[s].mpVM].st = "live"
          => stmt[s].mpDB = vm[stmt[s].mpVM].conn /\ conn[stmt[s].mpDB].st = "open"
    /\ \A q \in Queries : query[q].mpVM # NULL /\ vm[query[q].mpVM].st = "live" /\ ~query[q].moved
          => query[q].mpDB = vm[query[q].mpVM].conn /\ conn[query[q].mpDB].st = "open"

\* A loop `while (!q.eof()) q.nextRow()` stands on every row once and in
\* order, also when q is copied or assigned on the way, as long as q alone
\* steps its VM and its execution started before the first row.
EveryRowOnce ==
    \A q \in Queries : LET r == query[q] IN
        r.mpVM # NULL /\ vm[r.mpVM].st = "live" /\ vm[r.mpVM].user = q
          => r.visited = IF r.mbEof THEN vm[r.mpVM].rows ELSE vm[r.mpVM].pos

\* The busy timeout asked for is in force on the open connection, also on
\* the connection of a later open().
TimeoutInForce == mpDB # NULL /\ conn[mpDB].st = "open" => conn[mpDB].timeout = mnBusyTimeoutMs

\* A freed or uninitialized handle is read only for the error text of a
\* query that got its VM by copy or assignment; a finalized VM is used only
\* through a query that shares it or after such a query failed.
UndefinedOnlyByMisuse ==
    /\ ub \in {"garbage handle", "freed handle"} => \E q \in Queries : query[q].moved
    /\ ub = "dangling vm" => \/ let.pulled # {}
                             \/ \E q \in Queries : Dangling(query[q].mpVM) /\ ~query[q].mbOwnVM

\* Who holds which handle: every VM and every connection has one owner that
\* releases it, or was let go in one of the named ways, the handles an error
\* is read from are valid, and the connection has the timeout asked for.
HandlesAccounted ==
    /\ TypeOK
    /\ OneOwner /\ OwnersPointToLive /\ VMsAccounted
    /\ ConnectionsAccounted /\ TimeoutInForce
    /\ ErrorHandleValid
=============================================================================
