------------------------- MODULE SqliteWrapperProofs -------------------------
(* Theorems about SqliteWrapper, for every number of connections, VMs,       *)
(* queries, statements and rows.                                             *)
EXTENDS SqliteWrapper, FiniteSetTheorems, TLAPS

\* The VM that finalize() of the query r releases.
OwnVM(r) == IF r.mbOwnVM THEN r.mpVM ELSE NULL

\* Who releases which VM, which VM a query steps, which one a statement holds,
\* and what became of each VM.
own == [q \in Queries |-> OwnVM(query[q])]
held == [q \in Queries |-> query[q].mpVM]
kept == [s \in Statements |-> stmt[s].mpVM]
life == [v \in VMs |-> vm[v].st]

-----------------------------------------------------------------------------
(* The inductive invariant                                                   *)

\* No VM has two objects that release it.
OwnersApart(o, k) ==
    /\ \A p, q \in Queries : o[p] # NULL /\ o[p] = o[q] => p = q
    /\ \A s, t \in Statements : k[s] # NULL /\ k[s] = k[t] => s = t
    /\ \A q \in Queries, s \in Statements : o[q] # NULL => o[q] # k[s]

\* What an object releases is live, or a query that did not own it has
\* finalized it.
OwnersLive(o, k, l, pulled) ==
    /\ \A q \in Queries : o[q] # NULL => l[o[q]] = "live" \/ o[q] \in pulled
    /\ \A s \in Statements : k[s] # NULL => l[k[s]] = "live" \/ k[s] \in pulled

\* What is live has an object that releases it, or was assigned over.
LiveOwned(o, k, l, assigned) ==
    \A v \in VMs : l[v] = "live" =>
        \/ v \in assigned
        \/ \E q \in Queries : o[q] = v
        \/ \E s \in Statements : k[s] = v

\* Objects point to VMs the library has handed out, and a query releases no
\* other VM than the one it steps.
HandlesGiven(o, h, k, l) ==
    /\ \A q \in Queries : h[q] # NULL => l[h[q]] # "none"
    /\ \A s \in Statements : k[s] # NULL => l[k[s]] # "none"
    /\ \A q \in Queries : o[q] # NULL => o[q] = h[q]

Accounted(o, h, k, l, assigned, pulled) ==
    /\ OwnersApart(o, k)
    /\ OwnersLive(o, k, l, pulled)
    /\ LiveOwned(o, k, l, assigned)
    /\ HandlesGiven(o, h, k, l)

\* A destroyed object holds no VM.
DeadHoldNothing ==
    /\ \A q \in Queries : query[q].mpVM # NULL => query[q].alive
    /\ \A s \in Statements : stmt[s].mpVM # NULL => stmt[s].alive

\* The connection of a live VM is open: close() leaves it so.
VMsOfOpen ==
    \A v \in VMs : vm[v].st = "live" => vm[v].conn \in Conns /\ conn[vm[v].conn].st = "open"

\* The database object holds no handle that was freed.
DBHandle == mpDB # NULL => conn[mpDB].st \in {"open", "sick"}

\* The query r has visited every row of its VM m up to where m stands.
InStep(r, m) ==
    IF r.mbEof THEN r.visited = m.rows ELSE r.visited = m.pos /\ m.pos \in 1..m.rows

RowsInStep ==
    \A q \in Queries :
        query[q].mpVM # NULL /\ vm[query[q].mpVM].st = "live" /\ vm[query[q].mpVM].user = q
            => InStep(query[q], vm[query[q].mpVM])

\* The handle an error is read from is that of the VM.
MPDBs ==
    /\ \A s \in Statements : stmt[s].mpVM # NULL /\ vm[stmt[s].mpVM].st = "live"
          => stmt[s].mpDB = vm[stmt[s].mpVM].conn
    /\ \A q \in Queries : query[q].mpVM # NULL /\ vm[query[q].mpVM].st = "live"
          => query[q].moved \/ query[q].mpDB = vm[query[q].mpVM].conn

IInv ==
    /\ TypeOK
    /\ Accounted(own, held, kept, life, let.assigned, let.pulled)
    /\ DeadHoldNothing
    /\ VMsOfOpen
    /\ DBHandle
    /\ MPDBs
    /\ RowsInStep
    /\ ConnectionsAccounted
    /\ TimeoutInForce
    /\ UndefinedOnlyByMisuse

-----------------------------------------------------------------------------
(* Ownership, on functions from objects to VMs                               *)

Ptr == VMs \cup {NULL}
Lives == {"none", "live", "final"}

\* What becomes of the VMs when x is finalized.
Finalized(l, x) == [w \in VMs |-> IF w = x THEN "final" ELSE l[w]]

\* ... and when the library hands out x, which may be null.
HandedOut(l, x) == [w \in VMs |-> IF w = x THEN "live" ELSE l[w]]

(* Lemma: a query that does not own what it steps from now on releases the   *)
(* VM it owned: finalize(), the destructor and the result of                 *)
(* CppSQLite3Statement::execQuery.                                           *)
LEMMA ReleasedByQuery ==
    ASSUME NEW o \in [Queries -> Ptr], NEW h \in [Queries -> Ptr], NEW k \in [Statements -> Ptr],
           NEW l \in [VMs -> Lives], NEW assigned \in SUBSET VMs, NEW pulled \in SUBSET VMs,
           NEW q \in Queries, NEW x \in Ptr,
           Accounted(o, h, k, l, assigned, pulled),
           x # NULL => l[x] # "none"
    PROVE  Accounted([o EXCEPT ![q] = NULL], [h EXCEPT ![q] = x], k, Finalized(l, o[q]), assigned, pulled)
<1> DEFINE o2 == [o EXCEPT ![q] = NULL]
           h2 == [h EXCEPT ![q] = x]
           l2 == Finalized(l, o[q])
<1>0. NULL \notin VMs
  BY SqliteAssumption
<1>1. OwnersApart(o2, k)
  BY DEF Accounted, OwnersApart
<1>2. OwnersLive(o2, k, l2, pulled)
  BY <1>0 DEF Accounted, OwnersApart, OwnersLive, Finalized, Ptr
<1>3. LiveOwned(o2, k, l2, assigned)
  BY <1>0 DEF Accounted, LiveOwned, Finalized, Ptr
<1>4. HandlesGiven(o2, h2, k, l2)
  BY <1>0 DEF Accounted, HandlesGiven, Finalized, Ptr
<1> QED
  BY <1>1, <1>2, <1>3, <1>4 DEF Accounted

(* Lemma: a new VM goes to a query, which releases the one it owned          *)
(* (CppSQLite3DB::execQuery).                                                *)
LEMMA GivenToQuery ==
    ASSUME NEW o \in [Queries -> Ptr], NEW h \in [Queries -> Ptr], NEW k \in [Statements -> Ptr],
           NEW l \in [VMs -> Lives], NEW assigned \in SUBSET VMs, NEW pulled \in SUBSET VMs,
           NEW q \in Queries, NEW v \in VMs,
           Accounted(o, h, k, l, assigned, pulled),
           l[v] = "none"
    PROVE  Accounted([o EXCEPT ![q] = v], [h EXCEPT ![q] = v], k,
                     Finalized([l EXCEPT ![v] = "live"], o[q]), assigned, pulled)
<1> DEFINE o2 == [o EXCEPT ![q] = v]
           h2 == [h EXCEPT ![q] = v]
           l2 == Finalized([l EXCEPT ![v] = "live"], o[q])
<1>0. NULL \notin VMs
  BY SqliteAssumption
<1>a. \A p \in Queries : o[p] # v
  BY <1>0 DEF Accounted, HandlesGiven, Ptr
<1>b. \A s \in Statements : k[s] # v
  BY <1>0 DEF Accounted, HandlesGiven, Ptr
<1>1. OwnersApart(o2, k)
  BY <1>a, <1>b DEF Accounted, OwnersApart
<1>2. OwnersLive(o2, k, l2, pulled)
  BY <1>0, <1>a, <1>b DEF Accounted, OwnersApart, OwnersLive, Finalized, Ptr
<1>3. LiveOwned(o2, k, l2, assigned)
  BY <1>0, <1>a DEF Accounted, LiveOwned, Finalized, Ptr
<1>4. HandlesGiven(o2, h2, k, l2)
  BY <1>0 DEF Accounted, HandlesGiven, Finalized, Ptr
<1> QED
  BY <1>1, <1>2, <1>3, <1>4 DEF Accounted

(* Lemma: a query takes over what another has, and releases the VM it owned  *)
(* (operator= and the copy constructor).                                     *)
LEMMA MovedToQuery ==
    ASSUME NEW o \in [Queries -> Ptr], NEW h \in [Queries -> Ptr], NEW k \in [Statements -> Ptr],
           NEW l \in [VMs -> Lives], NEW assigned \in SUBSET VMs, NEW pulled \in SUBSET VMs,
           NEW q \in Queries, NEW r \in Queries, q # r,
           Accounted(o, h, k, l, assigned, pulled)
    PROVE  Accounted([o EXCEPT ![q] = o[r], ![r] = NULL], [h EXCEPT ![q] = h[r], ![r] = NULL], k,
                     Finalized(l, o[q]), assigned, pulled)
<1> DEFINE o2 == [o EXCEPT ![q] = o[r], ![r] = NULL]
           h2 == [h EXCEPT ![q] = h[r], ![r] = NULL]
           l2 == Finalized(l, o[q])
<1>0. NULL \notin VMs
  BY SqliteAssumption
<1>a. \A p \in Queries : o2[p] = IF p = r THEN NULL ELSE IF p = q THEN o[r] ELSE o[p]
  OBVIOUS
<1>b. \A p \in Queries : h2[p] = IF p = r THEN NULL ELSE IF p = q THEN h[r] ELSE h[p]
  OBVIOUS
<1> HIDE DEF o2, h2
<1>1. OwnersApart(o2, k)
  BY <1>a DEF Accounted, OwnersApart
<1>2. OwnersLive(o2, k, l2, pulled)
  BY <1>0, <1>a DEF Accounted, OwnersApart, OwnersLive, Finalized, Ptr
<1>3. LiveOwned(o2, k, l2, assigned)
  BY <1>0, <1>a DEF Accounted, LiveOwned, Finalized, Ptr
<1>4. HandlesGiven(o2, h2, k, l2)
  BY <1>0, <1>a, <1>b DEF Accounted, HandlesGiven, Finalized, Ptr
<1> QED
  BY <1>1, <1>2, <1>3, <1>4 DEF Accounted, o2, h2

(* Lemma: a query finalizes a VM it does not own (the error path of          *)
(* CppSQLite3Query::nextRow).                                                *)
LEMMA PulledByQuery ==
    ASSUME NEW o \in [Queries -> Ptr], NEW h \in [Queries -> Ptr], NEW k \in [Statements -> Ptr],
           NEW l \in [VMs -> Lives], NEW assigned \in SUBSET VMs, NEW pulled \in SUBSET VMs,
           NEW q \in Queries, NEW v \in VMs,
           Accounted(o, h, k, l, assigned, pulled), o[q] = NULL
    PROVE  Accounted(o, [h EXCEPT ![q] = NULL], k, Finalized(l, v), assigned, pulled \cup {v})
<1> DEFINE h2 == [h EXCEPT ![q] = NULL]
           l2 == Finalized(l, v)
<1>0. NULL \notin VMs
  BY SqliteAssumption
<1>1. OwnersApart(o, k)
  BY DEF Accounted
<1>2. OwnersLive(o, k, l2, pulled \cup {v})
  BY <1>0 DEF Accounted, OwnersLive, Finalized, Ptr
<1>3. LiveOwned(o, k, l2, assigned)
  BY <1>0 DEF Accounted, LiveOwned, Finalized, Ptr
<1>4. HandlesGiven(o, h2, k, l2)
  BY <1>0 DEF Accounted, HandlesGiven, Finalized, Ptr
<1> QED
  BY <1>1, <1>2, <1>3, <1>4 DEF Accounted

(* Lemma: a new VM, or none, goes to a statement, which forgets the one it   *)
(* held (CppSQLite3DB::compileStatement).                                    *)
LEMMA GivenToStatement ==
    ASSUME NEW o \in [Queries -> Ptr], NEW h \in [Queries -> Ptr], NEW k \in [Statements -> Ptr],
           NEW l \in [VMs -> Lives], NEW assigned \in SUBSET VMs, NEW pulled \in SUBSET VMs,
           NEW s \in Statements, NEW v \in Ptr,
           Accounted(o, h, k, l, assigned, pulled),
           v # NULL => l[v] = "none"
    PROVE  Accounted(o, h, [k EXCEPT ![s] = v], HandedOut(l, v),
                     assigned \cup ({k[s]} \ {NULL}), pulled)
<1> DEFINE k2 == [k EXCEPT ![s] = v]
           l2 == HandedOut(l, v)
<1>0. NULL \notin VMs
  BY SqliteAssumption
<1>a. \A p \in Queries : o[p] # NULL => o[p] # v
  BY <1>0 DEF Accounted, HandlesGiven, Ptr
<1>b. \A t \in Statements : k[t] # NULL => k[t] # v
  BY <1>0 DEF Accounted, HandlesGiven, Ptr
<1>1. OwnersApart(o, k2)
  BY <1>a, <1>b DEF Accounted, OwnersApart
<1>2. OwnersLive(o, k2, l2, pulled)
  BY <1>0 DEF Accounted, OwnersLive, Ptr, HandedOut
<1>3. LiveOwned(o, k2, l2, assigned \cup ({k[s]} \ {NULL}))
  BY <1>0 DEF Accounted, LiveOwned, Ptr, HandedOut
<1>4. HandlesGiven(o, h, k2, l2)
  BY <1>0 DEF Accounted, HandlesGiven, Ptr, HandedOut
<1> QED
  BY <1>1, <1>2, <1>3, <1>4 DEF Accounted

(* Lemma: a statement takes over the VM of another, or loses its own when    *)
(* assigned to itself (CppSQLite3Statement::operator=, copy constructor).    *)
LEMMA MovedToStatement ==
    ASSUME NEW o \in [Queries -> Ptr], NEW h \in [Queries -> Ptr], NEW k \in [Statements -> Ptr],
           NEW l \in [VMs -> Lives], NEW assigned \in SUBSET VMs, NEW pulled \in SUBSET VMs,
           NEW s \in Statements, NEW t \in Statements,
           Accounted(o, h, k, l, assigned, pulled)
    PROVE  Accounted(o, h, [k EXCEPT ![s] = k[t], ![t] = NULL], l, assigned \cup ({k[s]} \ {NULL}), pulled)
<1> DEFINE k2 == [k EXCEPT ![s] = k[t], ![t] = NULL]
<1>0. NULL \notin VMs
  BY SqliteAssumption
<1>a. \A u \in Statements : k2[u] = IF u = t THEN NULL ELSE IF u = s THEN k[t] ELSE k[u]
  OBVIOUS
<1> HIDE DEF k2
<1>1. OwnersApart(o, k2)
  BY <1>a DEF Accounted, OwnersApart
<1>2. OwnersLive(o, k2, l, pulled)
  BY <1>a DEF Accounted, OwnersLive
<1>3. LiveOwned(o, k2, l, assigned \cup ({k[s]} \ {NULL}))
  BY <1>0, <1>a DEF Accounted, LiveOwned, Ptr
<1>4. HandlesGiven(o, h, k2, l)
  BY <1>a DEF Accounted, HandlesGiven
<1> QED
  BY <1>1, <1>2, <1>3, <1>4 DEF Accounted, k2

(* Lemma: a statement releases its VM (finalize() and the destructor).       *)
LEMMA ReleasedByStatement ==
    ASSUME NEW o \in [Queries -> Ptr], NEW h \in [Queries -> Ptr], NEW k \in [Statements -> Ptr],
           NEW l \in [VMs -> Lives], NEW assigned \in SUBSET VMs, NEW pulled \in SUBSET VMs,
           NEW s \in Statements,
           Accounted(o, h, k, l, assigned, pulled)
    PROVE  Accounted(o, h, [k EXCEPT ![s] = NULL], Finalized(l, k[s]), assigned, pulled)
<1> DEFINE k2 == [k EXCEPT ![s] = NULL]
           l2 == Finalized(l, k[s])
<1>0. NULL \notin VMs
  BY SqliteAssumption
<1>1. OwnersApart(o, k2)
  BY DEF Accounted, OwnersApart
<1>2. OwnersLive(o, k2, l2, pulled)
  BY <1>0 DEF Accounted, OwnersApart, OwnersLive, Finalized, Ptr
<1>3. LiveOwned(o, k2, l2, assigned)
  BY <1>0 DEF Accounted, LiveOwned, Finalized, Ptr
<1>4. HandlesGiven(o, h, k2, l2)
  BY <1>0 DEF Accounted, HandlesGiven, Finalized, Ptr
<1> QED
  BY <1>1, <1>2, <1>3, <1>4 DEF Accounted

-----------------------------------------------------------------------------
(* Records of the library and of the objects                                 *)

(* Lemma: the first numbers are within the bounds.                           *)
LEMMA Bounds ==
    /\ 0 \in 0..(MaxRows + 1) /\ 1 \in 0..(MaxRows + 1) /\ 0 \in 0..MaxRows
    /\ \A n \in 0..MaxRows : n \in Nat
BY SqliteAssumption

(* Lemma: what the library's calls make of a VM.                             *)
LEMMA VMRecords ==
    ASSUME NEW m \in VMState, NEW u \in Queries \cup {NULL}, NEW fails \in BOOLEAN
    PROVE  /\ Step(m, u, fails) \in VMState /\ Step(m, u, fails).st = m.st
           /\ Step(m, u, fails).conn = m.conn /\ Step(m, u, fails).rows = m.rows
           /\ Step(m, u, FALSE).pos = NextPos(m)
           /\ Step(m, u, fails).user = IF m.user = u THEN u ELSE NULL
           /\ sqlite3_reset(m) \in VMState /\ sqlite3_reset(m).st = m.st
           /\ sqlite3_reset(m).conn = m.conn /\ sqlite3_reset(m).user = NULL
           /\ sqlite3_finalize(m) \in VMState /\ sqlite3_finalize(m).st = "final"
<1>1. NextPos(m) \in 0..(MaxRows + 1)
  BY SqliteAssumption DEF NextPos, VMState
<1>2. 0 \in 0..(MaxRows + 1) /\ 0 \in 0..MaxRows
  BY SqliteAssumption
<1> QED
  BY <1>1, <1>2 DEF Step, sqlite3_reset, sqlite3_finalize, NoVM, VMState

(* Lemma: the first step of a VM leads to 1.                                 *)
LEMMA FirstStep ==
    ASSUME NEW m \in VMState, m.pos = 0
    PROVE  NextPos(m) = 1
<1>1. m.rows \in Nat
  BY Bounds DEF VMState
<1> QED
  BY <1>1 DEF NextPos

(* Lemma: a query that finds its VM's first row, or no row.                  *)
LEMMA ConstructedRecord ==
    ASSUME NEW v \in VMs, NEW m \in VMState, NEW owns \in BOOLEAN, m.conn \in Conns
    PROVE  /\ Constructed(v, m, owns) \in QueryState
           /\ Constructed(v, m, owns).alive
           /\ Constructed(v, m, owns).mpVM = v
           /\ Constructed(v, m, owns).mpDB = m.conn
           /\ OwnVM(Constructed(v, m, TRUE)) = v
           /\ OwnVM(Constructed(v, m, FALSE)) = NULL
           /\ m.pos = 1 => InStep(Constructed(v, m, owns), m)
<1>1. HasRow(m) \in BOOLEAN /\ 0 \in 0..(MaxRows + 1) /\ 1 \in 0..(MaxRows + 1)
  BY SqliteAssumption DEF HasRow
<1>2. Constructed(v, m, owns) \in QueryState
  BY <1>1 DEF Constructed, CppSQLite3Query, QueryState
<1>3. m.pos = 1 => InStep(Constructed(v, m, owns), m)
  <2>1. CASE HasRow(m)
    BY <2>1 DEF Constructed, CppSQLite3Query, InStep, HasRow
  <2>2. CASE ~HasRow(m)
    <3>1. m.pos = 1 => m.rows = 0
      BY <2>2 DEF HasRow, VMState
    <3> QED
      BY <2>2, <3>1 DEF Constructed, CppSQLite3Query, InStep
  <2> QED
    BY <2>1, <2>2
<1> QED
  BY <1>2, <1>3 DEF Constructed, CppSQLite3Query, OwnVM

\* x has the VM of t, owns it if t does, and has seen the rows t has.
TakesAfter(x, t) ==
    /\ x.mpVM = t.mpVM
    /\ OwnVM(x) = OwnVM(t)
    /\ \A m \in VMState : InStep(t, m) => InStep(x, m)

\* A query constructed as a copy of t.
CopyOf(t) == [t EXCEPT !.mpDB = GARBAGE, !.moved = TRUE]

(* Lemma: what a query is after an assignment, and after a copy.             *)
LEMMA AssignedRecord ==
    ASSUME NEW r \in QueryState, NEW t \in QueryState
    PROVE  /\ Assigned(r, t) \in QueryState
           /\ Assigned(r, t).alive /\ Assigned(r, t).moved
           /\ TakesAfter(Assigned(r, t), t)
           /\ CopyOf(t) \in QueryState
           /\ (t.alive => CopyOf(t).alive) /\ CopyOf(t).moved
           /\ TakesAfter(CopyOf(t), t)
<1>1. Assigned(r, t) \in QueryState /\ CopyOf(t) \in QueryState
  BY DEF Assigned, CopyOf, QueryState
<1>2. Assigned(r, t).alive /\ Assigned(r, t).moved /\ (t.alive => CopyOf(t).alive) /\ CopyOf(t).moved
  BY DEF Assigned, CopyOf, QueryState
<1>3. TakesAfter(Assigned(r, t), t)
  BY DEF Assigned, QueryState, TakesAfter, OwnVM, InStep
<1>4. TakesAfter(CopyOf(t), t)
  BY DEF CopyOf, QueryState, TakesAfter, OwnVM, InStep
<1> QED
  BY <1>1, <1>2, <1>3, <1>4

(* Lemma: a query without a VM.                                              *)
LEMMA EmptyRecords ==
    ASSUME NEW r \in QueryState
    PROVE  /\ [r EXCEPT !.mpVM = NULL] \in QueryState
           /\ [r EXCEPT !.mpVM = NULL].mpVM = NULL
           /\ OwnVM([r EXCEPT !.mpVM = NULL]) = NULL
           /\ CppSQLite3Query \in QueryState /\ Dead(CppSQLite3Query) \in QueryState
           /\ CppSQLite3Query.mpVM = NULL /\ Dead(CppSQLite3Query).mpVM = NULL
           /\ OwnVM(CppSQLite3Query) = NULL /\ OwnVM(Dead(CppSQLite3Query)) = NULL
<1>1. 0 \in 0..(MaxRows + 1)
  BY SqliteAssumption
<1>2. [r EXCEPT !.mpVM = NULL] \in QueryState
  BY DEF QueryState
<1>3. CppSQLite3Query \in QueryState /\ Dead(CppSQLite3Query) \in QueryState
  BY <1>1 DEF QueryState, CppSQLite3Query, Dead
<1>4. [r EXCEPT !.mpVM = NULL].mpVM = NULL /\ OwnVM([r EXCEPT !.mpVM = NULL]) = NULL
  BY DEF QueryState, OwnVM
<1> QED
  BY <1>2, <1>3, <1>4 DEF OwnVM, CppSQLite3Query, Dead

(* Lemma: types of the projections.                                          *)
LEMMA ProjectionTypes ==
    ASSUME TypeOK
    PROVE  /\ own \in [Queries -> Ptr] /\ held \in [Queries -> Ptr]
           /\ kept \in [Statements -> Ptr] /\ life \in [VMs -> Lives]
           /\ let.assigned \in SUBSET VMs /\ let.pulled \in SUBSET VMs /\ let.conns \in SUBSET Conns
BY DEF TypeOK, QueryState, StmtState, VMState, LetGo, own, held, kept, life, OwnVM, Ptr, Lives

(* Lemma: the projections after a change of one query, or of one statement.  *)
LEMMA QueryChanged ==
    ASSUME TypeOK, NEW q \in Queries, NEW x, query' = [query EXCEPT ![q] = x]
    PROVE  own' = [own EXCEPT ![q] = OwnVM(x)] /\ held' = [held EXCEPT ![q] = x.mpVM]
<1>1. \A p \in Queries : query'[p] = IF p = q THEN x ELSE query[p]
  BY DEF TypeOK
<1>2. own' = [p \in Queries |-> IF p = q THEN OwnVM(x) ELSE OwnVM(query[p])]
  BY <1>1 DEF own, OwnVM
<1>3. held' = [p \in Queries |-> IF p = q THEN x.mpVM ELSE query[p].mpVM]
  BY <1>1 DEF held
<1> QED
  BY <1>2, <1>3 DEF own, held

(* Lemma: what writing one statement object does to the handles they keep.   *)
LEMMA StatementChanged ==
    ASSUME TypeOK, NEW s \in Statements, NEW x, stmt' = [stmt EXCEPT ![s] = x]
    PROVE  kept' = [kept EXCEPT ![s] = x.mpVM]
<1>1. \A t \in Statements : stmt'[t] = IF t = s THEN x ELSE stmt[t]
  BY DEF TypeOK
<1>2. kept' = [t \in Statements |-> IF t = s THEN x.mpVM ELSE stmt[t].mpVM]
  BY <1>1 DEF kept
<1> QED
  BY <1>2 DEF kept

\* g is vm with v finalized, where v may be null.
FinalizedVMs(g, v) ==
    /\ g \in [VMs -> VMState]
    /\ \A w \in VMs : g[w].st = "live" => vm[w].st = "live" /\ g[w] = vm[w]
    /\ \A w \in VMs : g[w].st = IF w = v THEN "final" ELSE vm[w].st

(* Lemma: the VM of one object is finalized, the others stay.                *)
LEMMA VMFinalized ==
    ASSUME TypeOK, NEW v \in VMs, NEW g, g = [vm EXCEPT ![v] = sqlite3_finalize(@)]
    PROVE  FinalizedVMs(g, v)
<1>1. \A w \in VMs : g[w] = IF w = v THEN sqlite3_finalize(vm[v]) ELSE vm[w]
  BY DEF TypeOK
<1>2. vm[v] \in VMState
  BY DEF TypeOK
<1>3. sqlite3_finalize(vm[v]) \in VMState /\ sqlite3_finalize(vm[v]).st = "final"
  BY <1>2, VMRecords
<1> QED
  BY <1>1, <1>3 DEF TypeOK, FinalizedVMs

(* Lemma: finalize() of a query.                                             *)
LEMMA QueryFinalized ==
    ASSUME TypeOK, NEW q \in Queries, NEW g, g = FinalizeQuery(query[q], vm)
    PROVE  FinalizedVMs(g, own[q])
<1>0. NULL \notin VMs /\ own[q] = OwnVM(query[q])
  BY SqliteAssumption DEF own
<1>1. CASE query[q].mpVM # NULL /\ query[q].mbOwnVM
  <2>1. PICK v \in VMs : v = query[q].mpVM
    BY <1>1 DEF TypeOK, QueryState
  <2>2. own[q] = v
    BY <1>0, <1>1, <2>1 DEF OwnVM
  <2>3. g = [vm EXCEPT ![v] = sqlite3_finalize(@)]
    BY <1>1, <2>1 DEF FinalizeQuery
  <2> QED
    BY <2>2, <2>3, VMFinalized
<1>2. CASE ~(query[q].mpVM # NULL /\ query[q].mbOwnVM)
  <2>1. own[q] = NULL
    BY <1>0, <1>2 DEF OwnVM
  <2>2. g = vm
    BY <1>2 DEF FinalizeQuery
  <2> QED
    BY <1>0, <2>1, <2>2 DEF TypeOK, FinalizedVMs
<1> QED
  BY <1>1, <1>2

-----------------------------------------------------------------------------
(* Calls on queries and statements                                           *)

\* The query x of variable p and its VM m are as the invariant wants them.
QueryFits(p, x, m) ==
    /\ x.alive
    /\ m.st = "live" => x.moved \/ x.mpDB = m.conn
    /\ m.st = "live" /\ m.user = p => InStep(x, m)

StatementFits(x, m) == x.alive /\ (m.st = "live" => x.mpDB = m.conn)

\* A VM that is live after a call was so before, or is new on an open connection.
VMsComeFromOpen ==
    \A w \in VMs : vm'[w].st = "live" =>
        \/ vm[w].st = "live" /\ vm'[w].conn = vm[w].conn
        \/ vm[w].st = "none" /\ vm'[w].conn \in Conns /\ conn[vm'[w].conn].st = "open"

\* A query is left alone, with its place in the rows, or fits.
QueriesFit ==
    \A p \in Queries : query'[p].mpVM # NULL =>
        \/ query'[p] = query[p] /\ (/\ vm'[query[p].mpVM].st = "live"
                                    /\ vm'[query[p].mpVM].user = p
                                    => vm'[query[p].mpVM] = vm[query[p].mpVM])
        \/ QueryFits(p, query'[p], vm'[query'[p].mpVM])

StatementsFit ==
    \A t \in Statements : stmt'[t].mpVM # NULL =>
        stmt'[t] = stmt[t] \/ StatementFits(stmt'[t], vm'[stmt'[t].mpVM])

(* Lemma: a call that leaves the database object alone and after which       *)
(* handles are accounted for and objects fit their VMs.                      *)
LEMMA ObjectsStep ==
    ASSUME IInv, TypeOK', UNCHANGED <<mpDB, mnBusyTimeoutMs, conn>>, let'.conns = let.conns,
           Accounted(own, held, kept, life, let.assigned, let.pulled)',
           VMsComeFromOpen, QueriesFit, StatementsFit, UndefinedOnlyByMisuse'
    PROVE  IInv'
<1>0. NULL \notin VMs
  BY SqliteAssumption
<1>1. DeadHoldNothing'
  BY DEF IInv, DeadHoldNothing, QueriesFit, StatementsFit, QueryFits, StatementFits
<1>2. VMsOfOpen'
  BY DEF IInv, VMsOfOpen, VMsComeFromOpen
<1>3. \A p \in Queries : query[p].mpVM # NULL => query[p].mpVM \in VMs /\ vm[query[p].mpVM].st # "none"
  BY DEF IInv, TypeOK, QueryState, Accounted, HandlesGiven, held, life
<1>4. \A t \in Statements : stmt[t].mpVM # NULL => stmt[t].mpVM \in VMs /\ vm[stmt[t].mpVM].st # "none"
  BY DEF IInv, TypeOK, StmtState, Accounted, HandlesGiven, kept, life
<1>5. MPDBs'
  <2>1. ASSUME NEW t \in Statements, stmt'[t].mpVM # NULL, vm'[stmt'[t].mpVM].st = "live"
        PROVE  stmt'[t].mpDB = vm'[stmt'[t].mpVM].conn
    <3>1. CASE stmt'[t] = stmt[t]
      BY <1>4, <2>1, <3>1 DEF IInv, MPDBs, VMsComeFromOpen
    <3>2. CASE StatementFits(stmt'[t], vm'[stmt'[t].mpVM])
      BY <2>1, <3>2 DEF StatementFits
    <3> QED
      BY <2>1, <3>1, <3>2 DEF StatementsFit
  <2>2. ASSUME NEW p \in Queries, query'[p].mpVM # NULL, vm'[query'[p].mpVM].st = "live"
        PROVE  query'[p].moved \/ query'[p].mpDB = vm'[query'[p].mpVM].conn
    <3>1. CASE query'[p] = query[p]
      BY <1>3, <2>2, <3>1 DEF IInv, MPDBs, VMsComeFromOpen
    <3>2. CASE QueryFits(p, query'[p], vm'[query'[p].mpVM])
      BY <2>2, <3>2 DEF QueryFits
    <3> QED
      BY <2>2, <3>1, <3>2 DEF QueriesFit
  <2> QED
    BY <2>1, <2>2 DEF MPDBs
<1>6. RowsInStep'
  <2>1. ASSUME NEW p \in Queries, query'[p].mpVM # NULL, vm'[query'[p].mpVM].st = "live",
               vm'[query'[p].mpVM].user = p
        PROVE  InStep(query'[p], vm'[query'[p].mpVM])
    <3>1. CASE query'[p] = query[p] /\ vm'[query[p].mpVM] = vm[query[p].mpVM]
      BY <2>1, <3>1 DEF IInv, RowsInStep
    <3>2. CASE QueryFits(p, query'[p], vm'[query'[p].mpVM])
      BY <2>1, <3>2 DEF QueryFits
    <3> QED
      BY <2>1, <3>1, <3>2 DEF QueriesFit
  <2>2. \A p \in Queries : query'[p].mpVM # NULL /\ vm'[query'[p].mpVM].st = "live"
            /\ vm'[query'[p].mpVM].user = p => InStep(query'[p], vm'[query'[p].mpVM])
    BY <2>1
  <2> QED
    BY <2>2 DEF RowsInStep, InStep
<1>7. DBHandle' /\ ConnectionsAccounted' /\ TimeoutInForce'
  BY DEF IInv, DBHandle, ConnectionsAccounted, TimeoutInForce
<1> QED
  BY <1>1, <1>2, <1>5, <1>6, <1>7 DEF IInv

(* Lemma: an object that would finalize a VM that is gone is one whose VM a  *)
(* query without ownership has finalized.                                    *)
LEMMA OwnerDangles ==
    ASSUME IInv
    PROVE  /\ \A q \in Queries : query[q].mbOwnVM /\ Dangling(query[q].mpVM) => let.pulled # {}
           /\ \A s \in Statements : Dangling(stmt[s].mpVM) => let.pulled # {}
<1>1. ASSUME NEW q \in Queries, query[q].mbOwnVM, Dangling(query[q].mpVM)
      PROVE  let.pulled # {}
  <2>1. own[q] = query[q].mpVM /\ own[q] # NULL /\ own[q] \in VMs /\ life[own[q]] = "final"
    BY <1>1 DEF IInv, TypeOK, QueryState, own, OwnVM, Dangling, life
  <2> QED
    BY <2>1 DEF IInv, Accounted, OwnersLive
<1>2. ASSUME NEW s \in Statements, Dangling(stmt[s].mpVM)
      PROVE  let.pulled # {}
  <2>1. kept[s] # NULL /\ kept[s] \in VMs /\ life[kept[s]] = "final"
    BY <1>2 DEF IInv, TypeOK, StmtState, kept, Dangling, life
  <2> QED
    BY <2>1 DEF IInv, Accounted, OwnersLive
<1> QED
  BY <1>1, <1>2

(* Lemma: calls that only throw, return, or end the program.                 *)
LEMMA IdleStep ==
    ASSUME IInv, UNCHANGED <<mpDB, mnBusyTimeoutMs, conn, vm, query, stmt, let>>,
           thrown' \in {"none", "OK", "SQLITE", "CPPSQLITE"}, UndefinedOnlyByMisuse'
    PROVE  IInv'
BY DEF IInv, TypeOK, Accounted, OwnersApart, OwnersLive, LiveOwned, HandlesGiven, own, held, kept, life, OwnVM,
       DeadHoldNothing, VMsOfOpen, DBHandle, MPDBs, RowsInStep, InStep, ConnectionsAccounted, TimeoutInForce

(* Lemma: a method that throws, or returns, and changes nothing else.        *)
LEMMA ThrowStep ==
    ASSUME IInv, ub = "", NEW e \in {"none", "OK", "SQLITE", "CPPSQLITE"}, Throw(e)
    PROVE  IInv'
<1>1. UndefinedOnlyByMisuse'
  BY DEF Throw, UndefinedOnlyByMisuse
<1> QED
  BY <1>1, IdleStep DEF Throw

(* Lemma: undefined behaviour that a misuse the property names has caused.   *)
LEMMA UndefinedStep ==
    ASSUME IInv, NEW what, Undefined(what),
           what \in {"null handle", "atoi of null", "sql buffer"} \/ let.pulled # {}
              \/ \E q \in Queries : Dangling(query[q].mpVM) /\ ~query[q].mbOwnVM,
           what \notin {"garbage handle", "freed handle"}
    PROVE  IInv'
<1>1. UndefinedOnlyByMisuse'
  BY DEF Undefined, UndefinedOnlyByMisuse, Dangling
<1>2. thrown' \in {"none", "OK", "SQLITE", "CPPSQLITE"}
  BY DEF Undefined, IInv, TypeOK
<1> QED
  BY <1>1, <1>2, IdleStep DEF Undefined

(* Lemma: new objects.                                                       *)
LEMMA NewQueryStep ==
    ASSUME IInv, ub = "", NEW q \in Queries, NewQuery(q)
    PROVE  IInv'
<1>0. TypeOK /\ NULL \notin VMs /\ query[q] \in QueryState
  BY SqliteAssumption DEF IInv, TypeOK
<1>1. query' = [query EXCEPT ![q] = CppSQLite3Query] /\ UNCHANGED <<mpDB, mnBusyTimeoutMs, conn, vm, stmt, let>>
      /\ thrown' = "none" /\ ub' = ""
  BY DEF NewQuery, Returns, dbvars
<1>2. CppSQLite3Query \in QueryState /\ CppSQLite3Query.mpVM = NULL /\ OwnVM(CppSQLite3Query) = NULL
  BY <1>0, EmptyRecords
<1>3. own[q] = NULL
  BY DEF NewQuery, IInv, DeadHoldNothing, own, OwnVM
<1>4. own' = [own EXCEPT ![q] = NULL] /\ held' = [held EXCEPT ![q] = NULL]
  BY <1>0, <1>1, <1>2, QueryChanged, ZenonT(40)
<1>5. kept' = kept /\ life' = Finalized(life, own[q])
  BY <1>0, <1>1, <1>3 DEF kept, life, Finalized
<1>6. Accounted(own', held', kept', life', let.assigned, let.pulled)
  <2>1. NULL \in Ptr
    BY DEF Ptr
  <2> QED
    BY <1>0, <1>4, <1>5, <2>1, ProjectionTypes, ReleasedByQuery DEF IInv
<1>7. Accounted(own, held, kept, life, let.assigned, let.pulled)'
  BY <1>1, <1>6
<1>8. TypeOK'
  BY <1>0, <1>1, <1>2 DEF TypeOK
<1>9. VMsComeFromOpen /\ QueriesFit /\ StatementsFit /\ UndefinedOnlyByMisuse'
  BY <1>0, <1>1, <1>2 DEF TypeOK, VMsComeFromOpen, QueriesFit, StatementsFit, UndefinedOnlyByMisuse
<1> QED
  BY <1>1, <1>7, <1>8, <1>9, ObjectsStep

(* Lemma: finalize() of a query and its destructor.                          *)
LEMMA CloseQueryStep ==
    ASSUME IInv, ub = "", NEW q \in Queries, NEW destroyed \in BOOLEAN, CloseQuery(q, destroyed)
    PROVE  IInv'
<1>0. TypeOK /\ NULL \notin VMs /\ query[q] \in QueryState
  BY SqliteAssumption DEF IInv, TypeOK
<1>1. CASE query[q].mbOwnVM /\ Dangling(query[q].mpVM)
  <2>1. Undefined("dangling vm")
    BY <1>1 DEF CloseQuery
  <2> QED
    BY <1>1, <2>1, OwnerDangles, UndefinedStep
<1>2. CASE ~(query[q].mbOwnVM /\ Dangling(query[q].mpVM))
  <2>1. PICK x : x = IF destroyed THEN Dead(CppSQLite3Query)
                     ELSE [query[q] EXCEPT !.mpVM = IF @ # NULL /\ query[q].mbOwnVM THEN NULL ELSE @]
    OBVIOUS
  <2>2. /\ vm' = FinalizeQuery(query[q], vm) /\ query' = [query EXCEPT ![q] = x]
        /\ UNCHANGED <<mpDB, mnBusyTimeoutMs, conn, stmt, let>> /\ thrown' = "none" /\ ub' = ""
    BY <1>2, <2>1 DEF CloseQuery, Returns, dbvars
  <2>3. x \in QueryState /\ OwnVM(x) = NULL /\ (x.mpVM = NULL \/ x = query[q])
    <3>1. CASE destroyed
      BY <1>0, <2>1, <3>1, EmptyRecords
    <3>2. CASE ~destroyed /\ query[q].mpVM # NULL /\ query[q].mbOwnVM
      <4>1. x = [query[q] EXCEPT !.mpVM = NULL]
        BY <1>0, <2>1, <3>2 DEF QueryState
      <4> QED
        BY <1>0, <4>1, EmptyRecords
    <3>3. CASE ~destroyed /\ ~(query[q].mpVM # NULL /\ query[q].mbOwnVM)
      <4>1. x = query[q]
        BY <1>0, <2>1, <3>3 DEF QueryState
      <4> QED
        BY <1>0, <3>3, <4>1 DEF OwnVM
    <3> QED
      BY <3>1, <3>2, <3>3
  <2>4. /\ vm' \in [VMs -> VMState] /\ life' = Finalized(life, own[q])
        /\ \A w \in VMs : vm'[w].st = "live" => vm[w].st = "live" /\ vm'[w] = vm[w]
    <3>1. FinalizedVMs(vm', own[q])
      BY <1>0, <2>2, QueryFinalized
    <3> QED
      BY <3>1 DEF FinalizedVMs, life, Finalized
  <2>5. own' = [own EXCEPT ![q] = NULL] /\ held' = [held EXCEPT ![q] = x.mpVM] /\ kept' = kept
    BY <1>0, <2>2, <2>3, QueryChanged DEF kept
  <2>6. Accounted(own', held', kept', life', let.assigned, let.pulled)
    <3>1. x.mpVM \in Ptr /\ (x.mpVM # NULL => life[x.mpVM] # "none")
      BY <1>0, <2>3 DEF QueryState, Ptr, IInv, Accounted, HandlesGiven, held
    <3> QED
      BY <1>0, <2>4, <2>5, <3>1, ProjectionTypes, ReleasedByQuery DEF IInv
  <2>7. Accounted(own, held, kept, life, let.assigned, let.pulled)'
    BY <2>2, <2>6
  <2>8. TypeOK'
    BY <1>0, <2>2, <2>3, <2>4 DEF TypeOK
  <2>9. QueriesFit
    <3>1. ASSUME NEW p \in Queries, query'[p].mpVM # NULL
          PROVE  query'[p] = query[p] /\ query[p].mpVM \in VMs
      BY <1>0, <2>2, <2>3, <3>1 DEF TypeOK, QueryState
    <3> QED
      BY <3>1, <2>4 DEF QueriesFit
  <2>10. VMsComeFromOpen /\ StatementsFit /\ UndefinedOnlyByMisuse'
    BY <2>2, <2>4 DEF VMsComeFromOpen, StatementsFit, UndefinedOnlyByMisuse
  <2> QED
    BY <2>2, <2>7, <2>8, <2>9, <2>10, ObjectsStep
<1> QED
  BY <1>1, <1>2

(* Lemma: CppSQLite3DB::execQuery.                                           *)
LEMMA DBExecQueryStep ==
    ASSUME IInv, ub = "", NEW q \in Queries, NEW v \in VMs, NEW rows \in 0..MaxRows,
           DBExecQuery(q, v, rows)
    PROVE  IInv'
<1>0. TypeOK /\ NULL \notin VMs /\ query[q] \in QueryState
  BY SqliteAssumption DEF IInv, TypeOK
<1>1. CASE query[q].mbOwnVM /\ Dangling(query[q].mpVM)
  <2>1. Undefined("dangling vm")
    BY <1>1 DEF DBExecQuery
  <2> QED
    BY <1>1, <2>1, OwnerDangles, UndefinedStep
<1>2. CASE ~(query[q].mbOwnVM /\ Dangling(query[q].mpVM))
  <2>1. PICK m : m = [Step(Compiled(rows), q, FALSE) EXCEPT !.user = q]
    OBVIOUS
  <2>2. PICK x : x = Receive(q, Constructed(v, m, TRUE))
    OBVIOUS
  <2>3. /\ vm' = FinalizeQuery(query[q], [vm EXCEPT ![v] = m]) /\ query' = [query EXCEPT ![q] = x]
        /\ UNCHANGED <<mpDB, mnBusyTimeoutMs, conn, stmt, let>> /\ thrown' = "none" /\ ub' = ""
    BY <1>2, <2>1, <2>2 DEF DBExecQuery, Returns, dbvars
  <2>4. mpDB \in Conns /\ conn[mpDB].st = "open" /\ vm[v].st = "none"
    BY <1>0 DEF DBExecQuery, CanCompile, Fresh, TypeOK
  <2>5. m \in VMState /\ m.st = "live" /\ m.conn = mpDB /\ m.pos = 1
    <3>1. Compiled(rows) \in VMState /\ Compiled(rows).st = "live" /\ Compiled(rows).conn = mpDB
          /\ Compiled(rows).pos = 0
      BY <2>4, Bounds DEF Compiled, NoVM, VMState
    <3>2. NextPos(Compiled(rows)) = 1
      BY <3>1, FirstStep
    <3>3. PICK d \in VMState : d = Compiled(rows)
      BY <3>1
    <3>4. PICK n \in VMState : n = Step(d, q, FALSE)
      BY VMRecords
    <3>5. n.st = d.st /\ n.conn = d.conn /\ n.pos = NextPos(d)
      BY <3>4, VMRecords, ZenonT(40)
    <3> QED
      BY <2>1, <3>1, <3>2, <3>3, <3>4, <3>5 DEF VMState
  <2>6. /\ x \in QueryState /\ x.mpVM = v /\ OwnVM(x) = v /\ x.alive
        /\ (x.moved \/ x.mpDB = mpDB) /\ InStep(x, m)
    <3>1. PICK c \in QueryState : c = Constructed(v, m, TRUE)
      BY <2>4, <2>5, ConstructedRecord
    <3>2. c.alive /\ c.mpVM = v /\ c.mpDB = mpDB /\ OwnVM(c) = v /\ InStep(c, m)
      BY <2>4, <2>5, <3>1, ConstructedRecord
    <3>3. CASE query[q].alive
      <4>1. x = Assigned(query[q], c)
        BY <2>2, <3>1, <3>3 DEF Receive
      <4> QED
        BY <1>0, <2>5, <3>2, <4>1, AssignedRecord DEF TakesAfter
    <3>4. CASE ~query[q].alive
      <4>1. x = c
        BY <2>2, <3>1, <3>4 DEF Receive
      <4> QED
        BY <3>2, <4>1
    <3> QED
      BY <3>3, <3>4
  <2>7. own[q] # v
    BY <1>0, <2>4 DEF IInv, Accounted, HandlesGiven, life
  <2>8. /\ vm' \in [VMs -> VMState]
        /\ life' = Finalized([life EXCEPT ![v] = "live"], own[q])
        /\ vm'[v] = m
        /\ \A w \in VMs : vm'[w].st = "live" /\ w # v => vm'[w] = vm[w]
    <3>1. CASE query[q].mpVM # NULL /\ query[q].mbOwnVM
      <4>1. PICK u \in VMs : u = query[q].mpVM
        BY <1>0, <3>1 DEF QueryState
      <4>2. own[q] = u /\ u # v
        BY <2>7, <3>1, <4>1 DEF own, OwnVM
      <4>3. vm' = [[vm EXCEPT ![v] = m] EXCEPT ![u] = sqlite3_finalize(@)]
        BY <2>3, <3>1, <4>1 DEF FinalizeQuery
      <4>4. \A w \in VMs : vm'[w] = IF w = u THEN sqlite3_finalize(vm[u]) ELSE IF w = v THEN m ELSE vm[w]
        BY <1>0, <4>2, <4>3 DEF TypeOK
      <4>5. vm[u] \in VMState
        BY <1>0 DEF TypeOK
      <4>6. sqlite3_finalize(vm[u]) \in VMState /\ sqlite3_finalize(vm[u]).st = "final"
        BY <4>5, VMRecords
      <4>7. vm' \in [VMs -> VMState]
        BY <1>0, <2>5, <4>3, <4>4, <4>6 DEF TypeOK
      <4> QED
        BY <2>5, <4>2, <4>4, <4>6, <4>7 DEF life, Finalized
    <3>2. CASE ~(query[q].mpVM # NULL /\ query[q].mbOwnVM)
      <4>1. own[q] = NULL
        BY <3>2 DEF own, OwnVM
      <4>2. vm' = [vm EXCEPT ![v] = m]
        BY <2>3, <3>2 DEF FinalizeQuery
      <4>3. vm' \in [VMs -> VMState] /\ \A w \in VMs : vm'[w] = IF w = v THEN m ELSE vm[w]
        BY <1>0, <2>5, <4>2 DEF TypeOK
      <4> QED
        BY <1>0, <2>5, <4>1, <4>3 DEF life, Finalized
    <3> QED
      BY <3>1, <3>2
  <2>9. own' = [own EXCEPT ![q] = v] /\ held' = [held EXCEPT ![q] = v] /\ kept' = kept
    <3>1. kept' = kept
      BY <2>3 DEF kept
    <3>2. own' = [own EXCEPT ![q] = OwnVM(x)] /\ held' = [held EXCEPT ![q] = x.mpVM]
      BY <1>0, <2>3, QueryChanged
    <3> QED
      BY <2>6, <3>1, <3>2
  <2>10. Accounted(own', held', kept', life', let.assigned, let.pulled)
    <3>1. life[v] = "none"
      BY <2>4 DEF life
    <3> QED
      BY <1>0, <2>8, <2>9, <3>1, ProjectionTypes, GivenToQuery DEF IInv
  <2>11. Accounted(own, held, kept, life, let.assigned, let.pulled)'
    BY <2>3, <2>10
  <2>12. TypeOK'
    BY <1>0, <2>3, <2>6, <2>8 DEF TypeOK
  <2>13. QueriesFit
    <3>1. ASSUME NEW p \in Queries, query'[p].mpVM # NULL
          PROVE  \/ query'[p] = query[p] /\ (vm'[query[p].mpVM].st = "live"
                                                => vm'[query[p].mpVM] = vm[query[p].mpVM])
                 \/ QueryFits(p, query'[p], vm'[query'[p].mpVM])
      <4>1. CASE p = q
        <5>1. query'[p] = x
          BY <1>0, <2>3, <4>1 DEF TypeOK
        <5> QED
          BY <2>5, <2>6, <2>8, <5>1 DEF QueryFits
      <4>2. CASE p # q
        <5>1. query'[p] = query[p]
          BY <1>0, <2>3, <4>2 DEF TypeOK
        <5>2. query[p].mpVM \in VMs /\ query[p].mpVM # v
          <6>1. query[p].mpVM \in VMs
            BY <1>0, <3>1, <5>1 DEF TypeOK, QueryState
          <6>2. held[p] # NULL => life[held[p]] # "none"
            BY DEF IInv, Accounted, HandlesGiven
          <6> QED
            BY <2>4, <3>1, <5>1, <6>1, <6>2 DEF held, life
        <5> QED
          BY <2>8, <5>1, <5>2
      <4> QED
        BY <4>1, <4>2
    <3> QED
      BY <3>1 DEF QueriesFit
  <2>14. VMsComeFromOpen /\ StatementsFit /\ UndefinedOnlyByMisuse'
    BY <2>3, <2>4, <2>5, <2>8 DEF VMsComeFromOpen, StatementsFit, UndefinedOnlyByMisuse
  <2> QED
    BY <2>3, <2>11, <2>12, <2>13, <2>14, ObjectsStep
<1> QED
  BY <1>1, <1>2

(* Lemma: the copy constructor and operator= of a query.                     *)
LEMMA CopyQueryStep ==
    ASSUME IInv, ub = "", NEW q \in Queries, NEW r \in Queries, CopyQuery(q, r)
    PROVE  IInv'
<1>0. TypeOK /\ NULL \notin VMs /\ query[q] \in QueryState /\ query[r] \in QueryState /\ query[r].alive
      /\ NULL \notin Queries
  BY SqliteAssumption DEF IInv, TypeOK, CopyQuery
<1>1. CASE query[q].mbOwnVM /\ Dangling(query[q].mpVM)
  <2>1. Undefined("dangling vm")
    BY <1>1 DEF CopyQuery
  <2> QED
    BY <1>1, <2>1, OwnerDangles, UndefinedStep
<1>2. CASE ~(query[q].mbOwnVM /\ Dangling(query[q].mpVM))
  <2>1. PICK src : src = IF q = r /\ query[q].mbOwnVM THEN [query[r] EXCEPT !.mpVM = NULL] ELSE query[r]
    OBVIOUS
  <2>2. PICK t : t = IF query[q].alive THEN Assigned(query[q], src) ELSE CopyOf(src)
    OBVIOUS
  <2>3. PICK g : g = FinalizeQuery(query[q], vm)
    OBVIOUS
  <2>4. /\ vm' = IF src.mpVM = NULL THEN g
                 ELSE [g EXCEPT ![src.mpVM].user = IF @ = r THEN q ELSE NULL]
        /\ query' = IF q = r THEN [query EXCEPT ![q] = [t EXCEPT !.mpVM = NULL]]
                    ELSE [query EXCEPT ![q] = t, ![r].mpVM = NULL]
        /\ UNCHANGED <<mpDB, mnBusyTimeoutMs, conn, stmt, let>> /\ thrown' = "none" /\ ub' = ""
    BY <1>2, <2>1, <2>2, <2>3 DEF CopyQuery, Returns, dbvars, CopyOf
  <2>5. src \in QueryState /\ (q # r => src = query[r])
    BY <1>0, <2>1, EmptyRecords
  <2>6. t \in QueryState /\ t.moved /\ (q # r => t.alive) /\ TakesAfter(t, src)
    BY <1>0, <2>2, <2>5, AssignedRecord
  <2>7. FinalizedVMs(g, own[q])
    BY <1>0, <2>3, QueryFinalized
  <2>8. /\ vm' \in [VMs -> VMState]
        /\ \A w \in VMs : vm'[w].st = IF w = own[q] THEN "final" ELSE vm[w].st
        /\ \A w \in VMs : vm'[w].st = "live" =>
              /\ vm[w].st = "live" /\ vm'[w].conn = vm[w].conn
              /\ vm'[w].rows = vm[w].rows /\ vm'[w].pos = vm[w].pos
              /\ w # src.mpVM => vm'[w] = vm[w]
              /\ w = src.mpVM => vm'[w].user = IF vm[w].user = r THEN q ELSE NULL
    <3>1. CASE src.mpVM = NULL
      BY <1>0, <2>4, <2>7, <3>1 DEF FinalizedVMs
    <3>2. CASE src.mpVM # NULL
      <4>1. PICK v \in VMs : v = src.mpVM
        BY <2>5, <3>2 DEF QueryState
      <4>2. PICK n : n = [g[v] EXCEPT !.user = IF @ = r THEN q ELSE NULL]
        OBVIOUS
      <4>3. g[v] \in VMState
        BY <2>7 DEF FinalizedVMs
      <4>4. /\ n \in VMState /\ n.st = g[v].st /\ n.conn = g[v].conn
            /\ n.rows = g[v].rows /\ n.pos = g[v].pos /\ n.user = IF g[v].user = r THEN q ELSE NULL
        BY <4>2, <4>3 DEF VMState
      <4>5. vm' = [g EXCEPT ![v] = n]
        BY <2>4, <3>2, <4>1, <4>2
      <4>6. vm' \in [VMs -> VMState] /\ \A w \in VMs : vm'[w] = IF w = v THEN n ELSE g[w]
        BY <2>7, <4>4, <4>5 DEF FinalizedVMs
      <4>7. ASSUME NEW w \in VMs
            PROVE  /\ vm'[w].st = IF w = own[q] THEN "final" ELSE vm[w].st
                   /\ vm'[w].st = "live" =>
                        /\ vm[w].st = "live" /\ vm'[w].conn = vm[w].conn
                        /\ vm'[w].rows = vm[w].rows /\ vm'[w].pos = vm[w].pos
                        /\ w # src.mpVM => vm'[w] = vm[w]
                        /\ w = src.mpVM => vm'[w].user = IF vm[w].user = r THEN q ELSE NULL
        <5>1. /\ g[w].st = IF w = own[q] THEN "final" ELSE vm[w].st
              /\ g[w].st = "live" => vm[w].st = "live" /\ g[w] = vm[w]
          BY <2>7 DEF FinalizedVMs
        <5>2. CASE w = v
          <6>1. vm'[w] = n
            BY <4>6, <5>2
          <6> QED
            BY <4>1, <4>4, <5>1, <5>2, <6>1
        <5>3. CASE w # v
          <6>1. vm'[w] = g[w]
            BY <4>6, <5>3
          <6> QED
            BY <4>1, <5>1, <5>3, <6>1
        <5> QED
          BY <5>2, <5>3
      <4> QED
        BY <4>6, <4>7
    <3> QED
      BY <3>1, <3>2
  <2>9. life' = Finalized(life, own[q]) /\ kept' = kept
    <3>1. life' = [w \in VMs |-> IF w = own[q] THEN "final" ELSE vm[w].st]
      BY <2>8 DEF life
    <3>2. life' = Finalized(life, own[q])
      BY <3>1 DEF life, Finalized
    <3>3. kept' = kept
      BY <2>4 DEF kept
    <3> QED
      BY <3>2, <3>3
  <2>10. VMsComeFromOpen /\ StatementsFit /\ UndefinedOnlyByMisuse'
    BY <2>4, <2>8 DEF VMsComeFromOpen, StatementsFit, UndefinedOnlyByMisuse
  <2>11. ASSUME NEW p \in Queries, p # q, query'[p] = query[p], query'[p].mpVM # NULL
         PROVE  vm'[query[p].mpVM].st = "live" /\ vm'[query[p].mpVM].user = p
                   => vm'[query[p].mpVM] = vm[query[p].mpVM]
    <3>1. PICK w \in VMs : w = query[p].mpVM
      BY <1>0, <2>11, ZenonT(40) DEF TypeOK, QueryState
    <3> QED
      BY <1>0, <2>8, <2>11, <3>1, ZenonT(40)
  <2>12. CASE q = r
    <3>1. PICK x : x = [t EXCEPT !.mpVM = NULL]
      OBVIOUS
    <3>2. x \in QueryState /\ x.mpVM = NULL /\ OwnVM(x) = NULL
      BY <2>6, <3>1, EmptyRecords
    <3>3. query' = [query EXCEPT ![q] = x]
      BY <2>4, <2>12, <3>1
    <3>4. own' = [own EXCEPT ![q] = NULL] /\ held' = [held EXCEPT ![q] = NULL]
      <4>1. own' = [own EXCEPT ![q] = OwnVM(x)] /\ held' = [held EXCEPT ![q] = x.mpVM]
        BY <1>0, <3>3, QueryChanged
      <4> QED
        BY <3>2, <4>1
    <3>5. Accounted(own', held', kept', life', let.assigned, let.pulled)
      <4>1. NULL \in Ptr
        BY DEF Ptr
      <4> QED
        BY <1>0, <2>9, <3>4, <4>1, ProjectionTypes, ReleasedByQuery DEF IInv
    <3>6. Accounted(own, held, kept, life, let.assigned, let.pulled)'
      BY <2>4, <3>5
    <3>7. TypeOK'
      <4>1. query' \in [Queries -> QueryState]
        BY <1>0, <3>2, <3>3 DEF TypeOK
      <4> QED
        BY <1>0, <2>4, <2>8, <4>1 DEF TypeOK
    <3>8. QueriesFit
      <4>1. ASSUME NEW p \in Queries, query'[p].mpVM # NULL
            PROVE  p # q /\ query'[p] = query[p]
        BY <1>0, <3>2, <3>3, <4>1 DEF TypeOK
      <4> QED
        BY <2>11, <4>1 DEF QueriesFit
    <3> QED
      BY <2>4, <2>10, <3>6, <3>7, <3>8, ObjectsStep
  <2>13. CASE q # r
    <3>1. PICK y : y = [query[r] EXCEPT !.mpVM = NULL]
      OBVIOUS
    <3>2. y \in QueryState /\ y.mpVM = NULL /\ OwnVM(y) = NULL
      BY <1>0, <3>1, EmptyRecords
    <3>3. query' = [query EXCEPT ![q] = t, ![r].mpVM = NULL]
      BY <2>4, <2>13
    <3>4. query' \in [Queries -> QueryState]
          /\ \A p \in Queries : query'[p] = IF p = r THEN y ELSE IF p = q THEN t ELSE query[p]
      BY <1>0, <2>6, <2>13, <3>1, <3>2, <3>3 DEF TypeOK
    <3>5. t.mpVM = query[r].mpVM /\ OwnVM(t) = OwnVM(query[r])
          /\ \A m \in VMState : InStep(query[r], m) => InStep(t, m)
      BY <2>5, <2>6, <2>13 DEF TakesAfter
    <3>6. own' = [own EXCEPT ![q] = own[r], ![r] = NULL]
      <4>1. own' = [p \in Queries |-> IF p = r THEN OwnVM(y) ELSE IF p = q THEN OwnVM(t) ELSE OwnVM(query[p])]
        BY <3>4 DEF own, OwnVM
      <4> QED
        BY <2>13, <3>2, <3>5, <4>1 DEF own
    <3>7. held' = [held EXCEPT ![q] = held[r], ![r] = NULL]
      <4>1. held' = [p \in Queries |-> IF p = r THEN y.mpVM ELSE IF p = q THEN t.mpVM ELSE query[p].mpVM]
        BY <3>4 DEF held
      <4> QED
        BY <2>13, <3>2, <3>5, <4>1 DEF held
    <3>8. Accounted(own', held', kept', life', let.assigned, let.pulled)
      BY <1>0, <2>9, <2>13, <3>6, <3>7, ProjectionTypes, MovedToQuery DEF IInv
    <3>9. Accounted(own, held, kept, life, let.assigned, let.pulled)'
      BY <2>4, <3>8
    <3>10. TypeOK'
      BY <1>0, <2>4, <2>8, <3>4 DEF TypeOK
    <3>11. ASSUME query'[q].mpVM # NULL
           PROVE  QueryFits(q, query'[q], vm'[query'[q].mpVM])
      <4>1. query'[q] = t
        BY <2>13, <3>4
      <4>2. PICK w \in VMs : w = t.mpVM /\ w = query[r].mpVM /\ w = src.mpVM
        BY <2>5, <2>6, <2>13, <3>5, <3>11, <4>1 DEF QueryState
      <4>3. ASSUME vm'[w].st = "live", vm'[w].user = q
            PROVE  InStep(t, vm'[w])
        <5>1. vm[w].st = "live" /\ vm[w].user = r
          BY <1>0, <2>8, <4>2, <4>3
        <5>2. InStep(query[r], vm[w])
          BY <3>5, <3>11, <4>1, <4>2, <5>1 DEF IInv, RowsInStep
        <5>3. vm[w] \in VMState
          BY <1>0 DEF TypeOK
        <5>4. InStep(t, vm[w])
          BY <3>5, <5>2, <5>3
        <5> QED
          BY <2>8, <4>3, <5>4 DEF InStep
      <4> QED
        BY <2>6, <2>13, <4>1, <4>2, <4>3 DEF QueryFits
    <3>12. QueriesFit
      <4>1. ASSUME NEW p \in Queries, query'[p].mpVM # NULL, p # q
            PROVE  query'[p] = query[p]
        BY <3>2, <3>4, <4>1
      <4> QED
        BY <2>11, <3>11, <4>1 DEF QueriesFit
    <3> QED
      BY <2>4, <2>10, <3>9, <3>10, <3>12, ObjectsStep
  <2> QED
    BY <2>12, <2>13
<1> QED
  BY <1>1, <1>2

\* The query r of variable q after its VM has moved on from m to n.
Advanced(r, q, m, n) ==
    IF HasRow(n) THEN [r EXCEPT !.visited = IF m.user # q THEN 0 ELSE IF r.mbEof THEN @ ELSE @ + 1]
    ELSE [r EXCEPT !.mbEof = TRUE]

(* Lemma: nextRow() keeps count of the rows.                                 *)
LEMMA AdvancedRecord ==
    ASSUME NEW r \in QueryState, NEW q \in Queries, NEW m \in VMState, NEW n \in VMState,
           n.pos = NextPos(m), n.rows = m.rows, m.user = q => InStep(r, m)
    PROVE  /\ Advanced(r, q, m, n) \in QueryState
           /\ Advanced(r, q, m, n).mpVM = r.mpVM
           /\ Advanced(r, q, m, n).mpDB = r.mpDB
           /\ OwnVM(Advanced(r, q, m, n)) = OwnVM(r)
           /\ r.alive => Advanced(r, q, m, n).alive
           /\ r.moved => Advanced(r, q, m, n).moved
           /\ m.user = q => InStep(Advanced(r, q, m, n), n)
<1>0. /\ m.pos \in Nat /\ m.rows \in Nat /\ m.rows <= MaxRows /\ MaxRows \in Nat
      /\ n.pos \in Nat /\ n.rows \in Nat
  BY SqliteAssumption DEF VMState
<1>1. PICK y : y = Advanced(r, q, m, n)
  OBVIOUS
<1>2. CASE ~HasRow(n)
  <2>1. y = [r EXCEPT !.mbEof = TRUE]
    BY <1>1, <1>2 DEF Advanced
  <2>2. /\ y \in QueryState /\ y.mpVM = r.mpVM /\ y.mpDB = r.mpDB /\ OwnVM(y) = OwnVM(r)
        /\ (r.alive => y.alive) /\ (r.moved => y.moved) /\ y.visited = r.visited /\ y.mbEof
    BY <2>1 DEF QueryState, OwnVM
  <2>3. ASSUME m.user = q
        PROVE  r.visited = n.rows
    <3>1. CASE r.mbEof
      BY <2>3, <3>1 DEF InStep
    <3>2. CASE ~r.mbEof
      <4>1. r.visited = m.pos /\ m.pos >= 1 /\ m.pos <= m.rows
        BY <2>3, <3>2, <1>0 DEF InStep
      <4>2. n.pos = m.pos + 1
        BY <1>0, <4>1 DEF NextPos
      <4>3. ~(n.pos >= 1 /\ n.pos <= n.rows)
        BY <1>0, <1>2 DEF HasRow
      <4> QED
        BY <1>0, <4>1, <4>2, <4>3
    <3> QED
      BY <3>1, <3>2
  <2>4. m.user = q => InStep(y, n)
    BY <2>2, <2>3 DEF InStep
  <2> QED
    BY <1>1, <2>2, <2>4
<1>3. CASE HasRow(n)
  <2>1. PICK c : c = IF m.user # q THEN 0 ELSE IF r.mbEof THEN r.visited ELSE r.visited + 1
    OBVIOUS
  <2>2. y = [r EXCEPT !.visited = c]
    BY <1>1, <1>3, <2>1 DEF Advanced, QueryState
  <2>3. c \in 0..(MaxRows + 1) /\ (m.user = q /\ ~r.mbEof => c = n.pos /\ n.pos \in 1..n.rows)
        /\ (m.user = q /\ r.mbEof => c = n.rows)
    <3>1. CASE m.user # q
      BY <2>1, <3>1, Bounds
    <3>2. CASE m.user = q /\ r.mbEof
      BY <2>1, <3>2 DEF InStep, QueryState
    <3>3. CASE m.user = q /\ ~r.mbEof
      <4>1. r.visited = m.pos /\ m.pos >= 1 /\ m.pos <= m.rows
        BY <3>3, <1>0 DEF InStep
      <4>2. n.pos = m.pos + 1 /\ c = m.pos + 1
        BY <1>0, <2>1, <3>3, <4>1 DEF NextPos
      <4>3. n.pos \in 1..n.rows
        BY <1>3 DEF HasRow
      <4>4. c \in 0..(MaxRows + 1)
        BY <1>0, <4>1, <4>2
      <4> QED
        BY <3>3, <4>2, <4>3, <4>4
    <3> QED
      BY <3>1, <3>2, <3>3
  <2>4. /\ y \in QueryState /\ y.mpVM = r.mpVM /\ y.mpDB = r.mpDB /\ OwnVM(y) = OwnVM(r)
        /\ (r.alive => y.alive) /\ (r.moved => y.moved) /\ y.visited = c
        /\ (r.mbEof => y.mbEof) /\ (y.mbEof => r.mbEof)
    BY <2>2, <2>3 DEF QueryState, OwnVM
  <2>5. m.user = q => InStep(y, n)
    BY <2>3, <2>4 DEF InStep
  <2> QED
    BY <1>1, <2>4, <2>5
<1> QED
  BY <1>2, <1>3

(* Lemma: nextRow(), when the step fails.                                    *)
LEMMA NextRowFailsStep ==
    ASSUME IInv, ub = "", NEW q \in Queries, NextRow(q, TRUE),
           query[q].mpVM # NULL, ~Dangling(query[q].mpVM)
    PROVE  IInv'
<1>0. TypeOK /\ NULL \notin VMs /\ query[q] \in QueryState /\ TRUE \in BOOLEAN
  BY SqliteAssumption DEF IInv, TypeOK
<1>1. PICK v \in VMs : v = query[q].mpVM
  BY <1>0 DEF QueryState
<1>2. PICK x : x = [query[q] EXCEPT !.mpVM = NULL]
  OBVIOUS
<1>3. /\ vm' = [vm EXCEPT ![v] = sqlite3_finalize(@)] /\ query' = [query EXCEPT ![q] = x]
      /\ let' = IF ~query[q].mbOwnVM THEN [let EXCEPT !.pulled = @ \cup {v}] ELSE let
      /\ UNCHANGED <<mpDB, mnBusyTimeoutMs, conn, stmt>> /\ thrown' = "SQLITE"
      /\ ub' = ErrmsgOf(query[q])
  BY <1>1, <1>2 DEF NextRow, dbvars
<1>4. x \in QueryState /\ x.mpVM = NULL /\ OwnVM(x) = NULL /\ (query[q].moved => x.moved)
  <2>1. query[q].moved => x.moved
    BY <1>0, <1>2 DEF QueryState
  <2> QED
    BY <1>0, <1>2, <2>1, EmptyRecords
<1>5. FinalizedVMs(vm', v)
  BY <1>0, <1>3, VMFinalized
<1>6. /\ vm' \in [VMs -> VMState] /\ life' = Finalized(life, v)
      /\ \A w \in VMs : vm'[w].st = "live" => vm[w].st = "live" /\ vm'[w] = vm[w]
  BY <1>5 DEF FinalizedVMs, life, Finalized
<1>7. own' = [own EXCEPT ![q] = NULL] /\ held' = [held EXCEPT ![q] = NULL]
  <2>1. own' = [own EXCEPT ![q] = OwnVM(x)] /\ held' = [held EXCEPT ![q] = x.mpVM]
    BY <1>0, <1>3, QueryChanged
  <2> QED
    BY <1>4, <2>1
<1>8. kept' = kept
  BY <1>3 DEF kept
<1>9. /\ let' \in LetGo /\ let'.conns = let.conns
      /\ Accounted(own', held', kept', life', let'.assigned, let'.pulled)
  <2>1. CASE query[q].mbOwnVM
    <3>1. own[q] = v /\ let' = let /\ NULL \in Ptr
      BY <1>1, <1>3, <2>1 DEF own, OwnVM, Ptr
    <3>2. Accounted(own', held', kept', life', let.assigned, let.pulled)
      BY <1>0, <1>6, <1>7, <1>8, <3>1, ProjectionTypes, ReleasedByQuery DEF IInv
    <3> QED
      BY <1>0, <3>1, <3>2 DEF TypeOK
  <2>2. CASE ~query[q].mbOwnVM
    <3>1. own[q] = NULL /\ own' = own
      <4>1. own[q] = NULL
        BY <2>2 DEF own, OwnVM
      <4> QED
        BY <1>0, <1>7, <4>1, ProjectionTypes
    <3>2. let' = [let EXCEPT !.pulled = @ \cup {v}]
      BY <1>3, <2>2
    <3>3. let' \in LetGo /\ let'.conns = let.conns /\ let'.assigned = let.assigned
          /\ let'.pulled = let.pulled \cup {v}
      BY <1>0, <3>2 DEF TypeOK, LetGo
    <3>4. Accounted(own', held', kept', life', let.assigned, let.pulled \cup {v})
      BY <1>0, <1>6, <1>7, <1>8, <3>1, ProjectionTypes, PulledByQuery, ZenonT(40) DEF IInv
    <3> QED
      BY <3>3, <3>4
  <2> QED
    BY <2>1, <2>2
<1>10. Accounted(own, held, kept, life, let.assigned, let.pulled)'
  BY <1>9
<1>11. TypeOK'
  BY <1>0, <1>3, <1>4, <1>6, <1>9 DEF TypeOK
<1>12. QueriesFit
  <2>1. ASSUME NEW p \in Queries, query'[p].mpVM # NULL
        PROVE  query'[p] = query[p] /\ query[p].mpVM \in VMs
    BY <1>0, <1>3, <1>4, <2>1 DEF TypeOK, QueryState
  <2> QED
    BY <1>6, <2>1 DEF QueriesFit
<1>13. VMsComeFromOpen /\ StatementsFit
  BY <1>3, <1>6 DEF VMsComeFromOpen, StatementsFit
<1>14. UndefinedOnlyByMisuse'
  <2>1. vm[v].st = "live"
    <3>1. vm[v].st # "none"
      BY <1>0, <1>1 DEF IInv, Accounted, HandlesGiven, held, life
    <3> QED
      BY <1>0, <1>1, <3>1 DEF Dangling, TypeOK, VMState
  <2>2. vm[v].conn \in Conns /\ conn[vm[v].conn].st = "open" /\ vm[v].conn # GARBAGE
    BY <2>1, SqliteAssumption DEF IInv, VMsOfOpen
  <2>3. query[q].moved \/ query[q].mpDB = vm[v].conn
    BY <1>0, <1>1, <2>1 DEF IInv, MPDBs
  <2>4. CASE query[q].moved
    <3>1. query'[q].moved
      BY <1>0, <1>3, <1>4, <2>4 DEF TypeOK
    <3>2. ub' # "dangling vm"
      BY <1>3 DEF ErrmsgOf
    <3> QED
      BY <3>1, <3>2 DEF UndefinedOnlyByMisuse
  <2>5. CASE query[q].mpDB = vm[v].conn
    <3>1. ub' = ""
      BY <1>3, <2>2, <2>5 DEF ErrmsgOf
    <3> QED
      BY <3>1 DEF UndefinedOnlyByMisuse
  <2> QED
    BY <2>3, <2>4, <2>5
<1> QED
  BY <1>3, <1>9, <1>10, <1>11, <1>12, <1>13, <1>14, ObjectsStep

(* Lemma: nextRow(), when the step succeeds.                                 *)
LEMMA NextRowSucceedsStep ==
    ASSUME IInv, ub = "", NEW q \in Queries, NextRow(q, FALSE),
           query[q].mpVM # NULL, ~Dangling(query[q].mpVM)
    PROVE  IInv'
<1>0. TypeOK /\ NULL \notin VMs /\ NULL \notin Queries /\ query[q] \in QueryState /\ query[q].alive
  BY SqliteAssumption DEF IInv, TypeOK, NextRow
<1>1. PICK v \in VMs : v = query[q].mpVM
  BY <1>0 DEF QueryState
<1>2. PICK m \in VMState : m = vm[v]
  BY <1>0 DEF TypeOK
<1>3. PICK n : n = Step(m, q, FALSE)
  OBVIOUS
<1>4. n \in VMState /\ n.st = m.st /\ n.conn = m.conn /\ n.rows = m.rows /\ n.pos = NextPos(m)
      /\ n.user = IF m.user = q THEN q ELSE NULL
  <2>1. /\ Step(m, q, FALSE) \in VMState /\ Step(m, q, FALSE).st = m.st
        /\ Step(m, q, FALSE).conn = m.conn /\ Step(m, q, FALSE).rows = m.rows
        /\ Step(m, q, FALSE).pos = NextPos(m)
        /\ Step(m, q, FALSE).user = IF m.user = q THEN q ELSE NULL
    BY VMRecords, ZenonT(40)
  <2> QED
    BY <1>3, <2>1
<1>5. vm' = [vm EXCEPT ![v] = n]
  BY <1>1, <1>2, <1>3 DEF NextRow
<1>6. vm' \in [VMs -> VMState] /\ \A w \in VMs : vm'[w] = IF w = v THEN n ELSE vm[w]
  BY <1>0, <1>4, <1>5 DEF TypeOK
<1>7. PICK y : y = Advanced(query[q], q, m, n)
  OBVIOUS
<1>8. /\ query' = [query EXCEPT ![q] = y] /\ UNCHANGED <<mpDB, mnBusyTimeoutMs, conn, stmt, let>>
      /\ thrown' = "none" /\ ub' = ""
  <2>1. vm'[v] = n
    BY <1>6
  <2> QED
    BY <1>1, <1>2, <1>7, <2>1 DEF NextRow, Advanced, dbvars
<1>9. m.st = "live"
  <2>1. m.st # "none"
    BY <1>0, <1>1, <1>2 DEF IInv, Accounted, HandlesGiven, held, life
  <2> QED
    BY <1>1, <1>2, <2>1 DEF Dangling, VMState
<1>10. m.user = q => InStep(query[q], m)
  BY <1>0, <1>1, <1>2, <1>9 DEF IInv, RowsInStep
<1>11. /\ y \in QueryState /\ y.mpVM = v /\ y.mpDB = query[q].mpDB /\ OwnVM(y) = OwnVM(query[q])
       /\ y.alive /\ (query[q].moved => y.moved) /\ (m.user = q => InStep(y, n))
  <2>1. PICK r \in QueryState : r = query[q]
    BY <1>0
  <2>2. m.user = q => InStep(r, m)
    BY <1>10, <2>1
  <2>3. /\ Advanced(r, q, m, n) \in QueryState
        /\ Advanced(r, q, m, n).mpVM = r.mpVM
        /\ Advanced(r, q, m, n).mpDB = r.mpDB
        /\ OwnVM(Advanced(r, q, m, n)) = OwnVM(r)
        /\ r.alive => Advanced(r, q, m, n).alive
        /\ r.moved => Advanced(r, q, m, n).moved
        /\ m.user = q => InStep(Advanced(r, q, m, n), n)
    BY <1>4, <2>2, AdvancedRecord
  <2> QED
    BY <1>0, <1>1, <1>7, <2>1, <2>3
<1>12. own' = own /\ held' = held
  <2>1. own' = [own EXCEPT ![q] = OwnVM(y)] /\ held' = [held EXCEPT ![q] = y.mpVM]
    BY <1>0, <1>8, QueryChanged
  <2>2. OwnVM(y) = own[q] /\ y.mpVM = held[q]
    BY <1>1, <1>11 DEF own, held
  <2> QED
    BY <1>0, <2>1, <2>2, ProjectionTypes
<1>13. life' = life
  BY <1>2, <1>4, <1>6 DEF life
<1>14. kept' = kept
  BY <1>8 DEF kept
<1>15. Accounted(own, held, kept, life, let.assigned, let.pulled)'
  <2>1. Accounted(own', held', kept', life', let'.assigned, let'.pulled)
    BY <1>8, <1>12, <1>13, <1>14 DEF IInv
  <2> QED
    BY <2>1
<1>16. TypeOK'
  BY <1>0, <1>6, <1>8, <1>11 DEF TypeOK
<1>17. QueriesFit
  <2>1. ASSUME NEW p \in Queries, query'[p].mpVM # NULL
        PROVE  \/ query'[p] = query[p] /\ (vm'[query[p].mpVM].st = "live" /\ vm'[query[p].mpVM].user = p
                                              => vm'[query[p].mpVM] = vm[query[p].mpVM])
               \/ QueryFits(p, query'[p], vm'[query'[p].mpVM])
    <3>1. CASE p = q
      <4>1. query'[p] = y /\ vm'[v] = n
        BY <1>0, <1>6, <1>8, <3>1 DEF TypeOK
      <4>2. query[q].moved \/ query[q].mpDB = m.conn
        BY <1>0, <1>1, <1>2, <1>9 DEF IInv, MPDBs
      <4>3. n.user = q => m.user = q
        BY <1>0, <1>4
      <4> QED
        BY <1>4, <1>11, <3>1, <4>1, <4>2, <4>3 DEF QueryFits
    <3>2. CASE p # q
      <4>1. query'[p] = query[p]
        BY <1>0, <1>8, <3>2 DEF TypeOK
      <4>2. PICK w \in VMs : w = query[p].mpVM
        BY <1>0, <2>1, <4>1 DEF TypeOK, QueryState
      <4>3. vm'[w].user = p => vm'[w] = vm[w]
        BY <1>0, <1>4, <1>6, <3>2
      <4> QED
        BY <4>1, <4>2, <4>3
    <3> QED
      BY <3>1, <3>2
  <2> QED
    BY <2>1 DEF QueriesFit
<1>18. VMsComeFromOpen /\ StatementsFit /\ UndefinedOnlyByMisuse'
  BY <1>2, <1>4, <1>6, <1>8 DEF VMsComeFromOpen, StatementsFit, UndefinedOnlyByMisuse
<1> QED
  BY <1>8, <1>15, <1>16, <1>17, <1>18, ObjectsStep

(* Lemma: nextRow().                                                         *)
LEMMA NextRowStep ==
    ASSUME IInv, ub = "", NEW q \in Queries, NEW fails \in BOOLEAN, NextRow(q, fails)
    PROVE  IInv'
<1>1. CASE query[q].mpVM = NULL
  <2>1. Throw("CPPSQLITE")
    BY <1>1 DEF NextRow
  <2> QED
    BY <2>1, ThrowStep
<1>2. CASE query[q].mpVM # NULL /\ Dangling(query[q].mpVM)
  <2>1. Undefined("dangling vm")
    BY <1>2 DEF NextRow
  <2> QED
    BY <1>2, <2>1, OwnerDangles, UndefinedStep
<1>3. CASE query[q].mpVM # NULL /\ ~Dangling(query[q].mpVM)
  <2>1. CASE fails
    <3>1. NextRow(q, TRUE)
      BY <2>1
    <3> QED
      BY <1>3, <3>1, NextRowFailsStep
  <2>2. CASE ~fails
    <3>1. NextRow(q, FALSE)
      BY <2>2
    <3> QED
      BY <1>3, <3>1, NextRowSucceedsStep
  <2> QED
    BY <2>1, <2>2
<1> QED
  BY <1>1, <1>2, <1>3

(* Lemma: the VM of a statement is stepped and reset, and no query alone     *)
(* knows its place any more.                                                 *)
LEMMA RewoundStep ==
    ASSUME IInv, ub = "", NEW v \in VMs, NEW n \in VMState, vm' = [vm EXCEPT ![v] = n],
           n.st = vm[v].st, n.conn = vm[v].conn, n.user = NULL,
           UNCHANGED <<mpDB, mnBusyTimeoutMs, conn, query, stmt, let, ub>>,
           thrown' \in {"none", "OK", "SQLITE", "CPPSQLITE"}
    PROVE  IInv'
<1>0. TypeOK /\ NULL \notin VMs /\ NULL \notin Queries
  BY SqliteAssumption DEF IInv, TypeOK
<1>1. vm' \in [VMs -> VMState] /\ \A w \in VMs : vm'[w] = IF w = v THEN n ELSE vm[w]
  BY <1>0 DEF TypeOK
<1>2. own' = own
  BY DEF own, OwnVM
<1>3. held' = held /\ kept' = kept
  BY DEF held, kept
<1>4. life' = life
  BY <1>1 DEF life
<1>5. Accounted(own, held, kept, life, let.assigned, let.pulled)'
  <2>1. Accounted(own', held', kept', life', let'.assigned, let'.pulled)
    BY <1>2, <1>3, <1>4 DEF IInv
  <2> QED
    BY <2>1
<1>6. TypeOK'
  BY <1>0, <1>1 DEF TypeOK
<1>7. QueriesFit
  <2>1. ASSUME NEW p \in Queries, query'[p].mpVM # NULL
        PROVE  vm'[query[p].mpVM].user = p => vm'[query[p].mpVM] = vm[query[p].mpVM]
    <3>1. PICK w \in VMs : w = query[p].mpVM
      BY <1>0, <2>1 DEF TypeOK, QueryState
    <3> QED
      BY <1>0, <1>1, <3>1
  <2> QED
    BY <2>1 DEF QueriesFit
<1>8. VMsComeFromOpen /\ StatementsFit /\ UndefinedOnlyByMisuse'
  BY <1>1 DEF VMsComeFromOpen, StatementsFit, UndefinedOnlyByMisuse
<1> QED
  BY <1>5, <1>6, <1>7, <1>8, ObjectsStep

(* Lemma: statements without a VM are statements.                           *)
LEMMA StatementRecords ==
    /\ CppSQLite3Statement \in StmtState /\ Dead(CppSQLite3Statement) \in StmtState
    /\ CppSQLite3Statement.mpVM = NULL /\ Dead(CppSQLite3Statement).mpVM = NULL
    /\ \A x \in StmtState : [x EXCEPT !.mpVM = NULL] \in StmtState /\ [x EXCEPT !.mpVM = NULL].mpVM = NULL
BY DEF CppSQLite3Statement, Dead, StmtState

(* Lemma: a call that changes statements and leaves the VMs it does not      *)
(* finalize or compile alone.                                                *)
LEMMA StatementsStep ==
    ASSUME IInv, ub = "", UNCHANGED <<mpDB, mnBusyTimeoutMs, conn, query, ub>>, thrown' = "none",
           let' \in LetGo, let'.conns = let.conns,
           vm' \in [VMs -> VMState], stmt' \in [Statements -> StmtState],
           Accounted(own, held, kept', life', let'.assigned, let'.pulled),
           \A w \in VMs : vm'[w].st = "live" =>
              \/ vm'[w] = vm[w]
              \/ vm[w].st = "none" /\ vm'[w].conn \in Conns /\ conn[vm'[w].conn].st = "open",
           StatementsFit
    PROVE  IInv'
<1>0. TypeOK
  BY DEF IInv
<1>1. own' = own
  BY DEF own, OwnVM
<1>2. held' = held
  BY DEF held
<1>3. Accounted(own, held, kept, life, let.assigned, let.pulled)'
  <2>1. Accounted(own', held', kept', life', let'.assigned, let'.pulled)
    BY <1>1, <1>2
  <2> QED
    BY <2>1
<1>4. TypeOK'
  BY <1>0 DEF TypeOK
<1>5. QueriesFit
  <2>1. ASSUME NEW p \in Queries, query'[p].mpVM # NULL
        PROVE  vm'[query[p].mpVM].st = "live" => vm'[query[p].mpVM] = vm[query[p].mpVM]
    <3>0. query[p] \in QueryState /\ query[p].mpVM # NULL
      <4>1. query' = query /\ query \in [Queries -> QueryState]
        BY <1>0 DEF TypeOK
      <4> QED
        BY <2>1, <4>1
    <3>1. PICK w \in VMs : w = query[p].mpVM
      <4>1. query[p].mpVM \in VMs \cup {NULL}
        BY <3>0 DEF QueryState
      <4> QED
        BY <3>0, <4>1
    <3>2. vm[w].st # "none"
      BY <2>1, <3>1 DEF IInv, Accounted, HandlesGiven, held, life
    <3> QED
      BY <3>1, <3>2
  <2> QED
    BY <2>1 DEF QueriesFit
<1>6. VMsComeFromOpen /\ UndefinedOnlyByMisuse'
  BY DEF VMsComeFromOpen, UndefinedOnlyByMisuse
<1> QED
  BY <1>3, <1>4, <1>5, <1>6, ObjectsStep

(* Lemma: a new statement.                                                   *)
LEMMA NewStatementStep ==
    ASSUME IInv, ub = "", NEW s \in Statements, NewStatement(s)
    PROVE  IInv'
<1>0. TypeOK /\ NULL \notin VMs
  BY SqliteAssumption DEF IInv
<1>1. stmt' = [stmt EXCEPT ![s] = CppSQLite3Statement] /\ UNCHANGED <<mpDB, mnBusyTimeoutMs, conn, vm, query, let, ub>>
      /\ thrown' = "none"
  BY DEF NewStatement, Returns, dbvars
<1>2. kept[s] = NULL
  BY DEF NewStatement, IInv, DeadHoldNothing, kept
<1>3. kept' = kept
  <2>1. kept' = [kept EXCEPT ![s] = NULL]
    BY <1>0, <1>1, StatementChanged, StatementRecords
  <2> QED
    BY <1>0, <1>2, <2>1, ProjectionTypes
<1>4. life' = life
  BY <1>1 DEF life
<1>5. Accounted(own, held, kept', life', let'.assigned, let'.pulled)
  BY <1>1, <1>3, <1>4 DEF IInv
<1>6. stmt' \in [Statements -> StmtState] /\ StatementsFit
  BY <1>0, <1>1, StatementRecords DEF TypeOK, StatementsFit
<1> QED
  BY <1>0, <1>1, <1>5, <1>6, StatementsStep DEF TypeOK

(* Lemma: CppSQLite3DB::compileStatement.                                    *)
LEMMA CompileStatementStep ==
    ASSUME IInv, ub = "", NEW s \in Statements, NEW v \in Ptr, NEW rows \in 0..MaxRows,
           CompileStatement(s, v, rows)
    PROVE  IInv'
<1>0. TypeOK /\ NULL \notin VMs
  BY SqliteAssumption DEF IInv
<1>1. PICK x : x = [alive |-> TRUE, mpVM |-> v, mpDB |-> mpDB]
  OBVIOUS
<1>2. /\ vm' = IF v = NULL THEN vm ELSE [vm EXCEPT ![v] = Compiled(rows)]
      /\ stmt' = [stmt EXCEPT ![s] = x] /\ UNCHANGED <<mpDB, mnBusyTimeoutMs, conn, query, ub>>
      /\ thrown' = "none" /\ let' = [let EXCEPT !.assigned = @ \cup Overwrites(s)]
  BY <1>1 DEF CompileStatement, Returns, dbvars
<1>3. mpDB \in Conns /\ conn[mpDB].st = "open" /\ (v # NULL => vm[v].st = "none")
  BY <1>0 DEF CompileStatement, CanCompile, Fresh, TypeOK
<1>4. Compiled(rows) \in VMState /\ Compiled(rows).st = "live" /\ Compiled(rows).conn = mpDB
  BY <1>3, Bounds DEF Compiled, NoVM, VMState
<1>5. x \in StmtState /\ x.alive /\ x.mpVM = v /\ x.mpDB = mpDB
  BY <1>1, <1>3 DEF StmtState, Ptr
<1>6. vm' \in [VMs -> VMState] /\ \A w \in VMs : vm'[w] = IF w = v THEN Compiled(rows) ELSE vm[w]
  <2>1. CASE v = NULL
    BY <1>0, <1>2, <2>1 DEF TypeOK
  <2>2. CASE v # NULL
    BY <1>0, <1>2, <1>4, <2>2 DEF TypeOK, Ptr
  <2> QED
    BY <2>1, <2>2
<1>7. life' = HandedOut(life, v)
  BY <1>4, <1>6 DEF life, HandedOut
<1>8. kept' = [kept EXCEPT ![s] = v]
  <2>1. kept' = [kept EXCEPT ![s] = x.mpVM]
    BY <1>0, <1>2, StatementChanged
  <2> QED
    BY <1>5, <2>1
<1>9. let' \in LetGo /\ let'.conns = let.conns /\ let'.pulled = let.pulled
      /\ let'.assigned = let.assigned \cup ({kept[s]} \ {NULL})
  BY <1>0, <1>2 DEF TypeOK, LetGo, StmtState, Overwrites, kept
<1>10. Accounted(own, held, kept', life', let'.assigned, let'.pulled)
  <2>1. v # NULL => life[v] = "none"
    BY <1>3 DEF life, Ptr
  <2>2. Accounted(own, held, [kept EXCEPT ![s] = v], HandedOut(life, v),
                  let.assigned \cup ({kept[s]} \ {NULL}), let.pulled)
    BY <1>0, <2>1, ProjectionTypes, GivenToStatement DEF IInv
  <2> QED
    BY <1>7, <1>8, <1>9, <2>2
<1>11. stmt' \in [Statements -> StmtState] /\ \A t \in Statements : stmt'[t] = IF t = s THEN x ELSE stmt[t]
  BY <1>0, <1>2, <1>5 DEF TypeOK
<1>12. StatementsFit
  <2>1. ASSUME NEW t \in Statements, stmt'[t].mpVM # NULL
        PROVE  stmt'[t] = stmt[t] \/ StatementFits(stmt'[t], vm'[stmt'[t].mpVM])
    <3>1. CASE t = s
      BY <1>4, <1>5, <1>6, <1>11, <2>1, <3>1 DEF StatementFits, Ptr
    <3>2. CASE t # s
      BY <1>11, <3>2
    <3> QED
      BY <3>1, <3>2
  <2> QED
    BY <2>1 DEF StatementsFit
<1>13. \A w \in VMs : vm'[w].st = "live" =>
          \/ vm'[w] = vm[w]
          \/ vm[w].st = "none" /\ vm'[w].conn \in Conns /\ conn[vm'[w].conn].st = "open"
  BY <1>0, <1>3, <1>4, <1>6
<1> QED
  BY <1>2, <1>6, <1>9, <1>10, <1>11, <1>12, <1>13, StatementsStep

(* Lemma: the copy constructor and operator= of a statement.                 *)
LEMMA CopyStatementStep ==
    ASSUME IInv, ub = "", NEW s \in Statements, NEW t \in Statements, CopyStatement(s, t)
    PROVE  IInv'
<1>0. TypeOK /\ NULL \notin VMs
  BY SqliteAssumption DEF IInv
<1>1. /\ stmt' = [stmt EXCEPT ![s] = stmt[t], ![t].mpVM = NULL]
      /\ UNCHANGED <<mpDB, mnBusyTimeoutMs, conn, vm, query, ub>>
      /\ thrown' = "none" /\ let' = [let EXCEPT !.assigned = @ \cup Overwrites(s)]
  BY DEF CopyStatement, Returns, dbvars
<1>2. PICK y : y = [stmt[t] EXCEPT !.mpVM = NULL]
  OBVIOUS
<1>3. stmt[t] \in StmtState /\ y \in StmtState /\ y.mpVM = NULL
  <2>1. stmt[t] \in StmtState
    BY <1>0 DEF TypeOK
  <2> QED
    BY <1>2, <2>1, StatementRecords
<1>4. \A u \in Statements : stmt'[u] = IF u = t THEN y ELSE IF u = s THEN stmt[t] ELSE stmt[u]
  BY <1>0, <1>1, <1>2 DEF TypeOK
<1>5. stmt' \in [Statements -> StmtState]
  BY <1>0, <1>1, <1>3, <1>4 DEF TypeOK
<1>6. kept' = [kept EXCEPT ![s] = kept[t], ![t] = NULL]
  <2>1. kept' = [u \in Statements |-> IF u = t THEN NULL ELSE IF u = s THEN stmt[t].mpVM ELSE stmt[u].mpVM]
    BY <1>3, <1>4 DEF kept
  <2> QED
    BY <2>1 DEF kept
<1>7. let' \in LetGo /\ let'.conns = let.conns /\ let'.pulled = let.pulled
      /\ let'.assigned = let.assigned \cup ({kept[s]} \ {NULL})
  BY <1>0, <1>1 DEF TypeOK, LetGo, StmtState, Overwrites, kept
<1>8. life' = life
  BY <1>1 DEF life
<1>9. Accounted(own, held, kept', life', let'.assigned, let'.pulled)
  <2>1. Accounted(own, held, [kept EXCEPT ![s] = kept[t], ![t] = NULL], life,
                  let.assigned \cup ({kept[s]} \ {NULL}), let.pulled)
    BY <1>0, ProjectionTypes, MovedToStatement DEF IInv
  <2> QED
    BY <1>6, <1>7, <1>8, <2>1
<1>10. StatementsFit
  <2>1. ASSUME NEW u \in Statements, stmt'[u].mpVM # NULL
        PROVE  stmt'[u] = stmt[u] \/ StatementFits(stmt'[u], vm'[stmt'[u].mpVM])
    <3>1. CASE u = s
      <4>1. stmt'[u] = stmt[t] /\ stmt[t].mpVM # NULL
        BY <1>3, <1>4, <2>1, <3>1
      <4>2. StatementFits(stmt[t], vm[stmt[t].mpVM])
        BY <1>0, <4>1 DEF IInv, DeadHoldNothing, MPDBs, StatementFits
      <4> QED
        BY <1>1, <4>1, <4>2
    <3>2. CASE u # s
      BY <1>3, <1>4, <2>1, <3>2
    <3> QED
      BY <3>1, <3>2
  <2> QED
    BY <2>1 DEF StatementsFit
<1> QED
  BY <1>0, <1>1, <1>5, <1>7, <1>9, <1>10, StatementsStep DEF TypeOK

(* Lemma: finalize() of a statement and its destructor.                      *)
LEMMA CloseStatementStep ==
    ASSUME IInv, ub = "", NEW s \in Statements, NEW destroyed \in BOOLEAN, CloseStatement(s, destroyed)
    PROVE  IInv'
<1>0. TypeOK /\ NULL \notin VMs /\ stmt[s] \in StmtState
  BY SqliteAssumption DEF IInv, TypeOK
<1>1. CASE Dangling(stmt[s].mpVM)
  <2>1. Undefined("dangling vm")
    BY <1>1 DEF CloseStatement
  <2> QED
    BY <1>1, <2>1, OwnerDangles, UndefinedStep
<1>2. CASE ~Dangling(stmt[s].mpVM)
  <2>1. PICK x : x = IF destroyed THEN Dead(CppSQLite3Statement) ELSE [stmt[s] EXCEPT !.mpVM = NULL]
    OBVIOUS
  <2>2. /\ vm' = IF stmt[s].mpVM = NULL THEN vm
                 ELSE [vm EXCEPT ![stmt[s].mpVM] = sqlite3_finalize(@)]
        /\ stmt' = [stmt EXCEPT ![s] = x] /\ UNCHANGED <<mpDB, mnBusyTimeoutMs, conn, query, let, ub>>
        /\ thrown' = "none"
    BY <1>2, <2>1 DEF CloseStatement, Returns, dbvars
  <2>3. x \in StmtState /\ x.mpVM = NULL
    BY <1>0, <2>1, StatementRecords
  <2>4. FinalizedVMs(vm', kept[s])
    <3>1. CASE stmt[s].mpVM = NULL
      BY <1>0, <2>2, <3>1 DEF TypeOK, FinalizedVMs, kept
    <3>2. CASE stmt[s].mpVM # NULL
      <4>1. PICK v \in VMs : v = stmt[s].mpVM
        BY <1>0, <3>2 DEF StmtState
      <4>2. vm' = [vm EXCEPT ![v] = sqlite3_finalize(@)] /\ kept[s] = v
        BY <2>2, <3>2, <4>1 DEF kept
      <4> QED
        BY <1>0, <4>2, VMFinalized
    <3> QED
      BY <3>1, <3>2
  <2>5. life' = Finalized(life, kept[s])
    BY <2>4 DEF FinalizedVMs, life, Finalized
  <2>6. kept' = [kept EXCEPT ![s] = NULL]
    <3>1. kept' = [kept EXCEPT ![s] = x.mpVM]
      BY <1>0, <2>2, StatementChanged
    <3> QED
      BY <2>3, <3>1
  <2>7. Accounted(own, held, kept', life', let'.assigned, let'.pulled)
    <3>1. Accounted(own, held, kept', life', let.assigned, let.pulled)
      BY <1>0, <2>5, <2>6, ProjectionTypes, ReleasedByStatement DEF IInv
    <3> QED
      BY <2>2, <3>1
  <2>8. stmt' \in [Statements -> StmtState] /\ StatementsFit
    BY <1>0, <2>2, <2>3 DEF TypeOK, StatementsFit
  <2> QED
    BY <1>0, <2>2, <2>4, <2>7, <2>8, StatementsStep DEF TypeOK, FinalizedVMs
<1> QED
  BY <1>1, <1>2

(* Lemma: a statement without obstacle has a live VM of an open connection.  *)
LEMMA NoObstacle ==
    ASSUME IInv, NEW s \in Statements, stmt[s].mpVM # NULL, ~Dangling(stmt[s].mpVM)
    PROVE  /\ stmt[s].mpVM \in VMs /\ vm[stmt[s].mpVM] \in VMState
           /\ vm[stmt[s].mpVM].st = "live" /\ vm[stmt[s].mpVM].conn \in Conns
           /\ stmt[s].mpDB = vm[stmt[s].mpVM].conn
<1>1. PICK v \in VMs : v = stmt[s].mpVM
  BY DEF IInv, TypeOK, StmtState
<1>2. vm[v] \in VMState
  BY DEF IInv, TypeOK
<1>3. vm[v].st # "none"
  BY <1>1 DEF IInv, Accounted, HandlesGiven, kept, life
<1>4. vm[v].st = "live"
  BY <1>1, <1>2, <1>3 DEF Dangling, VMState
<1> QED
  BY <1>1, <1>2, <1>4 DEF IInv, VMsOfOpen, MPDBs

(* Lemma: CppSQLite3Statement::execDML.                                      *)
LEMMA StatementExecDMLStep ==
    ASSUME IInv, ub = "", NEW s \in Statements, NEW fails \in BOOLEAN, StatementExecDML(s, fails)
    PROVE  IInv'
<1>1. CASE Obstacle(s) = "CPPSQLITE"
  <2>1. Throw("CPPSQLITE")
    BY <1>1 DEF StatementExecDML
  <2> QED
    BY <2>1, ThrowStep
<1>2. CASE Obstacle(s) # "CPPSQLITE" /\ Dangling(stmt[s].mpVM)
  <2>1. Obstacle(s) = "dangling vm"
    BY <1>2 DEF Obstacle
  <2>2. Undefined("dangling vm")
    BY <2>1 DEF StatementExecDML
  <2> QED
    BY <1>2, <2>2, OwnerDangles, UndefinedStep
<1>3. CASE Obstacle(s) # "CPPSQLITE" /\ ~Dangling(stmt[s].mpVM)
  <2>1. stmt[s].mpVM # NULL /\ Obstacle(s) = ""
    BY <1>3 DEF Obstacle
  <2>2. PICK v \in VMs : v = stmt[s].mpVM /\ vm[v] \in VMState
    BY <1>3, <2>1, NoObstacle
  <2>3. PICK n : n = sqlite3_reset(Step(vm[v], NULL, fails))
    OBVIOUS
  <2>4. n \in VMState /\ n.st = vm[v].st /\ n.conn = vm[v].conn /\ n.user = NULL
    <3>1. PICK m \in VMState : m = vm[v]
      BY <2>2
    <3>2. NULL \in Queries \cup {NULL}
      OBVIOUS
    <3>3. Step(m, NULL, fails) \in VMState /\ Step(m, NULL, fails).st = m.st /\ Step(m, NULL, fails).conn = m.conn
      BY <3>2, VMRecords, ZenonT(40)
    <3>4. PICK d \in VMState : d = Step(m, NULL, fails)
      BY <3>3
    <3>5. sqlite3_reset(d) \in VMState /\ sqlite3_reset(d).st = d.st
          /\ sqlite3_reset(d).conn = d.conn /\ sqlite3_reset(d).user = NULL
      BY <3>2, VMRecords, Zenon
    <3> QED
      BY <2>3, <3>1, <3>3, <3>4, <3>5
  <2>5. /\ vm' = [vm EXCEPT ![v] = n]
        /\ thrown' = IF fails THEN "SQLITE"
                     ELSE IF HasRow(Step(vm[v], NULL, FALSE)) THEN "OK" ELSE "none"
        /\ UNCHANGED <<mpDB, mnBusyTimeoutMs, conn, query, stmt, let, ub>>
    <3>1. /\ vm' = [vm EXCEPT ![v] = sqlite3_reset(Step(@, NULL, fails))]
          /\ thrown' = IF fails THEN "SQLITE"
                       ELSE IF HasRow(Step(vm[v], NULL, FALSE)) THEN "OK" ELSE "none"
          /\ UNCHANGED <<dbvars, conn, query, stmt, ub, let>>
      BY <2>1, <2>2 DEF StatementExecDML
    <3> QED
      BY <2>3, <3>1 DEF dbvars
  <2>6. thrown' \in {"none", "OK", "SQLITE", "CPPSQLITE"}
    BY <2>5
  <2> QED
    BY <2>4, <2>5, <2>6, RewoundStep
<1> QED
  BY <1>1, <1>2, <1>3

(* Lemma: reset() of a statement.                                            *)
LEMMA ResetStatementStep ==
    ASSUME IInv, ub = "", NEW s \in Statements, ResetStatement(s)
    PROVE  IInv'
<1>1. CASE stmt[s].mpVM = NULL
  BY <1>1, ThrowStep DEF ResetStatement
<1>2. CASE stmt[s].mpVM # NULL /\ Dangling(stmt[s].mpVM)
  <2>1. Undefined("dangling vm")
    BY <1>2 DEF ResetStatement
  <2> QED
    BY <1>2, <2>1, OwnerDangles, UndefinedStep
<1>3. CASE stmt[s].mpVM # NULL /\ ~Dangling(stmt[s].mpVM)
  <2>1. PICK v \in VMs : v = stmt[s].mpVM /\ vm[v] \in VMState
    BY <1>3, NoObstacle
  <2>2. PICK n : n = sqlite3_reset(vm[v])
    OBVIOUS
  <2>3. n \in VMState /\ n.st = vm[v].st /\ n.conn = vm[v].conn /\ n.user = NULL
    BY <2>1, <2>2, VMRecords
  <2>4. vm' = [vm EXCEPT ![v] = n] /\ UNCHANGED <<mpDB, mnBusyTimeoutMs, conn, query, stmt, let, ub>>
        /\ thrown' = "none"
    BY <1>3, <2>1, <2>2 DEF ResetStatement, Returns, dbvars
  <2> QED
    BY <2>3, <2>4, RewoundStep
<1> QED
  BY <1>1, <1>2, <1>3

(* Lemma: the calls that read a VM: bind(), and the accessors of a query.    *)
LEMMA ReadingStep ==
    ASSUME IInv, ub = "",
           (\E s \in Statements : Bind(s)) \/ (\E q \in Queries : ReadField(q))
    PROVE  IInv'
<1>1. ASSUME NEW s \in Statements, Bind(s)
      PROVE  IInv'
  <2>1. CASE stmt[s].mpVM # NULL /\ Dangling(stmt[s].mpVM)
    <3>1. Undefined("dangling vm")
      BY <1>1, <2>1 DEF Bind
    <3> QED
      BY <2>1, <3>1, OwnerDangles, UndefinedStep
  <2>2. CASE ~(stmt[s].mpVM # NULL /\ Dangling(stmt[s].mpVM))
    <3>1. Throw("CPPSQLITE") \/ Throw("none") \/ Throw("SQLITE")
      BY <1>1, <2>2 DEF Bind
    <3> QED
      BY <3>1, ThrowStep
  <2> QED
    BY <2>1, <2>2
<1>2. ASSUME NEW q \in Queries, ReadField(q)
      PROVE  IInv'
  <2>1. CASE query[q].mpVM # NULL /\ Dangling(query[q].mpVM)
    <3>1. Undefined("dangling vm")
      BY <1>2, <2>1 DEF ReadField
    <3> QED
      BY <2>1, <3>1, OwnerDangles, UndefinedStep
  <2>2. CASE ~(query[q].mpVM # NULL /\ Dangling(query[q].mpVM))
    <3>1. Throw("CPPSQLITE") \/ Throw("none")
      BY <1>2, <2>2 DEF ReadField
    <3> QED
      BY <3>1, ThrowStep
  <2> QED
    BY <2>1, <2>2
<1> QED
  BY <1>1, <1>2

\* The query `old' after it has received such a query.
SharedWith(old, v, m) ==
    IF old.alive THEN Assigned(old, [Constructed(v, m, FALSE) EXCEPT !.mpDB = m.conn])
    ELSE [Constructed(v, m, FALSE) EXCEPT !.mpDB = m.conn]

(* Lemma: a query of CppSQLite3Statement::execQuery, which shares the VM of  *)
(* the statement and reads errors from the statement's handle.               *)
LEMMA SharedRecord ==
    ASSUME NEW v \in VMs, NEW m \in VMState, NEW n \in VMState, m.conn \in Conns,
           n.pos = m.pos, n.rows = m.rows, NEW old \in QueryState
    PROVE  /\ SharedWith(old, v, m) \in QueryState /\ SharedWith(old, v, m).mpVM = v
           /\ OwnVM(SharedWith(old, v, m)) = NULL /\ SharedWith(old, v, m).alive
           /\ SharedWith(old, v, m).moved \/ SharedWith(old, v, m).mpDB = m.conn
           /\ m.pos = 1 => InStep(SharedWith(old, v, m), n)
<1>0. PICK x : x = SharedWith(old, v, m)
  OBVIOUS
<1>1. PICK c \in QueryState : c = Constructed(v, m, FALSE)
  BY ConstructedRecord
<1>2. c.alive /\ c.mpVM = v /\ c.mpDB = m.conn /\ OwnVM(c) = NULL /\ (m.pos = 1 => InStep(c, m))
  BY <1>1, ConstructedRecord
<1>3. [c EXCEPT !.mpDB = m.conn] = c
  BY <1>2 DEF QueryState
<1>4. m.pos = 1 => InStep(c, n)
  BY <1>2 DEF InStep
<1>5. CASE old.alive
  <2>1. x = Assigned(old, c)
    BY <1>0, <1>1, <1>3, <1>5 DEF SharedWith
  <2>2. x \in QueryState /\ x.alive /\ x.moved /\ TakesAfter(x, c)
    BY <2>1, AssignedRecord
  <2> QED
    BY <1>0, <1>2, <1>4, <2>2 DEF TakesAfter
<1>6. CASE ~old.alive
  <2>1. x = c
    BY <1>0, <1>1, <1>3, <1>6 DEF SharedWith
  <2> QED
    BY <1>0, <1>2, <1>4, <2>1
<1> QED
  BY <1>5, <1>6

\* The call past its obstacles.
SharesVM(s, q) ==
    LET v == stmt[s].mpVM
        m == Step(vm[v], q, FALSE)
    IN  /\ vm' = FinalizeQuery(query[q], [vm EXCEPT ![v] =
                      [m EXCEPT !.user = IF vm[v].pos = 0 THEN q ELSE NULL]])
        /\ query' = [query EXCEPT ![q] = Receive(q, [Constructed(v, m, FALSE) EXCEPT !.mpDB = stmt[s].mpDB])]
        /\ thrown' = "none" /\ UNCHANGED <<mpDB, mnBusyTimeoutMs, conn, stmt, let, ub>>

(* Lemma: CppSQLite3Statement::execQuery, when the step succeeds.            *)
LEMMA SharedQueryStep ==
    ASSUME IInv, ub = "", NEW s \in Statements, NEW q \in Queries,
           stmt[s].mpVM # NULL, ~Dangling(stmt[s].mpVM), SharesVM(s, q)
    PROVE  IInv'
<1>0. TypeOK /\ NULL \notin VMs /\ NULL \notin Queries /\ query[q] \in QueryState
  BY SqliteAssumption DEF IInv, TypeOK
<1>1. PICK v \in VMs : v = stmt[s].mpVM
  BY NoObstacle
<1>2. vm[v] \in VMState /\ vm[v].st = "live" /\ vm[v].conn \in Conns /\ stmt[s].mpDB = vm[v].conn
  BY <1>1, NoObstacle
<1>2a. PICK m : m = Step(vm[v], q, FALSE)
  OBVIOUS
<1>2b. /\ thrown' = "none" /\ UNCHANGED <<mpDB, mnBusyTimeoutMs, conn, stmt, let, ub>>
      /\ vm' = FinalizeQuery(query[q], [vm EXCEPT ![v] =
                    [m EXCEPT !.user = IF vm[v].pos = 0 THEN q ELSE NULL]])
      /\ query' = [query EXCEPT ![q] = Receive(q, [Constructed(v, m, FALSE) EXCEPT !.mpDB = stmt[s].mpDB])]
  BY <1>1, <1>2a DEF SharesVM
<1>3. m \in VMState /\ m.st = "live" /\ m.conn = vm[v].conn /\ m.pos = NextPos(vm[v])
  <2>1. PICK d \in VMState : d = vm[v]
    BY <1>2
  <2>2. Step(d, q, FALSE) \in VMState /\ Step(d, q, FALSE).st = d.st /\ Step(d, q, FALSE).conn = d.conn
        /\ Step(d, q, FALSE).pos = NextPos(d)
    BY VMRecords, ZenonT(40)
  <2> QED
    BY <1>2a, <1>2, <2>1, <2>2
<1>4. PICK n : n = [m EXCEPT !.user = IF vm[v].pos = 0 THEN q ELSE NULL]
  OBVIOUS
<1>5. /\ n \in VMState /\ n.st = "live" /\ n.conn = m.conn /\ n.pos = m.pos /\ n.rows = m.rows
      /\ n.user = IF vm[v].pos = 0 THEN q ELSE NULL
  BY <1>3, <1>4 DEF VMState
<1>6. PICK x : x = Receive(q, [Constructed(v, m, FALSE) EXCEPT !.mpDB = m.conn])
  OBVIOUS
<1>7. query' = [query EXCEPT ![q] = x]
  BY <1>2b, <1>2, <1>3, <1>6
<1>8. /\ x \in QueryState /\ x.mpVM = v /\ OwnVM(x) = NULL /\ x.alive
      /\ (x.moved \/ x.mpDB = m.conn) /\ (m.pos = 1 => InStep(x, n))
  <2>1. PICK old \in QueryState : old = query[q]
    BY <1>0
  <2>2. x = SharedWith(old, v, m)
    BY <1>6, <2>1 DEF Receive, SharedWith
  <2>3. m \in VMState /\ n \in VMState /\ m.conn \in Conns /\ n.pos = m.pos /\ n.rows = m.rows
    BY <1>2, <1>3, <1>5
  <2>4. /\ SharedWith(old, v, m) \in QueryState /\ SharedWith(old, v, m).mpVM = v
        /\ OwnVM(SharedWith(old, v, m)) = NULL /\ SharedWith(old, v, m).alive
        /\ SharedWith(old, v, m).moved \/ SharedWith(old, v, m).mpDB = m.conn
        /\ m.pos = 1 => InStep(SharedWith(old, v, m), n)
    BY <2>3, SharedRecord
  <2> QED
    BY <2>2, <2>4
<1>9. own[q] # v
  BY <1>0, <1>1 DEF IInv, Accounted, OwnersApart, kept
<1>10. vm' = FinalizeQuery(query[q], [vm EXCEPT ![v] = n])
  BY <1>2b, <1>4
<1>11. /\ vm' \in [VMs -> VMState]
       /\ \A w \in VMs : vm'[w].st = IF w = own[q] THEN "final" ELSE vm[w].st
       /\ vm'[v] = n
       /\ \A w \in VMs : vm'[w].st = "live" /\ w # v => vm'[w] = vm[w]
  <2>1. CASE query[q].mpVM # NULL /\ query[q].mbOwnVM
    <3>1. PICK u \in VMs : u = query[q].mpVM
      BY <1>0, <2>1 DEF QueryState
    <3>2. own[q] = u /\ u # v
      BY <1>9, <2>1, <3>1 DEF own, OwnVM
    <3>3. vm' = [[vm EXCEPT ![v] = n] EXCEPT ![u] = sqlite3_finalize(@)]
      BY <1>10, <2>1, <3>1 DEF FinalizeQuery
    <3>4. \A w \in VMs : vm'[w] = IF w = u THEN sqlite3_finalize(vm[u]) ELSE IF w = v THEN n ELSE vm[w]
      BY <1>0, <3>2, <3>3 DEF TypeOK
    <3>5. vm[u] \in VMState
      BY <1>0 DEF TypeOK
    <3>6. sqlite3_finalize(vm[u]) \in VMState /\ sqlite3_finalize(vm[u]).st = "final"
      BY <3>5, VMRecords
    <3>7. vm' \in [VMs -> VMState]
      BY <1>0, <1>5, <3>3, <3>4, <3>6 DEF TypeOK
    <3> QED
      BY <1>2, <1>5, <3>2, <3>4, <3>6, <3>7
  <2>2. CASE ~(query[q].mpVM # NULL /\ query[q].mbOwnVM)
    <3>1. own[q] = NULL
      BY <2>2 DEF own, OwnVM
    <3>2. vm' = [vm EXCEPT ![v] = n]
      BY <1>10, <2>2 DEF FinalizeQuery
    <3>3. vm' \in [VMs -> VMState] /\ \A w \in VMs : vm'[w] = IF w = v THEN n ELSE vm[w]
      BY <1>0, <1>5, <3>2 DEF TypeOK
    <3> QED
      BY <1>0, <1>2, <1>5, <3>1, <3>3
  <2> QED
    BY <2>1, <2>2
<1>12. life' = Finalized(life, own[q])
  <2>1. life' = [w \in VMs |-> IF w = own[q] THEN "final" ELSE vm[w].st]
    BY <1>11 DEF life
  <2> QED
    BY <2>1 DEF life, Finalized
<1>13. own' = [own EXCEPT ![q] = NULL] /\ held' = [held EXCEPT ![q] = v]
  <2>1. own' = [own EXCEPT ![q] = OwnVM(x)] /\ held' = [held EXCEPT ![q] = x.mpVM]
    BY <1>0, <1>7, QueryChanged
  <2> QED
    BY <1>8, <2>1
<1>14. kept' = kept
  BY <1>2b DEF kept
<1>15. Accounted(own', held', kept', life', let.assigned, let.pulled)
  <2>1. v \in Ptr /\ life[v] # "none"
    BY <1>2 DEF life, Ptr
  <2>2. Accounted([own EXCEPT ![q] = NULL], [held EXCEPT ![q] = v], kept,
                  Finalized(life, own[q]), let.assigned, let.pulled)
    BY <1>0, <2>1, ProjectionTypes, ReleasedByQuery DEF IInv
  <2> QED
    BY <1>12, <1>13, <1>14, <2>2
<1>16. Accounted(own, held, kept, life, let.assigned, let.pulled)'
  BY <1>2b, <1>15
<1>17. TypeOK'
  <2>1. query' \in [Queries -> QueryState]
    BY <1>0, <1>7, <1>8 DEF TypeOK
  <2> QED
    BY <1>2b, <1>0, <1>11, <2>1 DEF TypeOK
<1>18. QueriesFit
  <2>1. ASSUME NEW p \in Queries, query'[p].mpVM # NULL
        PROVE  \/ query'[p] = query[p] /\ (vm'[query[p].mpVM].st = "live" /\ vm'[query[p].mpVM].user = p
                                              => vm'[query[p].mpVM] = vm[query[p].mpVM])
               \/ QueryFits(p, query'[p], vm'[query'[p].mpVM])
    <3>1. CASE p = q
      <4>1. query'[p] = x
        BY <1>0, <1>7, <3>1 DEF TypeOK
      <4>2. n.user = q => InStep(x, n)
        <5>1. n.user = q => vm[v].pos = 0
          BY <1>0, <1>5
        <5>2. vm[v].pos = 0 => m.pos = 1
          BY <1>2, <1>3, FirstStep
        <5> QED
          BY <1>8, <5>1, <5>2
      <4> QED
        BY <1>5, <1>8, <1>11, <3>1, <4>1, <4>2 DEF QueryFits
    <3>2. CASE p # q
      <4>1. query'[p] = query[p]
        BY <1>0, <1>7, <3>2 DEF TypeOK
      <4>2. PICK w \in VMs : w = query[p].mpVM
        BY <1>0, <2>1, <4>1 DEF TypeOK, QueryState
      <4>3. vm'[w].st = "live" /\ vm'[w].user = p => vm'[w] = vm[w]
        <5>1. n.user # p
          BY <1>0, <1>5, <3>2
        <5> QED
          BY <1>11, <5>1
      <4> QED
        BY <4>1, <4>2, <4>3
    <3> QED
      BY <3>1, <3>2
  <2> QED
    BY <2>1 DEF QueriesFit
<1>19. VMsComeFromOpen
  BY <1>2b, <1>2, <1>3, <1>5, <1>11 DEF VMsComeFromOpen
<1>20. StatementsFit /\ UndefinedOnlyByMisuse'
  BY <1>2b DEF StatementsFit, UndefinedOnlyByMisuse
<1> QED
  BY <1>2b, <1>16, <1>17, <1>18, <1>19, <1>20, ObjectsStep

(* Lemma: CppSQLite3Statement::execQuery.                                    *)
LEMMA StatementExecQueryStep ==
    ASSUME IInv, ub = "", NEW s \in Statements, NEW q \in Queries, NEW fails \in BOOLEAN,
           StatementExecQuery(s, q, fails)
    PROVE  IInv'
<1>1. CASE Obstacle(s) = "CPPSQLITE"
  <2>1. Throw("CPPSQLITE")
    BY <1>1 DEF StatementExecQuery
  <2> QED
    BY <2>1, ThrowStep
<1>2. CASE Obstacle(s) # "CPPSQLITE" /\ Dangling(stmt[s].mpVM)
  <2>1. Obstacle(s) = "dangling vm"
    BY <1>2 DEF Obstacle
  <2>2. Undefined("dangling vm")
    BY <2>1 DEF StatementExecQuery
  <2> QED
    BY <1>2, <2>2, OwnerDangles, UndefinedStep
<1>3. CASE Obstacle(s) # "CPPSQLITE" /\ ~Dangling(stmt[s].mpVM)
  <2>1. stmt[s].mpVM # NULL /\ Obstacle(s) = ""
    BY <1>3 DEF Obstacle
  <2>2. CASE fails
    <3>1. PICK v \in VMs : v = stmt[s].mpVM /\ vm[v] \in VMState
      BY <1>3, <2>1, NoObstacle
    <3>2. PICK n : n = sqlite3_reset(vm[v])
      OBVIOUS
    <3>3. n \in VMState /\ n.st = vm[v].st /\ n.conn = vm[v].conn /\ n.user = NULL
      BY <3>1, <3>2, VMRecords
    <3>4. vm' = [vm EXCEPT ![v] = n] /\ UNCHANGED <<mpDB, mnBusyTimeoutMs, conn, query, stmt, let, ub>>
          /\ thrown' = "SQLITE"
      BY <2>1, <2>2, <3>1, <3>2 DEF StatementExecQuery, dbvars
    <3> QED
      BY <3>3, <3>4, RewoundStep
  <2>3. CASE ~fails /\ query[q].mbOwnVM /\ Dangling(query[q].mpVM)
    <3>1. Undefined("dangling vm")
      BY <2>1, <2>3 DEF StatementExecQuery
    <3> QED
      BY <2>3, <3>1, OwnerDangles, UndefinedStep
  <2>4. CASE ~fails /\ ~(query[q].mbOwnVM /\ Dangling(query[q].mpVM))
    <3>1. SharesVM(s, q)
      BY <2>1, <2>4 DEF StatementExecQuery, SharesVM, Returns, dbvars
    <3> QED
      BY <1>3, <2>1, <3>1, SharedQueryStep
  <2> QED
    BY <2>2, <2>3, <2>4
<1> QED
  BY <1>1, <1>2, <1>3

-----------------------------------------------------------------------------
(* Calls on the database object                                              *)

(* Lemma: a call that leaves VMs, queries and statements alone.              *)
LEMMA DatabaseStep ==
    ASSUME IInv, ub = "", UNCHANGED <<vm, query, stmt, ub>>, TypeOK',
           let'.assigned = let.assigned, let'.pulled = let.pulled,
           VMsOfOpen', DBHandle', ConnectionsAccounted', TimeoutInForce'
    PROVE  IInv'
<1>1. own' = own
  BY DEF own, OwnVM
<1>2. held' = held /\ kept' = kept /\ life' = life
  BY DEF held, kept, life
<1>3. Accounted(own, held, kept, life, let.assigned, let.pulled)'
  <2>1. Accounted(own', held', kept', life', let'.assigned, let'.pulled)
    BY <1>1, <1>2 DEF IInv
  <2> QED
    BY <2>1
<1>4. DeadHoldNothing' /\ MPDBs' /\ UndefinedOnlyByMisuse'
  BY DEF IInv, DeadHoldNothing, MPDBs, UndefinedOnlyByMisuse
<1>5. RowsInStep'
  BY DEF IInv, RowsInStep, InStep
<1> QED
  BY <1>3, <1>4, <1>5 DEF IInv

(* Lemma: open().                                                            *)
LEMMA OpenStep ==
    ASSUME IInv, ub = "", NEW c \in Conns, NEW st \in {"open", "sick"}, Open(c, st)
    PROVE  IInv'
<1>0. TypeOK /\ NULL \notin Conns
  BY SqliteAssumption DEF IInv
<1>1. conn[c].st = "none" /\ conn[c] \in ConnState
  BY <1>0 DEF Open, Fresh, TypeOK
<1>2. PICK t : t = IF st = "open" THEN mnBusyTimeoutMs ELSE conn[c].timeout
  OBVIOUS
<1>3. t \in Timeouts \cup {0} /\ (st = "open" => t = mnBusyTimeoutMs)
  BY <1>0, <1>1, <1>2 DEF TypeOK, ConnState
<1>4. /\ conn' \in [Conns -> ConnState]
      /\ conn'[c].st = st /\ conn'[c].timeout = t
      /\ \A d \in Conns : d # c => conn'[d] = conn[d]
  <2>1. PICK e : e = [conn EXCEPT ![c].st = st]
    OBVIOUS
  <2>2. e \in [Conns -> ConnState] /\ e[c].st = st /\ e[c].timeout = conn[c].timeout
        /\ \A d \in Conns : d # c => e[d] = conn[d]
    BY <1>0, <1>1, <2>1 DEF TypeOK, ConnState
  <2>3. CASE st = "open"
    <3>1. conn' = [e EXCEPT ![c].timeout = t]
      BY <1>2, <2>1, <2>3 DEF Open, setBusyTimeout
    <3> QED
      BY <1>3, <2>2, <3>1 DEF ConnState
  <2>4. CASE st # "open"
    <3>1. conn' = e /\ t = conn[c].timeout
      BY <1>2, <2>1, <2>4 DEF Open
    <3> QED
      BY <1>3, <2>2, <3>1 DEF ConnState
  <2> QED
    BY <2>3, <2>4
<1>5. mpDB' = c /\ UNCHANGED <<mnBusyTimeoutMs, vm, query, stmt, ub>>
      /\ let' = [let EXCEPT !.conns = @ \cup ({mpDB} \ {NULL})]
      /\ thrown' \in {"none", "SQLITE"}
  BY DEF Open
<1>6. let' \in LetGo /\ let'.assigned = let.assigned /\ let'.pulled = let.pulled
      /\ let'.conns = let.conns \cup ({mpDB} \ {NULL})
  BY <1>0, <1>5 DEF TypeOK, LetGo
<1>7. TypeOK'
  BY <1>0, <1>4, <1>5, <1>6 DEF TypeOK
<1>8. VMsOfOpen'
  BY <1>1, <1>4, <1>5 DEF IInv, VMsOfOpen
<1>9. DBHandle'
  <2>1. mpDB' = c /\ conn'[c].st \in {"open", "sick"}
    BY <1>4, <1>5
  <2> QED
    BY <2>1 DEF DBHandle
<1>10. ConnectionsAccounted'
  BY <1>0, <1>4, <1>5, <1>6 DEF IInv, ConnectionsAccounted
<1>11. TimeoutInForce'
  <2>1. conn'[c].st = "open" => conn'[c].timeout = mnBusyTimeoutMs
    BY <1>3, <1>4
  <2> QED
    BY <1>5, <2>1 DEF TimeoutInForce
<1> QED
  BY <1>5, <1>6, <1>7, <1>8, <1>9, <1>10, <1>11, DatabaseStep

(* Lemma: open() without memory for a handle.                                *)
LEMMA OpenNoMemStep ==
    ASSUME IInv, ub = "", OpenNoMem
    PROVE  IInv'
<1>0. TypeOK /\ NULL \notin Conns
  BY SqliteAssumption DEF IInv
<1>1. mpDB' = NULL /\ UNCHANGED <<mnBusyTimeoutMs, conn, vm, query, stmt, ub>> /\ thrown' = "SQLITE"
      /\ let' = [let EXCEPT !.conns = @ \cup ({mpDB} \ {NULL})]
  BY DEF OpenNoMem
<1>2. let' \in LetGo /\ let'.assigned = let.assigned /\ let'.pulled = let.pulled
      /\ let'.conns = let.conns \cup ({mpDB} \ {NULL})
  BY <1>0, <1>1 DEF TypeOK, LetGo
<1>3. TypeOK'
  BY <1>0, <1>1, <1>2 DEF TypeOK
<1>4. VMsOfOpen' /\ DBHandle' /\ TimeoutInForce'
  BY <1>1 DEF IInv, VMsOfOpen, DBHandle, TimeoutInForce
<1>5. ConnectionsAccounted'
  BY <1>0, <1>1, <1>2 DEF IInv, ConnectionsAccounted
<1> QED
  BY <1>1, <1>2, <1>3, <1>4, <1>5, DatabaseStep

(* Lemma: close().                                                           *)
LEMMA CloseDBStep ==
    ASSUME IInv, ub = "", CloseDB
    PROVE  IInv'
<1>0. TypeOK /\ NULL \notin Conns
  BY SqliteAssumption DEF IInv
<1>1. mpDB' = NULL /\ UNCHANGED <<mnBusyTimeoutMs, vm, query, stmt, ub>> /\ thrown' = "none"
  BY DEF CloseDB, Returns
<1>2. PICK c \in Conns : c = mpDB
  BY <1>0 DEF CloseDB, TypeOK
<1>3. CASE Busy(c)
  <2>1. conn' = conn /\ let' = [let EXCEPT !.conns = @ \cup {c}]
    BY <1>2, <1>3 DEF CloseDB
  <2>2. let' \in LetGo /\ let'.assigned = let.assigned /\ let'.pulled = let.pulled
        /\ let'.conns = let.conns \cup {c}
    BY <1>0, <2>1 DEF TypeOK, LetGo
  <2>3. TypeOK'
    BY <1>0, <1>1, <2>1, <2>2 DEF TypeOK
  <2>4. VMsOfOpen' /\ DBHandle' /\ TimeoutInForce'
    BY <1>1, <2>1 DEF IInv, VMsOfOpen, DBHandle, TimeoutInForce
  <2>5. ConnectionsAccounted'
    BY <1>0, <1>1, <1>2, <2>1, <2>2 DEF IInv, ConnectionsAccounted
  <2> QED
    BY <1>1, <2>2, <2>3, <2>4, <2>5, DatabaseStep
<1>4. CASE ~Busy(c)
  <2>1. conn' = [conn EXCEPT ![c] = [NoConn EXCEPT !.st = "freed"]] /\ let' = let
    BY <1>2, <1>4 DEF CloseDB
  <2>2. [NoConn EXCEPT !.st = "freed"] \in ConnState /\ [NoConn EXCEPT !.st = "freed"].st = "freed"
    BY DEF NoConn, ConnState
  <2>3. /\ conn' \in [Conns -> ConnState]
        /\ \A d \in Conns : conn'[d] = IF d = c THEN [NoConn EXCEPT !.st = "freed"] ELSE conn[d]
    BY <1>0, <2>1, <2>2 DEF TypeOK
  <2>4. TypeOK'
    BY <1>0, <1>1, <2>1, <2>3 DEF TypeOK
  <2>5. VMsOfOpen'
    BY <1>1, <1>4, <2>3 DEF IInv, VMsOfOpen, Busy
  <2>6. DBHandle' /\ TimeoutInForce'
    BY <1>1 DEF DBHandle, TimeoutInForce
  <2>7. ConnectionsAccounted'
    BY <1>1, <1>2, <2>1, <2>2, <2>3 DEF IInv, ConnectionsAccounted
  <2> QED
    BY <1>1, <2>1, <2>4, <2>5, <2>6, <2>7, DatabaseStep
<1> QED
  BY <1>3, <1>4

(* Lemma: setBusyTimeout().                                                  *)
LEMMA SetBusyTimeoutStep ==
    ASSUME IInv, ub = "", NEW t \in Timeouts, SetBusyTimeout(t)
    PROVE  IInv'
<1>0. TypeOK
  BY DEF IInv
<1>1. CASE mpDB = NULL
  <2>1. Undefined("null handle")
    BY <1>1 DEF SetBusyTimeout
  <2> QED
    BY <2>1, UndefinedStep
<1>2. CASE mpDB # NULL
  <2>1. /\ mnBusyTimeoutMs' = t /\ conn' = [conn EXCEPT ![mpDB].timeout = t]
        /\ UNCHANGED <<mpDB, vm, query, stmt, let, ub>> /\ thrown' = "none"
    BY <1>2 DEF SetBusyTimeout, setBusyTimeout, Returns
  <2>2. /\ conn' \in [Conns -> ConnState]
        /\ \A d \in Conns : conn'[d].st = conn[d].st
        /\ conn'[mpDB].timeout = t
    BY <1>0, <1>2, <2>1 DEF TypeOK, ConnState
  <2>3. TypeOK'
    BY <1>0, <2>1, <2>2 DEF TypeOK
  <2>4. VMsOfOpen'
    BY <2>1, <2>2 DEF IInv, VMsOfOpen
  <2>5. DBHandle' /\ ConnectionsAccounted' /\ TimeoutInForce'
    BY <1>0, <2>1, <2>2 DEF IInv, DBHandle, ConnectionsAccounted, TimeoutInForce, TypeOK
  <2> QED
    BY <2>1, <2>3, <2>4, <2>5, DatabaseStep
<1> QED
  BY <1>1, <1>2

(* Lemma: the calls of the database object that leave no VM behind.          *)
LEMMA PlainCallsStep ==
    ASSUME IInv, ub = "",
           \/ LastRowId \/ CompileFails \/ ExecDML \/ DBExecNothing
           \/ \E result \in {"empty", "null", "number"} : ExecScalar(result)
           \/ \E len \in NameLens : TableExists(len)
    PROVE  IInv'
<1>1. \/ \E e \in {"none", "OK", "SQLITE", "CPPSQLITE"} : Throw(e)
      \/ \E what \in {"null handle", "atoi of null", "sql buffer"} : Undefined(what)
  BY Zenon DEF LastRowId, CompileFails, ExecDML, DBExecNothing, ExecScalar, TableExists
<1>2. ASSUME NEW what \in {"null handle", "atoi of null", "sql buffer"}, Undefined(what)
      PROVE  IInv'
  <2>1. what \notin {"garbage handle", "freed handle"}
    OBVIOUS
  <2> QED
    BY <1>2, <2>1, UndefinedStep
<1> QED
  BY <1>1, <1>2, ThrowStep

-----------------------------------------------------------------------------
(* The theorems                                                              *)

(* Lemma: the invariant holds initially.                                     *)
LEMMA Initially == Init => IInv
<1> SUFFICES ASSUME Init PROVE IInv
  OBVIOUS
<1>1. \A q \in Queries : query[q] = Dead(CppSQLite3Query)
  BY DEF Init
<1>2. \A s \in Statements : stmt[s] = Dead(CppSQLite3Statement)
  BY DEF Init
<1>3. \A v \in VMs : vm[v] = NoVM /\ vm[v].st = "none"
  BY DEF Init, NoVM
<1>4. \A c \in Conns : conn[c] = NoConn /\ conn[c].st = "none"
  BY DEF Init, NoConn
<1>5. Dead(CppSQLite3Query) \in QueryState /\ Dead(CppSQLite3Query).mpVM = NULL
      /\ OwnVM(Dead(CppSQLite3Query)) = NULL
  <2>1. CppSQLite3Query \in QueryState
    BY Bounds DEF CppSQLite3Query, QueryState
  <2> QED
    BY <2>1, EmptyRecords
<1>6. NoVM \in VMState /\ NoConn \in ConnState
  BY Bounds DEF NoVM, VMState, NoConn, ConnState
<1>7. TypeOK
  <2>1. query \in [Queries -> QueryState] /\ stmt \in [Statements -> StmtState]
    BY <1>5, StatementRecords DEF Init
  <2>2. vm \in [VMs -> VMState] /\ conn \in [Conns -> ConnState]
    BY <1>6 DEF Init
  <2>3. let \in LetGo
    BY DEF Init, LetGo
  <2> QED
    BY <2>1, <2>2, <2>3, SqliteAssumption DEF Init, TypeOK
<1>8. Accounted(own, held, kept, life, let.assigned, let.pulled)
  <2>1. /\ \A q \in Queries : own[q] = NULL /\ held[q] = NULL
        /\ \A s \in Statements : kept[s] = NULL
        /\ \A v \in VMs : life[v] = "none"
    BY <1>1, <1>2, <1>3, <1>5, StatementRecords DEF own, held, kept, life
  <2> QED
    BY <2>1 DEF Accounted, OwnersApart, OwnersLive, LiveOwned, HandlesGiven
<1>9. DeadHoldNothing /\ VMsOfOpen /\ MPDBs /\ RowsInStep
  BY <1>1, <1>2, <1>3, <1>5, StatementRecords DEF DeadHoldNothing, VMsOfOpen, MPDBs, RowsInStep
<1>10. DBHandle /\ TimeoutInForce
  BY DEF Init, DBHandle, TimeoutInForce
<1>11. ConnectionsAccounted
  BY <1>4 DEF ConnectionsAccounted
<1>12. UndefinedOnlyByMisuse
  BY DEF Init, UndefinedOnlyByMisuse
<1> QED
  BY <1>7, <1>8, <1>9, <1>10, <1>11, <1>12 DEF IInv

(* Lemma: every call keeps the invariant.                                    *)
LEMMA Preserved == IInv /\ [Next]_vars => IInv'
<1> SUFFICES ASSUME IInv, [Next]_vars PROVE IInv'
  OBVIOUS
<1>1. CASE UNCHANGED vars
  <2>1. UNCHANGED <<mpDB, mnBusyTimeoutMs, conn, vm, query, stmt, let, thrown, ub>>
    BY <1>1 DEF vars
  <2>2. UndefinedOnlyByMisuse'
    BY <2>1 DEF IInv, UndefinedOnlyByMisuse, Dangling
  <2>3. thrown' \in {"none", "OK", "SQLITE", "CPPSQLITE"}
    BY <2>1 DEF IInv, TypeOK
  <2> QED
    BY <2>1, <2>2, <2>3, IdleStep
<1>2. CASE Next
  <2>0. ub = ""
    BY <1>2 DEF Next
  <2>1. CASE \E c \in Conns, st \in {"open", "sick"} : Open(c, st)
    BY <2>0, <2>1, OpenStep
  <2>2. CASE OpenNoMem
    BY <2>0, <2>2, OpenNoMemStep
  <2>3. CASE CloseDB
    BY <2>0, <2>3, CloseDBStep
  <2>4. CASE \E t \in Timeouts : SetBusyTimeout(t)
    BY <2>0, <2>4, SetBusyTimeoutStep
  <2>5. CASE \/ LastRowId \/ CompileFails \/ ExecDML \/ DBExecNothing
             \/ \E result \in {"empty", "null", "number"} : ExecScalar(result)
             \/ \E len \in NameLens : TableExists(len)
    BY <2>0, <2>5, PlainCallsStep
  <2>6. ASSUME NEW q \in Queries,
               \/ NewQuery(q)
               \/ \E v \in VMs, rows \in 0..MaxRows : DBExecQuery(q, v, rows)
               \/ \E r \in Queries : CopyQuery(q, r)
               \/ \E destroyed \in BOOLEAN : CloseQuery(q, destroyed)
               \/ \E fails \in BOOLEAN : NextRow(q, fails)
               \/ ReadField(q)
        PROVE  IInv'
    <3>1. CASE NewQuery(q)
      BY <2>0, <3>1, NewQueryStep
    <3>2. CASE \E v \in VMs, rows \in 0..MaxRows : DBExecQuery(q, v, rows)
      BY <2>0, <3>2, DBExecQueryStep
    <3>3. CASE \E r \in Queries : CopyQuery(q, r)
      BY <2>0, <3>3, CopyQueryStep
    <3>4. CASE \E destroyed \in BOOLEAN : CloseQuery(q, destroyed)
      BY <2>0, <3>4, CloseQueryStep
    <3>5. CASE \E fails \in BOOLEAN : NextRow(q, fails)
      BY <2>0, <3>5, NextRowStep
    <3>6. CASE ReadField(q)
      BY <2>0, <3>6, ReadingStep
    <3> QED
      BY <2>6, <3>1, <3>2, <3>3, <3>4, <3>5, <3>6
  <2>7. ASSUME NEW s \in Statements,
               \/ NewStatement(s)
               \/ \E v \in VMs, rows \in 0..MaxRows : CompileStatement(s, v, rows)
               \/ CompileStatement(s, NULL, 0)
               \/ \E t \in Statements : CopyStatement(s, t)
               \/ \E destroyed \in BOOLEAN : CloseStatement(s, destroyed)
               \/ \E fails \in BOOLEAN : StatementExecDML(s, fails)
               \/ \E q \in Queries, fails \in BOOLEAN : StatementExecQuery(s, q, fails)
               \/ Bind(s)
               \/ ResetStatement(s)
        PROVE  IInv'
    <3>1. CASE NewStatement(s)
      BY <2>0, <3>1, NewStatementStep
    <3>2. CASE \E v \in VMs, rows \in 0..MaxRows : CompileStatement(s, v, rows)
      BY <2>0, <3>2, CompileStatementStep DEF Ptr
    <3>3. CASE CompileStatement(s, NULL, 0)
      BY <2>0, <3>3, CompileStatementStep, Bounds DEF Ptr
    <3>4. CASE \E t \in Statements : CopyStatement(s, t)
      BY <2>0, <3>4, CopyStatementStep
    <3>5. CASE \E destroyed \in BOOLEAN : CloseStatement(s, destroyed)
      BY <2>0, <3>5, CloseStatementStep
    <3>6. CASE \E fails \in BOOLEAN : StatementExecDML(s, fails)
      BY <2>0, <3>6, StatementExecDMLStep
    <3>7. CASE \E q \in Queries, fails \in BOOLEAN : StatementExecQuery(s, q, fails)
      BY <2>0, <3>7, StatementExecQueryStep
    <3>8. CASE Bind(s)
      BY <2>0, <3>8, ReadingStep
    <3>9. CASE ResetStatement(s)
      BY <2>0, <3>9, ResetStatementStep
    <3> QED
      BY <2>7, <3>1, <3>2, <3>3, <3>4, <3>5, <3>6, <3>7, <3>8, <3>9
  <2> QED
    BY <1>2, <2>1, <2>2, <2>3, <2>4, <2>5, <2>6, <2>7 DEF Next, Calls
<1> QED
  BY <1>1, <1>2

(* Theorem: the inductive invariant of the wrapper, for every number of      *)
(* connections, VMs, queries, statements and rows.                           *)
THEOREM WrapperInvariant == Spec => []IInv
BY Initially, Preserved, PTL DEF Spec

(* Lemma: at most one object releases a VM, as a cardinality.                *)
LEMMA OneOwnerByCardinality ==
    ASSUME OwnersApart(own, kept)
    PROVE  OneOwner
<1> SUFFICES ASSUME NEW v \in VMs PROVE Cardinality(Owners(v)) <= 1
  BY DEF OneOwner
<1>0. v # NULL
  BY SqliteAssumption
<1>1. PICK Q, S : /\ Q = {q \in Queries : query[q].mpVM = v /\ query[q].mbOwnVM}
                  /\ S = {s \in Statements : stmt[s].mpVM = v}
  OBVIOUS
<1>2. Owners(v) = Q \cup S
  BY <1>1 DEF Owners
<1>3. (\A p, q \in Q : p = q) /\ (\A s, t \in S : s = t) /\ (Q = {} \/ S = {})
  <2>1. \A q \in Q : q \in Queries /\ own[q] = v
    BY <1>0, <1>1 DEF own, OwnVM
  <2>2. \A s \in S : s \in Statements /\ kept[s] = v
    BY <1>1 DEF kept
  <2> QED
    BY <1>0, <2>1, <2>2 DEF OwnersApart
<1>4. CASE Owners(v) = {}
  BY <1>4, FS_EmptySet
<1>5. CASE Owners(v) # {}
  <2>1. PICK o : o \in Owners(v)
    BY <1>5
  <2>2. Owners(v) = {o}
    BY <1>2, <1>3, <2>1
  <2>3. Cardinality({o}) = 1
    BY FS_Singleton, Zenon
  <2> QED
    BY <2>2, <2>3
<1> QED
  BY <1>4, <1>5

(* Theorem: every VM and every connection has one owner that releases it or  *)
(* was let go in one of the named ways, errors are read from valid handles,  *)
(* and the busy timeout asked for is in force.                               *)
THEOREM WrapperHandlesAccounted == Spec => []HandlesAccounted
<1>1. IInv => HandlesAccounted
  <2> SUFFICES ASSUME IInv PROVE HandlesAccounted
    OBVIOUS
  <2>0. NULL \notin VMs /\ TypeOK
    BY SqliteAssumption DEF IInv
  <2>1. OneOwner
    BY OneOwnerByCardinality DEF IInv, Accounted
  <2>2. \A v \in VMs : \A q \in Queries : query[q].mpVM = v /\ query[q].mbOwnVM => own[q] = v
    BY DEF own, OwnVM
  <2>3. \A v \in VMs : \A q \in Queries : own[q] = v => query[q].mpVM = v /\ query[q].mbOwnVM
    BY <2>0 DEF own, OwnVM
  <2>4. OwnersPointToLive
    <3> SUFFICES ASSUME NEW v \in VMs, NEW o \in Owners(v)
                 PROVE  vm[v].st = "live" \/ v \in let.pulled
      BY DEF OwnersPointToLive
    <3>1. CASE o \in Queries /\ query[o].mpVM = v /\ query[o].mbOwnVM
      BY <2>0, <2>2, <3>1 DEF IInv, Accounted, OwnersLive, life
    <3>2. CASE o \in Statements /\ stmt[o].mpVM = v
      BY <2>0, <3>2 DEF IInv, Accounted, OwnersLive, kept, life
    <3> QED
      BY <3>1, <3>2 DEF Owners
  <2>5. VMsAccounted
    <3> SUFFICES ASSUME NEW v \in VMs, vm[v].st = "live", v \notin let.assigned
                 PROVE  Owners(v) # {}
      BY DEF VMsAccounted
    <3>1. (\E q \in Queries : own[q] = v) \/ (\E s \in Statements : kept[s] = v)
      BY DEF IInv, Accounted, LiveOwned, life
    <3>2. CASE \E q \in Queries : own[q] = v
      BY <2>3, <3>2 DEF Owners
    <3>3. CASE \E s \in Statements : kept[s] = v
      BY <3>3 DEF Owners, kept
    <3> QED
      BY <3>1, <3>2, <3>3
  <2>6. ErrorHandleValid
    <3>1. \A q \in Queries : query[q].mpVM \in VMs \cup {NULL}
      BY <2>0 DEF TypeOK, QueryState
    <3>2. \A s \in Statements : stmt[s].mpVM \in VMs \cup {NULL}
      BY <2>0 DEF TypeOK, StmtState
    <3> QED
      BY <3>1, <3>2 DEF IInv, MPDBs, VMsOfOpen, ErrorHandleValid
  <2> QED
    BY <2>0, <2>1, <2>4, <2>5, <2>6 DEF IInv, HandlesAccounted
<1> QED
  BY <1>1, WrapperInvariant, PTL

(* Theorem: a query that alone steps its VM stands on every row once and in  *)
(* order, also when it is copied or assigned on the way.                     *)
THEOREM WrapperEveryRowOnce == Spec => []EveryRowOnce
<1>1. IInv => EveryRowOnce
  BY DEF IInv, RowsInStep, InStep, EveryRowOnce
<1> QED
  BY <1>1, WrapperInvariant, PTL

(* Theorem: a freed, uninitialized or finalized handle is used only in the   *)
(* named ways of misusing the wrapper.                                       *)
THEOREM WrapperUndefinedOnlyByMisuse == Spec => []UndefinedOnlyByMisuse
<1>1. IInv => UndefinedOnlyByMisuse
  BY DEF IInv
<1> QED
  BY <1>1, WrapperInvariant, PTL
=============================================================================
