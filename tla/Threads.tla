------------------------------ MODULE Threads -------------------------------
(***************************************************************************)
(* The objects of blmbase and util_fun whose lifetime is the point: Thread, *)
(* which owns a callback and waits for its thread when it is destroyed;     *)
(* MemPool, a pool that objects own or borrow; Singleton, the one instance  *)
(* that is found through a static pointer.  Three machines; `focus` tells   *)
(* which of them a behaviour exercises.                                     *)
(***************************************************************************)
EXTENDS Integers, Sequences, FiniteSets, SequencesExt

CONSTANTS ThreadObjs,   \* Thread objects
          PoolObjs,     \* objects derived from MemPool
          Places,       \* addresses where the singleton is constructed
          NoObj         \* model value: a null pointer

ASSUME ThreadsAssumption == NoObj \notin PoolObjs \cup Places

VARIABLES focus,
          thread,    \* each Thread and the thread it started
          pooled,    \* the objects alive that use a pool, oldest first
          poolOf,    \* the object whose pool an object uses
          nested,    \* destroyed in the reverse order so far
          touched,   \* has memory of a released pool been used?
          pins,      \* Singleton's static pointer, and whether it is set
          living,    \* addresses with a live singleton
          given      \* addresses that instance() gave out

threadsVars == <<focus, thread, pooled, poolOf, nested, touched, pins, living, given>>
poolVars == <<pooled, poolOf, nested, touched>>
singleVars == <<pins, living, given>>

-----------------------------------------------------------------------------
(* Thread.  os is the state of the thread of the operating system, sc the   *)
(* callback, pthread whether the handle was written, owner what the thread  *)
(* that owns the object does with it.                                       *)

NoThread == [os |-> "none", sc |-> "none", pthread |-> FALSE, owner |-> "none", joins |-> 0, fault |-> FALSE]

Become(t, rec) == /\ focus = "threads" /\ thread' = [thread EXCEPT ![t] = rec]
                  /\ UNCHANGED <<focus, poolVars, singleVars>>

\* startThread: the callback is in place before pj_thread_create, which may
\* let the thread run before it returns the handle.
StartThread(t) ==
    /\ thread[t].owner = "none"
    /\ Become(t, [thread[t] EXCEPT !.os = "ready", !.sc = "live", !.owner = "creating"])

\* The thread could not be created: that is logged and the handle never written.
StartFails(t) ==
    /\ thread[t].owner = "none"
    /\ Become(t, [thread[t] EXCEPT !.os = "failed", !.sc = "live", !.owner = "holds"])

ThreadCreated(t) ==
    /\ thread[t].owner = "creating"
    /\ Become(t, [thread[t] EXCEPT !.pthread = TRUE, !.owner = "holds"])

\* threadproc calls the callback, and returns into pjlib, which uses the
\* record in the pool of the object.
ThreadProc(t) ==
    /\ thread[t].os = "ready"
    /\ Become(t, [thread[t] EXCEPT !.os = "running", !.fault = @ \/ thread[t].sc # "live"])

ThreadReturns(t) ==
    /\ thread[t].os = "running"
    /\ Become(t, [thread[t] EXCEPT !.os = "returned", !.fault = @ \/ thread[t].owner = "gone"])

\* Mutant: join only tells whether the thread has ended.
JoinedNoWait(th) == {[th EXCEPT !.joins = @ + 1]}

\* What pj_thread_join may do: wait for the thread, and with a handle that was
\* never written or was joined before anything, or nothing.
Joined(th) ==
    CASE ~th.pthread -> {[th EXCEPT !.fault = TRUE]}
      [] th.pthread /\ th.joins > 0 -> {th, [th EXCEPT !.fault = TRUE]}
      [] OTHER -> IF th.os = "returned" THEN {[th EXCEPT !.joins = 1]} ELSE {}

\* Thread::join by the owner.
Join(t) ==
    /\ thread[t].owner = "holds"
    /\ \E th \in Joined(thread[t]) : Become(t, th)

\* Thread::~Thread: join, delete the callback, release the pool.
DestroyBegins(t) ==
    /\ thread[t].owner = "holds"
    /\ Become(t, [thread[t] EXCEPT !.owner = "destroying"])

DestroyEnds(t) ==
    /\ thread[t].owner = "destroying"
    /\ \E th \in Joined(thread[t]) : Become(t, [th EXCEPT !.sc = "deleted", !.owner = "gone"])

-----------------------------------------------------------------------------
(* MemPool                                                                  *)

Alive == Range(pooled)

\* The pool of p, which may itself be borrowed, or a new one.
PoolFor(o, p) == IF p = NoObj THEN o ELSE poolOf[p]

\* MemPool::MemPool(p) and the creation of the object in the pool.
Construct(o, p) ==
    /\ focus = "pools" /\ o \notin Alive /\ poolOf[o] = NoObj
    /\ p \in Alive \cup {NoObj}
    /\ poolOf' = [poolOf EXCEPT ![o] = PoolFor(o, p)]
    /\ pooled' = Append(pooled, o)
    /\ touched' = (touched \/ PoolFor(o, p) \notin Alive \cup {o})
    /\ UNCHANGED <<focus, thread, nested, singleVars>>

\* The destructor destroys the object in the pool, which must still be there.
Touches(o) == poolOf[o] \notin Alive

\* Then ~MemPool releases the pool if the object owns it.
Destroy(o) ==
    /\ focus = "pools" /\ o \in Alive
    /\ touched' = (touched \/ Touches(o))
    /\ nested' = (nested /\ o = Last(pooled))
    /\ pooled' = Remove(pooled, o)
    /\ UNCHANGED <<focus, thread, poolOf, singleVars>>

-----------------------------------------------------------------------------
(* Singleton                                                                *)

Unset == [set |-> FALSE, at |-> NoObj]

\* The static pointer is initialised by the first call, whatever it passes.
Pinned(ins) == IF pins.set THEN pins ELSE [set |-> TRUE, at |-> ins]

\* instance(ins) throws when there is no object or when it is another one.
Throws(p, ins) == p.at = NoObj \/ (ins # NoObj /\ ins # p.at)

\* The constructor; an exception leaves no object behind.
NewSingleton(a) ==
    /\ focus = "singleton" /\ a \notin living
    /\ pins' = Pinned(a)
    /\ living' = IF Throws(Pinned(a), a) THEN living ELSE living \cup {a}
    /\ UNCHANGED <<focus, thread, poolVars, given>>

\* T::instance() gives the object out, alive or not.
Instance ==
    /\ focus = "singleton"
    /\ pins' = Pinned(NoObj)
    /\ given' = IF Throws(Pinned(NoObj), NoObj) THEN given ELSE given \cup {Pinned(NoObj).at}
    /\ UNCHANGED <<focus, thread, poolVars, living>>

\* There is no destructor: the pointer stays.
DeleteSingleton(a) ==
    /\ focus = "singleton" /\ a \in living
    /\ living' = living \ {a}
    /\ UNCHANGED <<focus, thread, poolVars, pins, given>>

-----------------------------------------------------------------------------
ThreadsInit ==
    /\ focus \in {"threads", "pools", "singleton"}
    /\ thread = [t \in ThreadObjs |-> NoThread]
    /\ pooled = <<>> /\ poolOf = [o \in PoolObjs |-> NoObj] /\ nested = TRUE /\ touched = FALSE
    /\ pins = Unset /\ living = {} /\ given = {}

ThreadStep(t) == ThreadCreated(t) \/ ThreadProc(t) \/ ThreadReturns(t) \/ DestroyEnds(t)

ThreadsNext ==
    \/ \E t \in ThreadObjs : StartThread(t) \/ StartFails(t) \/ Join(t) \/ DestroyBegins(t) \/ ThreadStep(t)
    \/ \E o \in PoolObjs : Destroy(o) \/ \E p \in PoolObjs \cup {NoObj} : Construct(o, p)
    \/ \E a \in Places : NewSingleton(a) \/ DeleteSingleton(a)
    \/ Instance

-----------------------------------------------------------------------------
(* Properties                                                               *)

\* "the destructor waits for the thread to exit" (example, line 152): while a
\* thread that was started has not returned from the callback, callback and
\* pool of its Thread object are alive, even if it runs before pj_thread_create
\* has returned.
DestroyWaits ==
    \A t \in ThreadObjs : thread[t].os \in {"ready", "running"} =>
        thread[t].sc = "live" /\ thread[t].owner # "gone" /\ ~thread[t].fault

\* Nothing undefined happens unless the thread could not be created or the
\* owner joins it more than once; a join and the destructor are two joins.
FaultOnlyByRejoin ==
    \A t \in ThreadObjs : thread[t].fault => thread[t].os = "failed" \/ thread[t].joins > 0

\* Destroying a Thread ends, once its callback has returned.
DestroyReturns == \A t \in ThreadObjs : thread[t].owner = "destroying" ~> thread[t].owner = "gone"

\* Objects that borrow a pool, also from a borrower, never use it after it was
\* released as long as objects are destroyed in the reverse of the order in
\* which they were constructed, as members and local variables are.
NestedPoolsSafe == nested => ~touched /\ \A o \in Alive : poolOf[o] \in Alive

\* There is at most one singleton at any time and every caller of instance()
\* ever gets the same one; after a call of instance() that came before the
\* constructor there is never one.
OneForAll ==
    /\ Cardinality(living) <= 1 /\ living \cup given \subseteq {pins.at}
    /\ pins.set /\ pins.at = NoObj => living = {}

=============================================================================
