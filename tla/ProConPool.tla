----------------------------- MODULE ProConPool -----------------------------
(* ProConPool<T> of include/blm/blmbase.h: a std::list guarded by a mutex    *)
(* and a counting semaphore `available' that its code uses as one token,     *)
(* present when there is something to remove.  remove and removeAll wait for *)
(* the token BEFORE they lock; tryRemove and tryRemoveAll try it after they  *)
(* have locked; add and addAll post it before they have pushed.  Every       *)
(* thread runs one operation at a time; a step of an operation is what other *)
(* threads can see as one change: taking the mutex, a semaphore call, a      *)
(* change of the list followed by the release of the mutex.                  *)
EXTENDS Naturals, Sequences

CONSTANTS
    Threads,           \* the threads sharing the pool
    Values,            \* the products
    MaxBatch,          \* bound: longest list given to addAll
    MaxItems,          \* bound: products added during a behaviour
    None               \* no thread

ASSUME NoneAssumption == None \notin Threads
ASSUME BoundAssumption == MaxBatch \in Nat /\ MaxItems \in Nat

VARIABLES
    data,              \* std::list<T> data
    sz,                \* int sz
    available,         \* value of the Semaphore available
    owner,             \* holder of the mutex, or None
    pc,                \* pc[t]: the next step of thread t
    arg,               \* arg[t]: what t is adding
    all,               \* all[t]: t runs removeAll / tryRemoveAll
    got,               \* history: every product removed, in order
    added              \* history: number of products handed to add / addAll

vars == <<data, sz, available, owner, pc, arg, all, got, added>>

Steps == {"idle", "addLock", "addPost", "addPush", "wait", "takeLock",
          "tryLock", "tryWait", "take", "repost"}

Batches == UNION {[1..n -> Values] : n \in 0..MaxBatch}

Init ==
    /\ data = <<>>
    /\ sz = 0
    /\ available = 0
    /\ owner = None
    /\ pc = [t \in Threads |-> "idle"]
    /\ arg = [t \in Threads |-> <<>>]
    /\ all = [t \in Threads |-> FALSE]
    /\ got = <<>>
    /\ added = 0

Goto(t, step) == pc' = [pc EXCEPT ![t] = step]

-----------------------------------------------------------------------------
(* add(product) is addAll of a list of one: the test !initems.empty() and    *)
(* initems.size() only make a difference for the empty list.                 *)
Add(t, batch) ==
    /\ pc[t] = "idle"
    /\ added + Len(batch) <= MaxItems
    /\ added' = added + Len(batch)
    /\ arg' = [arg EXCEPT ![t] = batch]
    /\ Goto(t, "addLock")
    /\ UNCHANGED <<data, sz, available, owner, all, got>>

Lock(t, from, to) ==
    /\ pc[t] = from
    /\ owner = None
    /\ owner' = t
    /\ Goto(t, to)
    /\ UNCHANGED <<data, sz, available, arg, all, got, added>>

AddLock(t) == Lock(t, "addLock", "addPost")

AddPostAlways(t) ==
    /\ pc[t] = "addPost"
    /\ available' = IF arg[t] # <<>> THEN available + 1 ELSE available
    /\ Goto(t, "addPush")
    /\ UNCHANGED <<data, sz, owner, arg, all, got, added>>

AddPostForEmptyBatch(t) ==
    /\ pc[t] = "addPost"
    /\ available' = IF data = <<>> THEN available + 1 ELSE available
    /\ Goto(t, "addPush")
    /\ UNCHANGED <<data, sz, owner, arg, all, got, added>>

AddPost(t) ==
    /\ pc[t] = "addPost"
    /\ available' = IF data = <<>> /\ arg[t] # <<>> THEN available + 1
                                                    ELSE available
    /\ Goto(t, "addPush")
    /\ UNCHANGED <<data, sz, owner, arg, all, got, added>>

AddPushFront(t) ==
    /\ pc[t] = "addPush"
    /\ data' = arg[t] \o data
    /\ sz' = sz + Len(arg[t])
    /\ owner' = None
    /\ arg' = [arg EXCEPT ![t] = <<>>]
    /\ Goto(t, "idle")
    /\ UNCHANGED <<available, all, got, added>>

(* Pushes and leaves the scope of the Autolock.                              *)
AddPush(t) ==
    /\ pc[t] = "addPush"
    /\ data' = data \o arg[t]
    /\ sz' = sz + Len(arg[t])
    /\ owner' = None
    /\ arg' = [arg EXCEPT ![t] = <<>>]
    /\ Goto(t, "idle")
    /\ UNCHANGED <<available, all, got, added>>

-----------------------------------------------------------------------------
(* remove / removeAll: wait for the token without the mutex, then lock.      *)
Remove(t, everything) ==
    /\ pc[t] = "idle"
    /\ all' = [all EXCEPT ![t] = everything]
    /\ Goto(t, "wait")
    /\ UNCHANGED <<data, sz, available, owner, arg, got, added>>

Wait(t) ==
    /\ pc[t] = "wait"
    /\ available > 0
    /\ available' = available - 1
    /\ Goto(t, "takeLock")
    /\ UNCHANGED <<data, sz, owner, arg, all, got, added>>

TakeLock(t) == Lock(t, "takeLock", "take")

(* tryRemove / tryRemoveAll: lock, then try the token; a failure unlocks and *)
(* returns false.                                                            *)
TryRemove(t, everything) ==
    /\ pc[t] = "idle"
    /\ all' = [all EXCEPT ![t] = everything]
    /\ Goto(t, "tryLock")
    /\ UNCHANGED <<data, sz, available, owner, arg, got, added>>

TryLock(t) == Lock(t, "tryLock", "tryWait")

TryWait(t) ==
    /\ pc[t] = "tryWait"
    /\ \/ /\ available > 0
          /\ available' = available - 1
          /\ Goto(t, "take")
          /\ UNCHANGED owner
       \/ /\ available = 0
          /\ owner' = None
          /\ Goto(t, "idle")
          /\ UNCHANGED available
    /\ UNCHANGED <<data, sz, arg, all, got, added>>

(* front() and pop_front().  front() of an empty list is undefined behaviour *)
(* in the code; NoEmptyRemove states that it is never reached.               *)
TakeFront(t) ==
    /\ pc[t] = "take"
    /\ ~all[t]
    /\ data # <<>>
    /\ got' = Append(got, Head(data))
    /\ data' = Tail(data)
    /\ sz' = sz - 1
    /\ Goto(t, "repost")
    /\ UNCHANGED <<available, owner, arg, all, added>>

(* resitems.splice(resitems.end(), data) and sz = 0, then the unlock.        *)
SpliceAll(t) ==
    /\ pc[t] = "take"
    /\ all[t]
    /\ got' = got \o data
    /\ data' = <<>>
    /\ sz' = 0
    /\ owner' = None
    /\ Goto(t, "idle")
    /\ UNCHANGED <<available, arg, all, added>>

RepostNever(t) ==
    /\ pc[t] = "repost"
    /\ owner' = None
    /\ Goto(t, "idle")
    /\ UNCHANGED <<data, sz, available, arg, all, got, added>>

(* if (!data.empty()) available.post(), then the unlock.                     *)
Repost(t) ==
    /\ pc[t] = "repost"
    /\ available' = IF data # <<>> THEN available + 1 ELSE available
    /\ owner' = None
    /\ Goto(t, "idle")
    /\ UNCHANGED <<data, sz, arg, all, got, added>>

-----------------------------------------------------------------------------
Call(t) ==
    \/ \E batch \in Batches : Add(t, batch)
    \/ \E everything \in BOOLEAN : Remove(t, everything)
    \/ \E everything \in BOOLEAN : TryRemove(t, everything)

(* The steps that take the mutex, and the other steps of a running operation.*)
Acquire(t) == AddLock(t) \/ TakeLock(t) \/ TryLock(t)

Run(t) ==
    \/ AddPost(t) \/ AddPush(t) \/ Wait(t) \/ TryWait(t)
    \/ TakeFront(t) \/ SpliceAll(t) \/ Repost(t)

Next == \E t \in Threads : Call(t) \/ Acquire(t) \/ Run(t)

Spec == Init /\ [][Next]_vars

(* A thread that can run does; the mutex does not starve a thread that keeps *)
(* asking for it.  Nobody is obliged to start an operation.                  *)
FairSpec ==
    /\ Spec
    /\ \A t \in Threads : WF_vars(Run(t)) /\ SF_vars(Acquire(t))

-----------------------------------------------------------------------------
(* Types.  The counters never go negative and the token is never doubled:    *)
(* `available' counts to 1024*1024 but is only ever 0 or 1 here.             *)
TypeOK ==
    /\ data \in Seq(Values)
    /\ sz \in Nat
    /\ available \in {0, 1}
    /\ owner \in Threads \cup {None}
    /\ pc \in [Threads -> Steps]
    /\ arg \in [Threads -> Seq(Values)]
    /\ all \in [Threads -> BOOLEAN]
    /\ got \in Seq(Values)
    /\ added \in Nat

Holder(t) == pc[t] \in {"takeLock", "take", "repost"}

InLock(t) == pc[t] \in {"addPost", "addPush", "tryWait", "take", "repost"}

Posted(t) == pc[t] = "addPush" /\ arg[t] # <<>>

(* The mutex is held by the thread that is between lock and unlock.          *)
MutexOK == \A t \in Threads : InLock(t) <=> owner = t

(* One token: in the semaphore or in the hands of one remover.               *)
OneToken ==
    /\ \A t, u \in Threads : Holder(t) /\ Holder(u) => t = u
    /\ \A t \in Threads : Holder(t) => available = 0

(* A token stands for something to take, now or as soon as the adder that    *)
(* posted it has pushed.                                                     *)
TokenBacked ==
    available = 1 \/ (\E t \in Threads : pc[t] = "takeLock")
        => data # <<>> \/ (\E u \in Threads : Posted(u))

(* No lost wake-up: while there is something to take, the token exists.      *)
NoLostWakeup ==
    data # <<>> \/ (\E u \in Threads : Posted(u))
        => available = 1 \/ (\E t \in Threads : Holder(t))

(* remove, tryRemove and their All forms find something in the list once     *)
(* they have the token and the mutex: front() is never called on an empty    *)
(* list, by any interleaving of adders and removers.                         *)
NoEmptyRemove == \A t \in Threads : pc[t] = "take" => data # <<>>

(* size() returns the number of products in the list whichever mix of        *)
(* add, addAll (sz +=), remove (sz--) and removeAll (sz = 0) has run.        *)
SizeOK == sz = Len(data)

(* The token is where it should be: one token exactly when there is          *)
(* something to take.                                                        *)
TokenOK == MutexOK /\ OneToken /\ TokenBacked /\ NoLostWakeup

(* The inductive invariant of the proofs.                                    *)
IInv == TypeOK /\ TokenOK /\ NoEmptyRemove /\ SizeOK

(* The pool is a FIFO buffer: products come out once each, oldest first.     *)
Fifo == INSTANCE FifoBuffer WITH queue <- data, out <- got
FifoSpec == Fifo!FifoSpec

(* A remover blocked in available.wait() while the list has products sees    *)
(* the list served: something is taken, by it or by another remover.         *)
WaitersServed ==
    \A n \in 0..MaxItems :
        (Len(got) = n /\ data # <<>> /\ \E t \in Threads : pc[t] = "wait")
            ~> (Len(got) > n)
=============================================================================
