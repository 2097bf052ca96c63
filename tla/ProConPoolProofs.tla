-------------------------- MODULE ProConPoolProofs --------------------------
(* Proofs about ProConPool for any set of threads, any products and any      *)
(* bounds: the inductive invariant IInv, and the FIFO refinement.            *)
EXTENDS ProConPool, TLAPS

(* A batch is a sequence of products.                                        *)
LEMMA BatchType == \A batch \in Batches : batch \in Seq(Values)
BY BoundAssumption DEF Batches

(* The pool starts empty, without a token and without an owner.              *)
LEMMA InitInv == Init => IInv
BY NoneAssumption
   DEF Init, IInv, TypeOK, TokenOK, NoEmptyRemove, SizeOK, MutexOK, OneToken,
       TokenBacked, NoLostWakeup, Holder, InLock, Posted, Steps

(* Every step of every operation keeps the types.  `available' stays 0 or 1  *)
(* because it is only posted while there is no token.                        *)
LEMMA TypeStep == IInv /\ [Next]_vars => TypeOK'
<1> SUFFICES ASSUME IInv, [Next]_vars PROVE TypeOK'
  OBVIOUS
<1> USE DEF IInv, TypeOK, Steps, Goto
<1>1. CASE UNCHANGED vars
  BY <1>1 DEF vars
<1>2. ASSUME NEW t \in Threads, Call(t) PROVE TypeOK'
  <2>1. ASSUME NEW batch \in Batches, Add(t, batch) PROVE TypeOK'
    BY <2>1, BatchType DEF Add
  <2>2. ASSUME NEW everything \in BOOLEAN, Remove(t, everything) PROVE TypeOK'
    BY <2>2 DEF Remove
  <2>3. ASSUME NEW everything \in BOOLEAN, TryRemove(t, everything) PROVE TypeOK'
    BY <2>3 DEF TryRemove
  <2> QED BY <1>2, <2>1, <2>2, <2>3 DEF Call
<1>3. ASSUME NEW t \in Threads, Acquire(t) PROVE TypeOK'
  BY <1>3 DEF Acquire, AddLock, TakeLock, TryLock, Lock
<1>4. ASSUME NEW t \in Threads, Run(t) PROVE TypeOK'
  <2>1. CASE AddPost(t)
    <3>1. data = <<>> => available = 0
      BY <2>1 DEF AddPost, TokenOK, TokenBacked, MutexOK, InLock, Posted
    <3> QED BY <2>1, <3>1 DEF AddPost
  <2>2. CASE AddPush(t)
    BY <2>2 DEF AddPush
  <2>3. CASE Wait(t)
    BY <2>3 DEF Wait
  <2>4. CASE TryWait(t)
    <3>1. available' \in {0, 1} /\ owner' \in Threads \cup {None}
      <4>1. CASE available > 0
        BY <2>4, <4>1 DEF TryWait
      <4>2. CASE available = 0
        BY <2>4, <4>2 DEF TryWait
      <4> QED BY <2>4, <4>1, <4>2 DEF TryWait
    <3>2. pc' \in [Threads -> Steps]
      BY <2>4 DEF TryWait
    <3> QED BY <2>4, <3>1, <3>2 DEF TryWait
  <2>5. CASE TakeFront(t)
    BY <2>5 DEF TakeFront, SizeOK
  <2>6. CASE SpliceAll(t)
    BY <2>6 DEF SpliceAll
  <2>7. CASE Repost(t)
    <3>1. available = 0
      BY <2>7 DEF Repost, TokenOK, OneToken, Holder
    <3> QED BY <2>7, <3>1 DEF Repost
  <2> QED BY <1>4, <2>1, <2>2, <2>3, <2>4, <2>5, <2>6, <2>7 DEF Run
<1> QED BY <1>1, <1>2, <1>3, <1>4 DEF Next

(* sz follows the list through pushes, pops and splices.                     *)
LEMMA SizeStep == IInv /\ [Next]_vars => SizeOK'
<1> SUFFICES ASSUME IInv, [Next]_vars PROVE SizeOK'
  OBVIOUS
<1> USE DEF IInv, TypeOK, SizeOK
<1>1. ASSUME NEW t \in Threads, AddPush(t) PROVE SizeOK'
  BY <1>1 DEF AddPush
<1>2. ASSUME NEW t \in Threads, TakeFront(t) PROVE SizeOK'
  BY <1>2 DEF TakeFront
<1>3. ASSUME NEW t \in Threads, SpliceAll(t) PROVE SizeOK'
  BY <1>3 DEF SpliceAll
<1> QED
  BY <1>1, <1>2, <1>3
     DEF Next, vars, Call, Acquire, Run, Add, Remove, TryRemove, AddLock,
         TakeLock, TryLock, Lock, AddPost, Wait, TryWait, Repost

(* Only the thread that steps takes or releases the mutex, and it does so    *)
(* exactly when it enters or leaves the scope of its Autolock.               *)
LEMMA MutexStep == IInv /\ [Next]_vars => MutexOK'
<1> SUFFICES ASSUME IInv, [Next]_vars PROVE MutexOK'
  OBVIOUS
<1> USE NoneAssumption DEF IInv, TypeOK, Steps, Goto, TokenOK, MutexOK, InLock
<1>1. CASE UNCHANGED vars
  BY <1>1 DEF vars
<1>2. ASSUME NEW t \in Threads, Call(t) PROVE MutexOK'
  BY <1>2 DEF Call, Add, Remove, TryRemove
<1>3. ASSUME NEW t \in Threads, Acquire(t) PROVE MutexOK'
  BY <1>3 DEF Acquire, AddLock, TakeLock, TryLock, Lock
<1>4. ASSUME NEW t \in Threads, Run(t) PROVE MutexOK'
  <2>1. CASE AddPost(t) \/ AddPush(t) \/ Wait(t)
    BY <2>1 DEF AddPost, AddPush, Wait
  <2>2. CASE TryWait(t)
    BY <2>2 DEF TryWait
  <2>3. CASE TakeFront(t) \/ SpliceAll(t) \/ Repost(t)
    BY <2>3 DEF TakeFront, SpliceAll, Repost
  <2> QED BY <1>4, <2>1, <2>2, <2>3 DEF Run
<1> QED BY <1>1, <1>2, <1>3, <1>4 DEF Next

(* There is at most one token: it is posted only when it does not exist.     *)
LEMMA OneTokenStep == IInv /\ [Next]_vars => OneToken'
<1> SUFFICES ASSUME IInv, [Next]_vars PROVE OneToken'
  OBVIOUS
<1> USE DEF IInv, TypeOK, Steps, Goto, TokenOK, OneToken, Holder
<1>1. CASE UNCHANGED vars
  BY <1>1 DEF vars
<1>2. ASSUME NEW t \in Threads, Call(t) PROVE OneToken'
  BY <1>2, ZenonT(40) DEF Call, Add, Remove, TryRemove
<1>3. ASSUME NEW t \in Threads, Acquire(t) PROVE OneToken'
  BY <1>3, ZenonT(40) DEF Acquire, AddLock, TakeLock, TryLock, Lock
<1>4. ASSUME NEW t \in Threads, Run(t) PROVE OneToken'
  <2>1. CASE AddPost(t)
    <3>1. \A u \in Threads : u # t => ~InLock(u)
      BY <2>1 DEF AddPost, MutexOK, InLock
    <3>2. data = <<>> => \A u \in Threads : ~Holder(u)
      BY <2>1, <3>1 DEF AddPost, TokenBacked, InLock, Posted
    <3> QED BY <2>1, <3>2 DEF AddPost
  <2>2. CASE AddPush(t)
    BY <2>2 DEF AddPush
  <2>3. CASE Wait(t)
    BY <2>3 DEF Wait
  <2>4. CASE TryWait(t)
    BY <2>4 DEF TryWait
  <2>5. CASE TakeFront(t) \/ SpliceAll(t)
    BY <2>5 DEF TakeFront, SpliceAll
  <2>6. CASE Repost(t)
    BY <2>6 DEF Repost
  <2> QED BY <1>4, <2>1, <2>2, <2>3, <2>4, <2>5, <2>6 DEF Run
<1> QED BY <1>1, <1>2, <1>3, <1>4 DEF Next

(* A token is backed by a product.  The token is consumed before a product   *)
(* is popped, so popping never leaves a token behind without a product.      *)
LEMMA BackedStep == IInv /\ [Next]_vars => TokenBacked'
<1> SUFFICES ASSUME IInv, [Next]_vars PROVE TokenBacked'
  OBVIOUS
<1> USE DEF IInv, TypeOK, Steps, Goto, TokenOK, TokenBacked, Posted
<1>1. CASE UNCHANGED vars
  BY <1>1 DEF vars
<1>2. ASSUME NEW t \in Threads, Call(t) PROVE TokenBacked'
  BY <1>2 DEF Call, Add, Remove, TryRemove
<1>3. ASSUME NEW t \in Threads, Acquire(t) PROVE TokenBacked'
  BY <1>3 DEF Acquire, AddLock, TakeLock, TryLock, Lock
<1>4. ASSUME NEW t \in Threads, Run(t) PROVE TokenBacked'
  <2>1. CASE AddPost(t)
    BY <2>1 DEF AddPost
  <2>2. CASE AddPush(t)
    <3>1. \A u \in Threads : u # t => pc[u] # "addPush"
      BY <2>2 DEF AddPush, MutexOK, InLock
    <3>2. data # <<>> \/ arg[t] # <<>> => data' # <<>>
      BY <2>2 DEF AddPush
    <3> QED BY <2>2, <3>1, <3>2 DEF AddPush
  <2>3. CASE Wait(t)
    BY <2>3 DEF Wait
  <2>4. CASE TryWait(t)
    BY <2>4 DEF TryWait
  <2>5. CASE TakeFront(t) \/ SpliceAll(t)
    <3>1. available' = 0 /\ \A u \in Threads : pc'[u] # "takeLock"
      BY <2>5 DEF TakeFront, SpliceAll, OneToken, Holder
    <3> QED BY <3>1
  <2>6. CASE Repost(t)
    <3>1. \A u \in Threads : pc'[u] # "takeLock"
      BY <2>6 DEF Repost, OneToken, Holder
    <3>2. available' = 1 => data' # <<>>
      BY <2>6 DEF Repost, OneToken, Holder
    <3> QED BY <3>1, <3>2
  <2> QED BY <1>4, <2>1, <2>2, <2>3, <2>4, <2>5, <2>6 DEF Run
<1> QED BY <1>1, <1>2, <1>3, <1>4 DEF Next

(* A product is never left without a token.                                  *)
LEMMA WakeupStep == IInv /\ [Next]_vars => NoLostWakeup'
<1> SUFFICES ASSUME IInv, [Next]_vars PROVE NoLostWakeup'
  OBVIOUS
<1> USE DEF IInv, TypeOK, Steps, Goto, TokenOK, NoLostWakeup, Posted, Holder
<1>1. CASE UNCHANGED vars
  BY <1>1 DEF vars
<1>2. ASSUME NEW t \in Threads, Call(t) PROVE NoLostWakeup'
  BY <1>2 DEF Call, Add, Remove, TryRemove
<1>3. ASSUME NEW t \in Threads, Acquire(t) PROVE NoLostWakeup'
  BY <1>3 DEF Acquire, AddLock, TakeLock, TryLock, Lock
<1>4. ASSUME NEW t \in Threads, Run(t) PROVE NoLostWakeup'
  <2>1. CASE AddPost(t)
    <3>1. \A u \in Threads : ~Posted(u)
      BY <2>1 DEF AddPost, MutexOK, InLock
    <3>2. CASE data = <<>> /\ arg[t] # <<>>
      <4>1. available = 0
        BY <2>1, <3>1, <3>2 DEF TokenBacked
      <4> QED BY <2>1, <3>2, <4>1 DEF AddPost
    <3>3. CASE ~(data = <<>> /\ arg[t] # <<>>)
      <4>1. \A u \in Threads : Holder(u) => Holder(u)'
        BY <2>1 DEF AddPost
      <4>2. (\E u \in Threads : Posted(u)') => data # <<>>
        BY <2>1, <3>1, <3>3 DEF AddPost
      <4> QED BY <2>1, <3>3, <4>1, <4>2 DEF AddPost
    <3> QED BY <3>2, <3>3
  <2>2. CASE AddPush(t)
    <3>1. data' # <<>> => data # <<>> \/ arg[t] # <<>>
      BY <2>2 DEF AddPush
    <3> QED BY <2>2, <3>1 DEF AddPush
  <2>3. CASE Wait(t)
    BY <2>3 DEF Wait
  <2>4. CASE TryWait(t)
    <3>1. CASE available > 0
      <4>1. Holder(t)'
        BY <2>4, <3>1 DEF TryWait
      <4> QED BY <4>1
    <3>2. CASE available = 0
      <4>1. \A u \in Threads : Holder(u) => Holder(u)'
        BY <2>4, <3>2 DEF TryWait
      <4>2. \A u \in Threads : Posted(u)' => Posted(u)
        BY <2>4, <3>2 DEF TryWait
      <4> QED BY <2>4, <3>2, <4>1, <4>2 DEF TryWait
    <3> QED BY <2>4, <3>1, <3>2 DEF TryWait
  <2>5. CASE TakeFront(t)
    BY <2>5 DEF TakeFront
  <2>6. CASE SpliceAll(t) \/ Repost(t)
    <3>1. \A u \in Threads : u # t => pc[u] # "addPush"
      BY <2>6 DEF SpliceAll, Repost, MutexOK, InLock
    <3>2. \A u \in Threads : ~Posted(u)'
      BY <2>6, <3>1 DEF SpliceAll, Repost
    <3>3. data' # <<>> => available' = 1
      BY <2>6 DEF SpliceAll, Repost, OneToken
    <3> QED BY <3>2, <3>3
  <2> QED BY <1>4, <2>1, <2>2, <2>3, <2>4, <2>5, <2>6 DEF Run
<1> QED BY <1>1, <1>2, <1>3, <1>4 DEF Next

(* With token and mutex in hand there is a product to take: the adder that   *)
(* posted the token cannot still be inside its own critical section.         *)
LEMMA NoEmptyStep == IInv /\ [Next]_vars => NoEmptyRemove'
<1> SUFFICES ASSUME IInv, [Next]_vars PROVE NoEmptyRemove'
  OBVIOUS
<1> USE DEF IInv, TypeOK, Steps, Goto, TokenOK, NoEmptyRemove
<1>1. CASE UNCHANGED vars
  BY <1>1 DEF vars
<1>2. ASSUME NEW t \in Threads, Call(t) PROVE NoEmptyRemove'
  BY <1>2 DEF Call, Add, Remove, TryRemove
<1>3. ASSUME NEW t \in Threads, Acquire(t) PROVE NoEmptyRemove'
  <2>1. CASE AddLock(t) \/ TryLock(t)
    BY <2>1 DEF AddLock, TryLock, Lock
  <2>2. CASE TakeLock(t)
    <3>1. data # <<>>
      BY <2>2, NoneAssumption
         DEF TakeLock, Lock, TokenBacked, Posted, MutexOK, InLock
    <3> QED BY <2>2, <3>1 DEF TakeLock, Lock
  <2> QED BY <1>3, <2>1, <2>2 DEF Acquire
<1>4. ASSUME NEW t \in Threads, Run(t) PROVE NoEmptyRemove'
  <2>1. CASE AddPost(t) \/ Wait(t)
    BY <2>1 DEF AddPost, Wait
  <2>2. CASE AddPush(t)
    <3>1. data # <<>> => data' # <<>>
      BY <2>2 DEF AddPush
    <3> QED BY <2>2, <3>1 DEF AddPush
  <2>3. CASE TryWait(t)
    <3>1. available = 1 => data # <<>>
      BY <2>3 DEF TryWait, TokenBacked, Posted, MutexOK, InLock
    <3> QED BY <2>3, <3>1 DEF TryWait
  <2>4. CASE TakeFront(t) \/ SpliceAll(t) \/ Repost(t)
    <3>1. \A u \in Threads : u # t => pc[u] # "take"
      BY <2>4 DEF TakeFront, SpliceAll, Repost, MutexOK, InLock
    <3> QED BY <2>4, <3>1 DEF TakeFront, SpliceAll, Repost
  <2> QED BY <1>4, <2>1, <2>2, <2>3, <2>4 DEF Run
<1> QED BY <1>1, <1>2, <1>3, <1>4 DEF Next

(* The inductive invariant holds in every reachable state.                   *)
THEOREM Invariance == Spec => []IInv
<1>1. IInv /\ [Next]_vars => IInv'
  BY TypeStep, SizeStep, MutexStep, OneTokenStep, BackedStep, WakeupStep,
     NoEmptyStep DEF IInv, TokenOK
<1> QED BY <1>1, InitInv, PTL DEF Spec

(* Types: in particular the semaphore is 0 or 1 and sz is never negative.    *)
THEOREM TypeCorrect == Spec => []TypeOK
<1>1. IInv => TypeOK
  BY DEF IInv
<1> QED BY <1>1, Invariance, PTL

(* front() is never called on an empty list, by any number of threads.       *)
THEOREM RemoveSafe == Spec => []NoEmptyRemove
<1>1. IInv => NoEmptyRemove
  BY DEF IInv
<1> QED BY <1>1, Invariance, PTL

(* One token exactly when there is something to take: no wake-up is lost     *)
(* and none is doubled.                                                      *)
THEOREM TokenSafe == Spec => []TokenOK
<1>1. IInv => TokenOK
  BY DEF IInv
<1> QED BY <1>1, Invariance, PTL

(* size() is exact.                                                          *)
THEOREM SizeExact == Spec => []SizeOK
<1>1. IInv => SizeOK
  BY DEF IInv
<1> QED BY <1>1, Invariance, PTL

(* The pool implements the FIFO buffer: a push maps to Put, a pop to TakeOne,*)
(* a splice to TakeEverything, and every other step to a stutter.            *)
THEOREM FifoRefinement == Spec => FifoSpec
<1> USE DEF Fifo!fifoVars
<1>1. Init => Fifo!FifoInit
  BY DEF Init, Fifo!FifoInit
<1>2. IInv /\ [Next]_vars => [Fifo!FifoNext]_Fifo!fifoVars
  <2> SUFFICES ASSUME IInv, [Next]_vars
               PROVE  [Fifo!FifoNext]_Fifo!fifoVars
    OBVIOUS
  <2> USE DEF IInv, TypeOK
  <2>1. ASSUME NEW t \in Threads, AddPush(t) PROVE Fifo!Put
    BY <2>1 DEF AddPush, Fifo!Put
  <2>2. ASSUME NEW t \in Threads, TakeFront(t) PROVE Fifo!TakeOne
    BY <2>2 DEF TakeFront, Fifo!TakeOne
  <2>3. ASSUME NEW t \in Threads, SpliceAll(t) PROVE Fifo!TakeEverything
    BY <2>3 DEF SpliceAll, Fifo!TakeEverything, NoEmptyRemove
  <2>4. CASE UNCHANGED <<data, got>>
    BY <2>4
  <2>5. ASSUME NEW t \in Threads, Call(t) \/ Acquire(t) PROVE UNCHANGED <<data, got>>
    BY <2>5 DEF Call, Acquire, Add, Remove, TryRemove, AddLock, TakeLock,
                TryLock, Lock
  <2>6. ASSUME NEW t \in Threads, AddPost(t) \/ Wait(t) \/ TryWait(t) \/ Repost(t)
        PROVE UNCHANGED <<data, got>>
    BY <2>6 DEF AddPost, Wait, TryWait, Repost
  <2>7. UNCHANGED vars => UNCHANGED <<data, got>>
    BY DEF vars
  <2> QED
    BY <2>1, <2>2, <2>3, <2>4, <2>5, <2>6, <2>7 DEF Next, Run, Fifo!FifoNext
<1> QED
  BY <1>1, <1>2, Invariance, PTL DEF Spec, FifoSpec, Fifo!FifoSpec
=============================================================================
