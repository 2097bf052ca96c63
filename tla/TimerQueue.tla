----------------------------- MODULE TimerQueue -----------------------------
(* The timers of BlmIoqueue: a vector of TimerObj pointers kept as a heap by *)
(* the heap algorithms of the standard library, polled by BlmIoqueue::poll.  *)
(* The loop of poll pops the earliest timer to the back of the vector, calls *)
(* it, writes it back to the LAST slot and pushes it: the vector must not    *)
(* change while the callback runs.                                           *)
EXTENDS Integers, Sequences, FiniteSets, CallbackList

CONSTANTS
    Timers,            \* identities of TimerObj objects
    Objs,              \* objects the callbacks belong to
    obj,               \* obj[t]: the object timer t is registered for
    Intervals,         \* milliInter, in ticks
    MaxNow,            \* bound: the last tick
    AppOps,            \* calls made outside callbacks: "add", "remove", "removeObj"
    CallbackOps,       \* calls made inside timer callbacks
    NoTimer

ASSUME TimerAssumption ==
    /\ Intervals \subseteq Nat
    /\ MaxNow \in Nat
    /\ NoTimer \notin Timers
    /\ obj \in [Timers -> Objs]
    /\ AppOps \cup CallbackOps \subseteq {"add", "remove", "removeObj"}

VARIABLES
    timerCallbacks,    \* the vector, index 1 is front()
    registered,        \* the timers registered and not unregistered
    milliInter, timeout,       \* the fields of a TimerObj
    now,               \* the tick count
    tv,                \* the tick count at the start of the current poll
    pc,                \* "app", "loop" (the while of poll), "callback", "crashed"
    to,                \* the timer being called, the local variable of poll
    fired,             \* history: timers called by the current poll
    compacted,         \* history: removeObjTimers has closed the vector up and
                       \* nothing has called make_heap since
    meddled            \* history: a timer callback has added or removed timers

vars == <<timerCallbacks, registered, milliInter, timeout, now, tv, pc, to,
          fired, compacted, meddled>>

Init ==
    /\ timerCallbacks = <<>>
    /\ registered = {}
    /\ milliInter = [t \in Timers |-> 0]
    /\ timeout = [t \in Timers |-> 0]
    /\ now = 0
    /\ tv = 0
    /\ pc = "app"
    /\ to = NoTimer
    /\ fired = {}
    /\ compacted = FALSE
    /\ meddled = FALSE

-----------------------------------------------------------------------------
(* The heap algorithms.  time[t] is timer t's timeout; the order is  *)
(* pointerGreater, so the front is the earliest.  What the standard library  *)
(* leaves open is a choice.                                                  *)
Elements(h) == {h[i] : i \in 1..Len(h)}

IsHeap(h, time) == \A i \in 2..Len(h) : time[h[i \div 2]] <= time[h[i]]

Rearrangements(h) ==
    {g \in [1..Len(h) -> Elements(h)] :
        \A x \in Elements(h) : Cardinality({i \in 1..Len(h) : g[i] = x})
                             = Cardinality({i \in 1..Len(h) : h[i] = x})}

(* pop_heap: the front goes to the back, the others form a heap again if     *)
(* they did before, and are in some order if not.                            *)
PopHeap(h, time) ==
    {g \in Rearrangements(h) :
        /\ g[Len(h)] = h[1]
        /\ IsHeap(h, time) => IsHeap(SubSeq(g, 1, Len(h) - 1), time)}

(* The positions the last element climbs through: its own, and every one     *)
(* above a position of the path whose element is later than the last one.    *)
Path(h, time) ==
    LET n == Len(h)
    IN  UNION {P \in SUBSET (1..n) :
                  /\ n \in P
                  /\ \A p \in P \ {n} : /\ time[h[n]] < time[h[p]]
                                        /\ \E q \in P : q \div 2 = p}

(* push_heap: the elements on the path move down one position each, and the  *)
(* last element takes the place at the top of the path.                      *)
PushHeap(h, time) ==
    LET path == Path(h, time)
    IN  [i \in 1..Len(h) |-> IF i \notin path THEN h[i]
                             ELSE IF i \div 2 \in path THEN h[i \div 2] ELSE h[Len(h)]]

MakeHeap(h, time) == {g \in Rearrangements(h) : IsHeap(g, time)}

-----------------------------------------------------------------------------
May(op) == (pc = "app" /\ op \in AppOps) \/ (pc = "callback" /\ op \in CallbackOps)

Meddles == meddled' = (meddled \/ pc = "callback")

(* The members of deleted timers mean nothing any more.                      *)
ClearFields(ts) ==
    /\ milliInter' = [t \in Timers |-> IF t \in ts THEN 0 ELSE milliInter[t]]
    /\ timeout' = [t \in Timers |-> IF t \in ts THEN 0 ELSE timeout[t]]

Tick ==
    /\ now < MaxNow
    /\ pc # "crashed"
    /\ now' = now + 1
    /\ UNCHANGED <<timerCallbacks, registered, milliInter, timeout, tv, pc, to,
                   fired, compacted, meddled>>

(* addTimerCallback: construct, push_back, push_heap.                        *)
AddTimer(t, interval) ==
    /\ May("add")
    /\ t \notin registered /\ t # to
    /\ milliInter' = [milliInter EXCEPT ![t] = interval]
    /\ timeout' = [timeout EXCEPT ![t] = now + interval]
    /\ timerCallbacks' = PushHeap(Append(timerCallbacks, t), timeout')
    /\ registered' = registered \cup {t}
    /\ Meddles
    /\ UNCHANGED <<now, tv, pc, to, fired, compacted>>

RemoveWithoutMakeHeap(t) ==
    /\ May("remove")
    /\ t \in registered
    /\ \E i \in 1..Len(timerCallbacks) :
        /\ timerCallbacks[i] = t
        /\ LET n == Len(timerCallbacks)
               swapped == [timerCallbacks EXCEPT ![i] = timerCallbacks[n]]
           IN  timerCallbacks' = SubSeq(swapped, 1, n - 1)
    /\ registered' = registered \ {t}
    /\ ClearFields({t})
    /\ compacted' = FALSE
    /\ Meddles
    /\ UNCHANGED <<now, tv, pc, to, fired>>

(* removeTimer of a registered timer: delete it, swap it with the last one,  *)
(* pop_back, make_heap.  (Of any other pointer it only returns -1.)          *)
RemoveTimer(t) ==
    /\ May("remove")
    /\ t \in registered
    /\ \E i \in 1..Len(timerCallbacks) :
        /\ timerCallbacks[i] = t
        /\ \A j \in 1..(i - 1) : timerCallbacks[j] # t
        /\ LET n == Len(timerCallbacks)
               swapped == [timerCallbacks EXCEPT ![i] = timerCallbacks[n]]
           IN  timerCallbacks' \in MakeHeap(SubSeq(swapped, 1, n - 1), timeout)
    /\ registered' = registered \ {t}
    /\ ClearFields({t})
    /\ compacted' = FALSE
    /\ Meddles
    /\ UNCHANGED <<now, tv, pc, to, fired>>

(* removeObjTimers: the timers of o are deleted and the others close up, in  *)
(* their order; nothing makes the vector a heap again.                       *)
RemoveObjTimers(o) ==
    /\ May("removeObj")
    /\ \E t \in registered : obj[t] = o
    /\ timerCallbacks' = CloseUp(timerCallbacks,
                                 {i \in 1..Len(timerCallbacks) : obj[timerCallbacks[i]] # o})
    /\ registered' = {t \in registered : obj[t] # o}
    /\ ClearFields({t \in registered : obj[t] = o})
    /\ compacted' = TRUE
    /\ Meddles
    /\ UNCHANGED <<now, tv, pc, to, fired>>

(* ~BlmIoqueue deletes the timers still registered; a new one has none.      *)
DestroyIoqueue ==
    /\ pc = "app"
    /\ registered # {}
    /\ timerCallbacks' = <<>>
    /\ registered' = {}
    /\ ClearFields(registered)
    /\ compacted' = FALSE
    /\ UNCHANGED <<now, tv, pc, to, fired, meddled>>

-----------------------------------------------------------------------------

(* BlmIoqueue::poll up to the ioqueue: tv is read once.                      *)
Poll ==
    /\ pc = "app"
    /\ tv' = now
    /\ pc' = "loop"
    /\ UNCHANGED <<timerCallbacks, registered, milliInter, timeout, now, to,
                   fired, compacted, meddled>>

DueNow(h) == h # <<>> /\ timeout[h[1]] <= now

(* The condition of the while loop.                                          *)
Due(h) == h # <<>> /\ timeout[h[1]] < tv

FireTimer ==
    /\ pc = "loop"
    /\ Due(timerCallbacks)
    /\ to' = timerCallbacks[1]
    /\ timerCallbacks' \in PopHeap(timerCallbacks, timeout)
    /\ pc' = "callback"
    /\ UNCHANGED <<registered, milliInter, timeout, now, tv, fired,
                   compacted, meddled>>

ReturnKeepTimeout ==
    /\ pc = "callback"
    /\ \/ /\ to \in registered
          /\ timerCallbacks # <<>>
          /\ timeout' = [timeout EXCEPT ![to] = @ + milliInter[to]]
          /\ timerCallbacks' =
                PushHeap([timerCallbacks EXCEPT ![Len(timerCallbacks)] = to], timeout')
          /\ fired' = fired \cup {to}
          /\ pc' = "loop"
          /\ to' = NoTimer
       \/ /\ to \notin registered \/ timerCallbacks = <<>>
          /\ pc' = "crashed"
          /\ UNCHANGED <<timerCallbacks, timeout, to, fired>>
    /\ UNCHANGED <<registered, milliInter, now, tv, compacted, meddled>>

(* The callback returns: resetTimer, back() = to, push_heap.  If the         *)
(* callback has unregistered its own timer, `to' is a deleted object.        *)
CallbackReturns ==
    /\ pc = "callback"
    /\ \/ /\ to \in registered
          /\ timerCallbacks # <<>>
          /\ timeout' = [timeout EXCEPT ![to] = now + milliInter[to]]
          /\ timerCallbacks' =
                PushHeap([timerCallbacks EXCEPT ![Len(timerCallbacks)] = to], timeout')
          /\ fired' = fired \cup {to}
          /\ pc' = "loop"
          /\ to' = NoTimer
       \/ /\ to \notin registered \/ timerCallbacks = <<>>
          /\ pc' = "crashed"
          /\ UNCHANGED <<timerCallbacks, timeout, to, fired>>
    /\ UNCHANGED <<registered, milliInter, now, tv, compacted, meddled>>

(* The loop ends; pj_ioqueue_poll and pj_timer_heap_poll do not touch these, *)
(* and the local variables of poll are gone.                                 *)
LoopEnds ==
    /\ pc = "loop"
    /\ ~Due(timerCallbacks)
    /\ pc' = "app"
    /\ tv' = 0
    /\ fired' = {}
    /\ UNCHANGED <<timerCallbacks, registered, milliInter, timeout, now, to,
                   compacted, meddled>>

Next ==
    \/ Tick
    \/ \E t \in Timers : (\E interval \in Intervals : AddTimer(t, interval)) \/ RemoveTimer(t)
    \/ \E o \in Objs : RemoveObjTimers(o)
    \/ DestroyIoqueue
    \/ Poll \/ FireTimer \/ CallbackReturns \/ LoopEnds

Spec == Init /\ [][Next]_vars

(* Callbacks return and poll runs on.                                        *)
FairSpec == Spec /\ WF_vars(FireTimer \/ CallbackReturns \/ LoopEnds)

-----------------------------------------------------------------------------
(* Types; the time of a poll is never ahead of the clock.                    *)
TypeOK ==
    /\ timerCallbacks \in Seq(Timers)
    /\ registered \subseteq Timers
    /\ milliInter \in [Timers -> Intervals \cup {0}]
    /\ timeout \in [Timers -> Nat]
    /\ now \in 0..MaxNow
    /\ tv \in 0..now
    /\ pc \in {"app", "loop", "callback", "crashed"}
    /\ to \in Timers \cup {NoTimer}
    /\ fired \subseteq Timers
    /\ compacted \in BOOLEAN
    /\ meddled \in BOOLEAN

(* The vector holds every registered timer exactly once, whatever has been   *)
(* added, removed and fired, and poll never touches a deleted timer, as long *)
(* as timer callbacks leave the timers alone: back() = to assumes that.      *)
RegisteredKept ==
    ~meddled =>
        /\ pc \in {"app", "loop"} => Elements(timerCallbacks) = registered
        /\ Len(timerCallbacks) = Cardinality(registered)
        /\ pc # "crashed"

(* When poll goes on to the sockets, every timer that had expired when poll  *)
(* was called has been called.  removeObjTimers breaks this: it leaves a     *)
(* vector that need not be a heap, until removeTimer or a new BlmIoqueue     *)
(* puts it in order.                                                         *)
AllExpiredFired ==
    pc = "loop" /\ ~Due(timerCallbacks) /\ ~meddled /\ ~compacted =>
        \A t \in registered : ~(timeout[t] < tv)

(* A poll calls a registered timer at most once, however long its callbacks  *)
(* take, also when its interval is 0, and whatever the callbacks register    *)
(* and unregister: poll cannot be kept busy by its timers.                   *)
FiredOncePerPoll ==
    [][pc = "loop" /\ pc' = "callback" /\ to' \in registered => to' \notin fired]_vars

(* The loop of poll ends and the sockets get their turn, whatever timer      *)
(* callbacks do, short of making poll use a timer they have deleted.         *)
PollReturns == pc = "loop" ~> pc = "app" \/ (pc = "crashed" /\ meddled)

(* Timers are neither lost nor missed while their callbacks leave them alone.*)
TimersKept == TypeOK /\ RegisteredKept /\ AllExpiredFired
=============================================================================
