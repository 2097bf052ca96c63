----------------------------- MODULE Callbacks ------------------------------
(***************************************************************************)
(* The callbacks an application registers with BlmClient and with wget(),   *)
(* and how they are called: callList and processMsg walk a std::list with a *)
(* live iterator while the callback they are calling may register more      *)
(* callbacks or remove its own; PjHttp calls back once for a download.      *)
(*                                                                          *)
(* A list is a sequence of nodes with the callback each holds: removing     *)
(* moves callbacks to the front nodes and frees the nodes at the end, and   *)
(* the iterator stands on a node.  Nodes and callbacks are numbered as they *)
(* are allocated.  Objects are the application's; one that is destroyed     *)
(* removes its callbacks first.  A callback that deletes the client itself  *)
(* is left out.  `fault` is the undefined behaviour that ended the program. *)
(***************************************************************************)
EXTENDS Naturals, Sequences, FiniteSets, SequencesExt, CallbackList

CONSTANTS Objs, MsgTypes, Requests,
          MaxCallbacks,   \* bound on registrations
          MaxChunks       \* bound on the pieces a download arrives in

ASSUME CallbacksAssumption ==
    /\ Objs # {} /\ MaxCallbacks \in Nat /\ MaxChunks \in Nat
    /\ {"conn", "close", "none"} \cap MsgTypes = {}

VARIABLES lists,   \* connCallbacks, closeCallbacks and the lists of msgMap
          msgMap,  \* message types with an entry
          target,  \* the object of every callback that is allocated
          made,    \* callbacks made so far
          run,     \* the walk over a list under way
          dead,    \* objects destroyed
          gone,    \* the client was destroyed
          http,    \* PjHttp objects
          fault

vars == <<lists, msgMap, target, made, run, dead, gone, http, fault>>
listVars == <<lists, msgMap, target, made>>

Lists == {"conn", "close"} \cup MsgTypes
Callbacks == 1..MaxCallbacks
Node == [node : Callbacks, cb : Callbacks]

\* A walk: its list and iterator, the callbacks called, those registered when
\* it began and, as history, those removed since, and whether one of the
\* removed was on the iterator's node or before it.
NoRun == [list |-> "none", node |-> 0, called |-> <<>>, start |-> {}, removed |-> {}, shifted |-> FALSE, ended |-> FALSE]

NoHttp == [st |-> "none", obj |-> CHOOSE o \in Objs : TRUE, result |-> 0, calls |-> 0]

Init ==
    /\ lists = [l \in Lists |-> <<>>] /\ msgMap = {}
    /\ target = <<>> /\ made = 0
    /\ run = NoRun /\ dead = {} /\ gone = FALSE
    /\ http = [r \in Requests |-> NoHttp]
    /\ fault = ""

Walking == run.list # "none" /\ ~run.ended
Nodes(l) == {lists[l][k].node : k \in DOMAIN lists[l]}
Held(l) == {lists[l][k].cb : k \in DOMAIN lists[l]}
Position(l, n) == CHOOSE k \in DOMAIN lists[l] : lists[l][k].node = n

\* Code that runs: nothing was undefined, and the client exists.
Running == fault = "" /\ ~gone

-----------------------------------------------------------------------------
(* Registration                                                             *)

\* addConnectCallback, addCloseCallback, addMsgCallback.
Add(l, o) ==
    /\ Running /\ made < MaxCallbacks /\ o \notin dead
    /\ made' = made + 1 /\ target' = Append(target, o)
    /\ lists' = [lists EXCEPT ![l] = <<[node |-> made + 1, cb |-> made + 1]>> \o @]
    /\ msgMap' = msgMap \cup ({l} \cap MsgTypes)
    /\ UNCHANGED <<run, dead, gone, http, fault>>

\* Mutant: the callback that moved to a freed place is not looked at.
removeAllCallbackFromListSkips(ls, o) ==
    LET first == SelectInSeq(ls, LAMBDA e : target[e.cb] = o)
    IN  IF first = 0 THEN ls ELSE RemoveAt(ls, first)

\* Mutant: the node that result points to goes too.
removeAllCallbackFromListDrops(ls, o) ==
    LET moved == CloseUp(ls, {k \in DOMAIN ls : target[ls[k].cb] # o})
    IN  [k \in DOMAIN moved \ {Len(moved)} |-> [node |-> ls[k].node, cb |-> moved[k].cb]]

\* removeAllCallbackFromList: the callbacks of other objects move to the
\* first nodes, the nodes that are left over are freed.
removeAllCallbackFromList(ls, o) ==
    LET moved == CloseUp(ls, {k \in DOMAIN ls : target[ls[k].cb] # o})
    IN  [k \in DOMAIN moved |-> [node |-> ls[k].node, cb |-> moved[k].cb]]

\* The entries of msgMap whose list has become empty are erased.
Entries(after) == {m \in msgMap : after[m] # <<>>}

\* removeObjCallbacks, as far as the lists go.
Removal(o) ==
    LET after == [l \in Lists |-> removeAllCallbackFromList(lists[l], o)]
        theirs == {c \in 1..made : target[c] = o}
    IN  /\ lists' = after
        /\ msgMap' = Entries(after)
        /\ run' = IF ~Walking THEN run
                  ELSE [run EXCEPT !.removed = @ \cup theirs,
                                   !.shifted = @ \/ \E k \in 1..Len(lists[run.list]) :
                                                       /\ target[lists[run.list][k].cb] = o
                                                       /\ run.node \in Nodes(run.list) => k <= Position(run.list, run.node)]
        /\ UNCHANGED <<target, made, gone, http, fault>>

RemoveObjCallbacks(o) == Running /\ Removal(o) /\ UNCHANGED dead

\* An object removes its callbacks in its destructor, then it is gone.
DestroyObject(o) == Running /\ o \notin dead /\ Removal(o) /\ dead' = dead \cup {o}

\* ~BlmClient deletes the callbacks nobody removed.
DestroyClient ==
    /\ Running /\ ~Walking /\ gone' = TRUE
    /\ lists' = [l \in Lists |-> <<>>] /\ msgMap' = {}
    /\ UNCHANGED <<target, made, run, dead, http, fault>>

-----------------------------------------------------------------------------
(* Calling                                                                  *)

\* The callback at position k of l is called.
Call(l, k, r) ==
    LET e == lists[l][k]
    IN  IF target[e.cb] \in dead
        THEN fault' = "dead object" /\ run' = r
        ELSE run' = [r EXCEPT !.node = e.node, !.called = Append(@, e.cb)] /\ UNCHANGED fault

\* callList(connCallbacks) in onConnect, callList(closeCallbacks) in onClose,
\* processMsg for a type that is in the map.
Dispatch(l) ==
    /\ Running /\ ~Walking /\ lists[l] # <<>> /\ l \in {"conn", "close"} \cup msgMap
    /\ Call(l, 1, [NoRun EXCEPT !.list = l, !.start = Held(l)])
    /\ UNCHANGED <<listVars, dead, gone, http>>

\* A callback returns 0: the iterator moves on, if its node still exists.
ReturnOk ==
    /\ Running /\ Walking
    /\ IF run.node \notin Nodes(run.list) THEN fault' = "freed node" /\ UNCHANGED run
       ELSE LET k == Position(run.list, run.node)
            IN  IF k = Len(lists[run.list]) THEN run' = [run EXCEPT !.ended = TRUE] /\ UNCHANGED fault
                ELSE Call(run.list, k + 1, run)
    /\ UNCHANGED <<listVars, dead, gone, http>>

\* ... or something else, which ends the walk; the caller closes the
\* connection.
ReturnError ==
    /\ Running /\ Walking /\ run' = NoRun
    /\ UNCHANGED <<listVars, dead, gone, http, fault>>

-----------------------------------------------------------------------------
(* BlmIoqueue::wget                                                         *)

\* The constructor creates and starts the request; failures are only logged.
\* A URL that does not parse leaves no request, which it uses all the same;
\* a request that does not start (no address, no route) stays as it is.
Wget(r, o) ==
    /\ Running /\ http[r].st = "none" /\ o \notin dead
    /\ \/ fault' = "no request" /\ UNCHANGED http
       \/ \E st \in {"started", "failed"} :
             http' = [http EXCEPT ![r].st = st, ![r].obj = o] /\ UNCHANGED fault
    /\ UNCHANGED <<listVars, run, dead, gone>>

on_data_read(r) ==
    /\ Running /\ ~Walking /\ http[r].st = "started" /\ http[r].result < MaxChunks
    /\ http' = [http EXCEPT ![r].result = @ + 1]
    /\ UNCHANGED <<listVars, run, dead, gone, fault>>

\* Mutant: an error is only logged.
CompletedUnlessError(r, status) ==
    IF status = "ok" THEN [http EXCEPT ![r].st = "deleted", ![r].calls = @ + 1] ELSE http

\* The callback gets what has arrived, whatever the status; then the object
\* is deleted and the request with it.
Completed(r, status) == [http EXCEPT ![r].st = "deleted", ![r].calls = @ + 1]

\* on_complete, from the poll that finds the end of the answer, an error, or
\* the timer of the request.
on_complete(r, status) ==
    /\ Running /\ ~Walking /\ http[r].st = "started"
    /\ IF http[r].obj \in dead THEN fault' = "dead object" /\ UNCHANGED http
       ELSE http' = Completed(r, status) /\ UNCHANGED fault
    /\ UNCHANGED <<listVars, run, dead, gone>>

Next ==
    \/ \E l \in Lists, o \in Objs : Add(l, o)
    \/ \E o \in Objs : RemoveObjCallbacks(o) \/ DestroyObject(o)
    \/ DestroyClient
    \/ \E l \in Lists : Dispatch(l)
    \/ ReturnOk \/ ReturnError
    \/ \E r \in Requests :
          \/ \E o \in Objs : Wget(r, o)
          \/ on_data_read(r)
          \/ \E status \in {"ok", "error"} : on_complete(r, status)

\* Callbacks return, and every poll ends in pj_timer_heap_poll, which ends a
\* request when its time is over.
Fairness ==
    /\ WF_vars(ReturnOk)
    /\ \A r \in Requests : SF_vars(on_complete(r, "error"))

Spec == Init /\ [][Next]_vars /\ Fairness

-----------------------------------------------------------------------------
(* Properties                                                               *)

\* Types of the lists, the walk under way and the downloads.
TypeOK ==
    /\ lists \in [Lists -> Seq(Node)] /\ msgMap \subseteq MsgTypes
    /\ target \in Seq(Objs) /\ made = Len(target) /\ made \in 0..MaxCallbacks
    /\ run.list \in Lists \cup {"none"} /\ run.called \in Seq(Callbacks)
    /\ dead \subseteq Objs /\ gone \in BOOLEAN
    /\ fault \in {"", "freed node", "dead object", "no request"}
    /\ http \in [Requests -> [st : {"none", "started", "failed", "deleted"}, obj : Objs,
                              result : 0..MaxChunks, calls : {0, 1}]]

\* One walk calls no callback twice and calls them newest first, whatever the
\* callbacks register or remove on the way (callList, processMsg).
NewestFirstOnce == \A i, j \in DOMAIN run.called : i < j => run.called[i] > run.called[j]

\* A walk that ended without an error has called every callback that was
\* registered when it began and not removed since, unless a callback already
\* called was removed on the way: then the ones behind it move up under the
\* iterator, and one is passed over.
NonePassedOver ==
    run.ended /\ ~run.shifted => run.start \ run.removed \subseteq ToSet(run.called)

\* The iterator loses its node only when a callback that was already called,
\* or the one being called, is removed during the walk.
IteratorLostOnlyByShift == fault = "freed node" => run.shifted

\* Once an object has removed its callbacks none of them is in a list any
\* more, so that no walk calls into it when it is destroyed.
DeadNotCalled ==
    /\ \A l \in Lists : \A c \in Held(l) : target[c] \notin dead
    /\ fault = "dead object" => \E r \in Requests : http[r].st = "started" /\ http[r].obj \in dead

\* Every callback is held by one node of one list, and every node has its own
\* callback: none is deleted twice or forgotten when the lists are emptied.
CallbackHeldOnce ==
    /\ \A l \in Lists : IsInjective([k \in DOMAIN lists[l] |-> lists[l][k].cb])
    /\ \A l1, l2 \in Lists : l1 # l2 => Held(l1) \cap Held(l2) = {}

\* The map has an entry for a type exactly when there is a callback for it:
\* a message with no callback is reported as such.
EntriesInUse == msgMap = {m \in MsgTypes : lists[m] # <<>>}

\* A download that was started calls back, and only once: at its end, on an
\* error or after its timeout; unless the program ends first.
StartedAnswered ==
    /\ \A r \in Requests : (http[r].st = "started") ~> (http[r].st = "deleted" \/ ~Running)
    /\ [](\A r \in Requests : http[r].calls = (IF http[r].st = "deleted" THEN 1 ELSE 0))

\* A walk over callbacks that register and remove meanwhile: the order, who is
\* called, and when the iterator is lost.
WalkExact == TypeOK /\ NewestFirstOnce /\ NonePassedOver /\ IteratorLostOnlyByShift

\* What the lists hold between walks: each callback once, no object that is
\* gone, no empty entry.
ListsKept == DeadNotCalled /\ CallbackHeldOnce /\ EntriesInUse
=============================================================================
