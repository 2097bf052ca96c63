----------------------------- MODULE BlmClient ------------------------------
(* BlmClient, its ClientTcp objects and the ioqueue they are registered in:  *)
(* connectFastest races one connection per address and keeps the first one   *)
(* that is established.  Everything runs on the thread that calls            *)
(* BlmIoqueue::poll, so the interleavings are those of one thread with       *)
(* itself: select reports a BATCH of events, the callback of one event       *)
(* deletes the objects the later events of the batch are about, and the      *)
(* application, called back in the middle of it, calls the client again.     *)
EXTENDS IoQueue, Sequences

CONSTANTS
    NoKey,             \* the key of a PjTcp whose registration failed
    MaxIps,            \* bound: addresses given to one connectFastest
    Reentrant,         \* kinds of callback ("conn", "msg", "close") in which
                       \* the application calls connectFastest / disconnect
    ConnectOutcomes,   \* what pj_sock_connect does: "pending", "ok", "error"
    ReadOutcomes       \* what a read brings: "part", "msg", "bad", "eof", "error"

ASSUME NoKeyAssumption == NoKey \notin Keys
ASSUME OptionAssumption ==
    /\ MaxIps \in Nat
    /\ Reentrant \subseteq {"conn", "msg", "close"}
    /\ ConnectOutcomes \subseteq {"pending", "ok", "error"}
    /\ ReadOutcomes \subseteq {"part", "msg", "bad", "eof", "error"}

VARIABLES
    alive,             \* the BlmClient exists
    clientTcp,         \* BlmClient::clientTcp
    tcpCandidates,     \* BlmClient::tcpCandidates, whose order nothing uses
    live,              \* the PjTcp objects that have not been deleted
    keyOf,             \* keyOf[t]: PjTcp::key
    key,               \* the ioqueue's key table
    batch,             \* events of the current poll still to be dispatched
    cur,               \* the key whose event is being dispatched, or NoKey
    pc,                \* where the polling thread is: in the application
                       \* ("app"), between events ("dispatch"), inside the
                       \* application's callbacks, or in undefined behaviour
    self,              \* the PjTcp whose member function called the callback
                       \* and will be used when it returns
    seen               \* history: callbacks made since the application last
                       \* called connectFastest, disconnect or the destructor

vars == <<alive, clientTcp, tcpCandidates, live, keyOf, key, batch, cur, pc,
          self, seen>>

Init ==
    /\ alive = TRUE
    /\ clientTcp = NoTcp
    /\ tcpCandidates = {}
    /\ live = {}
    /\ keyOf = [t \in Tcps |-> NoKey]
    /\ key = CreatedTable
    /\ batch = {}
    /\ cur = NoKey
    /\ pc = "app"
    /\ self = NoTcp
    /\ seen = <<>>

-----------------------------------------------------------------------------
Owned == tcpCandidates \cup ({clientTcp} \ {NoTcp})

KeysOf(ts) == {keyOf[t] : t \in ts} \ {NoKey}

(* ~PjTcp for every object of ts: unregister the key, close the socket.      *)
(* The members of a deleted object are reset.                                *)
Delete(ts) ==
    /\ live' = live \ ts
    /\ keyOf' = [t \in Tcps |-> IF t \in ts THEN NoKey ELSE keyOf[t]]

(* An address for a new object: one that nothing still points to.            *)
Fresh ==
    {t \in Tcps : /\ t \notin live \cup Owned \cup {self}
                  /\ \A k \in Keys : key[k].user # t}

(* The application has the thread: outside poll, or in a callback in which   *)
(* it calls the client again.                                                *)
AppTurn == alive /\ (pc = "app" \/ pc \in Reentrant)

(* The event being dispatched is done with: its reference is dropped, and    *)
(* the poll goes on with the rest of the batch.                              *)
EndEvent(rest) ==
    /\ cur' = NoKey
    /\ self' = NoTcp
    /\ pc' = IF rest = {} THEN "app" ELSE "dispatch"

-----------------------------------------------------------------------------
(* The application's calls.                                                  *)

(* PjTcp::PjTcp for every object of new: register the socket, if a key is    *)
(* left, and start to connect.  A constructor that gets no key only logs.    *)
ConstructTcps(K, new) ==
    \E regs \in SUBSET new :
        /\ regs = new \/ Cardinality(regs) = Cardinality(FreeKeys(K))
        /\ \E assign \in [regs -> FreeKeys(K)], outcome \in [regs -> ConnectOutcomes] :
            /\ \A t, u \in regs : assign[t] = assign[u] => t = u
            /\ key' = RegisterAll(K, assign, outcome)
            /\ keyOf' = [t \in Tcps |-> IF t \in regs THEN assign[t]
                                        ELSE IF t \in new \cup Owned THEN NoKey
                                        ELSE keyOf[t]]

(* connectFastest: disconnects first if need be, then constructs a ClientTcp *)
(* per address.                                                              *)
ConnectFastest(new) ==
    /\ AppTurn
    /\ Cardinality(new) <= MaxIps
    /\ LET left    == Unregister(key, KeysOf(Owned))
           scanned == IF new = {} THEN left ELSE ScanClosing(left)
       IN  ConstructTcps(scanned, new)
    /\ live' = (live \ Owned) \cup new
    /\ clientTcp' = NoTcp
    /\ tcpCandidates' = new
    /\ seen' = <<>>
    /\ UNCHANGED <<alive, batch, cur, pc, self>>

(* disconnect: deletes the connection or every candidate, calls nobody back. *)
Disconnect ==
    /\ AppTurn
    /\ Owned # {}
    /\ key' = Unregister(key, KeysOf(Owned))
    /\ Delete(Owned)
    /\ clientTcp' = NoTcp
    /\ tcpCandidates' = {}
    /\ seen' = <<>>
    /\ UNCHANGED <<alive, batch, cur, pc, self>>

(* ~BlmClient drops the callbacks and disconnects; a new one may be made.    *)
DestroyClient ==
    /\ pc = "app" /\ alive
    /\ alive' = FALSE
    /\ key' = Unregister(key, KeysOf(Owned))
    /\ Delete(Owned)
    /\ clientTcp' = NoTcp
    /\ tcpCandidates' = {}
    /\ seen' = <<>>
    /\ UNCHANGED <<batch, cur, pc, self>>

CreateClient ==
    /\ pc = "app" /\ ~alive
    /\ alive' = TRUE
    /\ UNCHANGED <<clientTcp, tcpCandidates, live, keyOf, key, batch, cur, pc,
                   self, seen>>

(* sendMsg on an established connection may leave a write pending; SendPath  *)
(* models what happens to the data.  Without a connection it returns -1.     *)
SendMsg ==
    /\ alive /\ pc \in {"app", "conn", "msg", "close"}
    /\ clientTcp # NoTcp
    /\ key' = [key EXCEPT ![keyOf[clientTcp]].writing = TRUE]
    /\ UNCHANGED <<alive, clientTcp, tcpCandidates, live, keyOf, batch, cur,
                   pc, self, seen>>

-----------------------------------------------------------------------------
(* Time and the ioqueue.                                                     *)

(* PJ_IOQUEUE_KEY_FREE_DELAY has passed for a key of the closing list.       *)
FreeDelayOver(k) ==
    /\ key[k].where = "closing"
    /\ pc # "crashed"
    /\ key' = [key EXCEPT ![k].where = "expired"]
    /\ UNCHANGED <<alive, clientTcp, tcpCandidates, live, keyOf, batch, cur,
                   pc, self, seen>>

(* pj_ioqueue_poll up to the dispatching: select reports some of the watched *)
(* events, every one of them takes a reference on its key.                   *)
Poll(events) ==
    /\ pc = "app"
    /\ events # {}
    /\ batch' = events
    /\ key' = AddRefs(key, events)
    /\ pc' = "dispatch"
    /\ UNCHANGED <<alive, clientTcp, tcpCandidates, live, keyOf, cur, self, seen>>

(* With no descriptor to watch, poll only brings back expired keys.          *)
PollIdle ==
    /\ pc = "app"
    /\ Watched(key) = {}
    /\ \E k \in Keys : key[k].where = "expired"
    /\ key' = ScanClosing(key)
    /\ UNCHANGED <<alive, clientTcp, tcpCandidates, live, keyOf, batch, cur,
                   pc, self, seen>>

-----------------------------------------------------------------------------
(* Dispatching.  Of one key's events the write comes first, then the read,   *)
(* then the exception; the order of the keys is left open.                   *)
Dispatching(k, ev) ==
    /\ pc = "dispatch"
    /\ <<k, ev>> \in batch
    /\ ev = "read"   => <<k, "write">> \notin batch
    /\ ev = "except" => <<k, "write">> \notin batch /\ <<k, "read">> \notin batch

(* What an event is about: nothing any more, if the key was unregistered by  *)
(* an earlier event of the batch or the operation has been completed by one. *)
Current(k, ev) ==
    /\ ~key[k].closing
    /\ CASE ev = "write"  -> key[k].connecting \/ key[k].writing
         [] ev = "read"   -> key[k].reading
         [] ev = "except" -> key[k].connecting

DispatchStale(k, ev) ==
    /\ Dispatching(k, ev)
    /\ ~Current(k, ev)
    /\ batch' = batch \ {<<k, ev>>}
    /\ key' = DropRef(key, {k})
    /\ EndEvent(batch')
    /\ UNCHANGED <<alive, clientTcp, tcpCandidates, live, keyOf, seen>>

OnCloseKeepFailed(p, K, k) ==
    /\ \/ /\ tcpCandidates \ {p} # {}
          /\ key' = DropRef(K, {k})
          /\ EndEvent(batch')
          /\ UNCHANGED <<clientTcp, tcpCandidates, live, keyOf, seen>>
       \/ /\ tcpCandidates \ {p} = {}
          /\ key' = Unregister(K, KeysOf(Owned))
          /\ Delete(Owned)
          /\ clientTcp' = NoTcp
          /\ tcpCandidates' = {}
          /\ cur' = k
          /\ pc' = "close"
          /\ self' = NoTcp
          /\ seen' = Append(seen, "close")

OnCloseEachFailure(p, K, k) ==
    LET gone == IF tcpCandidates = {} THEN Owned ELSE {p} \cap tcpCandidates
    IN  /\ key' = Unregister(K, KeysOf(gone))
        /\ Delete(gone)
        /\ clientTcp' = IF tcpCandidates = {} THEN NoTcp ELSE clientTcp
        /\ tcpCandidates' = tcpCandidates \ {p}
        /\ cur' = k
        /\ pc' = "close"
        /\ self' = NoTcp
        /\ seen' = Append(seen, "close")

(* BlmClient::onClose(p), K being the key table at the call and k the key    *)
(* whose event led to it.  While other candidates are left only p is         *)
(* deleted; otherwise everything is, and the close callbacks are called.     *)
OnClose(p, K, k) ==
    LET rest == tcpCandidates \ {p}
    IN  \/ /\ rest # {}
           /\ key' = DropRef(Unregister(K, KeysOf({p} \cap tcpCandidates)), {k})
           /\ Delete({p} \cap tcpCandidates)
           /\ tcpCandidates' = rest
           /\ EndEvent(batch')
           /\ UNCHANGED <<clientTcp, seen>>
        \/ /\ rest = {}
           /\ key' = Unregister(K, KeysOf(Owned))
           /\ Delete(Owned)
           /\ clientTcp' = NoTcp
           /\ tcpCandidates' = {}
           /\ cur' = k
           /\ pc' = "close"
           /\ self' = NoTcp
           /\ seen' = Append(seen, "close")

OnConnectKeepLosers(p, K, k) ==
    /\ key' = K
    /\ tcpCandidates' = {}
    /\ clientTcp' = p
    /\ cur' = k
    /\ pc' = "conn"
    /\ self' = p
    /\ seen' = Append(seen, "conn")
    /\ UNCHANGED <<live, keyOf>>

OnConnectDeleteAll(p, K, k) ==
    /\ key' = Unregister(K, KeysOf(tcpCandidates))
    /\ Delete(tcpCandidates)
    /\ tcpCandidates' = {}
    /\ clientTcp' = p
    /\ cur' = k
    /\ pc' = "conn"
    /\ self' = p
    /\ seen' = Append(seen, "conn")

(* BlmClient::onConnect(p): the losers are deleted, p becomes the            *)
(* connection, the connect callbacks are called.                             *)
OnConnect(p, K, k) ==
    LET losers == tcpCandidates \ {p}
    IN  /\ key' = Unregister(K, KeysOf(losers))
        /\ Delete(losers)
        /\ tcpCandidates' = {}
        /\ clientTcp' = p
        /\ cur' = k
        /\ pc' = "conn"
        /\ self' = p
        /\ seen' = Append(seen, "conn")

(* ClientTcp::onConnect sends the AES key, which may leave a write pending.  *)
SendAesKey(K, k) == {[K EXCEPT ![k].writing = pending] : pending \in BOOLEAN}

(* A connect in progress has succeeded.                                      *)
DispatchConnected(k) ==
    /\ Dispatching(k, "write")
    /\ Current(k, "write") /\ key[k].connecting
    /\ batch' = batch \ {<<k, "write">>}
    /\ \E K \in SendAesKey([key EXCEPT ![k].connecting = FALSE], k) :
        OnConnect(key[k].user, K, k)
    /\ UNCHANGED alive

(* A connect in progress has failed, reported as writable or exceptional.    *)
DispatchConnectFailed(k, ev) ==
    /\ ev \in {"write", "except"}
    /\ Dispatching(k, ev)
    /\ Current(k, ev) /\ key[k].connecting
    /\ batch' = batch \ {<<k, ev>>}
    /\ OnClose(key[k].user, [key EXCEPT ![k].connecting = FALSE], k)
    /\ UNCHANGED alive

(* A pending write goes out, in full (on_ioqueue_write) or in part.          *)
DispatchWritten(k) ==
    /\ Dispatching(k, "write")
    /\ Current(k, "write") /\ ~key[k].connecting
    /\ batch' = batch \ {<<k, "write">>}
    /\ \E pending \in BOOLEAN :
        key' = DropRef([key EXCEPT ![k].writing = pending], {k})
    /\ EndEvent(batch')
    /\ UNCHANGED <<alive, clientTcp, tcpCandidates, live, keyOf, seen>>

(* on_ioqueue_read.  A part of a message is kept and the next read started;  *)
(* a message goes to its callbacks; end of file or a bad header closes; an   *)
(* error is a negative count, which indexes read_buf and ends the string     *)
(* range before its begin: undefined behaviour.                              *)
DispatchRead(k) ==
    /\ Dispatching(k, "read")
    /\ Current(k, "read")
    /\ batch' = batch \ {<<k, "read">>}
    /\ \/ /\ "part" \in ReadOutcomes
          /\ key' = DropRef(key, {k})
          /\ EndEvent(batch')
          /\ UNCHANGED <<clientTcp, tcpCandidates, live, keyOf, seen>>
       \/ /\ "msg" \in ReadOutcomes
          /\ key' = [key EXCEPT ![k].reading = FALSE]
          /\ cur' = k
          /\ pc' = "msg"
          /\ self' = key[k].user
          /\ UNCHANGED <<clientTcp, tcpCandidates, live, keyOf, seen>>
       \/ /\ ReadOutcomes \cap {"bad", "eof"} # {}
          /\ OnClose(key[k].user, [key EXCEPT ![k].reading = FALSE], k)
       \/ /\ "error" \in ReadOutcomes
          /\ pc' = "crashed"
          /\ cur' = k
          /\ UNCHANGED <<clientTcp, tcpCandidates, live, keyOf, key, self, seen>>
    /\ UNCHANGED alive

-----------------------------------------------------------------------------
(* The callbacks return.                                                     *)

(* ... 0 from the connect or the message callbacks: startRead on self.       *)
ReturnOk ==
    /\ pc \in {"conn", "msg"}
    /\ self \in live
    /\ key' = DropRef([key EXCEPT ![keyOf[self]].reading = TRUE], {cur})
    /\ EndEvent(batch)
    /\ UNCHANGED <<alive, clientTcp, tcpCandidates, live, keyOf, batch, seen>>

(* ... an error, from the same: onClose on self.                             *)
ReturnError ==
    /\ pc \in {"conn", "msg"}
    /\ self \in live
    /\ UNCHANGED batch
    /\ OnClose(self, key, cur)
    /\ UNCHANGED alive

(* ... after self has been deleted by a call made in the callback.           *)
ReturnToDeleted ==
    /\ pc \in {"conn", "msg"}
    /\ self \notin live
    /\ pc' = "crashed"
    /\ UNCHANGED <<alive, clientTcp, tcpCandidates, live, keyOf, key, batch,
                   cur, self, seen>>

(* ... from the close callbacks, whose result nobody uses.                   *)
ReturnClose ==
    /\ pc = "close"
    /\ key' = DropRef(key, {cur})
    /\ EndEvent(batch)
    /\ UNCHANGED <<alive, clientTcp, tcpCandidates, live, keyOf, batch, seen>>

-----------------------------------------------------------------------------
Dispatch ==
    \E k \in Keys :
        \/ \E ev \in {"write", "read", "except"} :
            DispatchStale(k, ev) \/ DispatchConnectFailed(k, ev)
        \/ DispatchConnected(k)
        \/ DispatchWritten(k)
        \/ DispatchRead(k)

Return == ReturnOk \/ ReturnError \/ ReturnToDeleted \/ ReturnClose

Next ==
    \/ \E new \in SUBSET Fresh : ConnectFastest(new)
    \/ Disconnect \/ DestroyClient \/ CreateClient \/ SendMsg
    \/ \E k \in Keys : FreeDelayOver(k)
    \/ \E events \in SUBSET Watched(key) : Poll(events)
    \/ PollIdle
    \/ Dispatch
    \/ Return

Spec == Init /\ [][Next]_vars

(* The application keeps polling and its callbacks return; a poll dispatches *)
(* its whole batch; a connect ends one way or the other and select, which is *)
(* level-triggered, then reports it to a thread that polls again and again.  *)
Resolve(k) ==
    /\ key[k].connecting
    /\ \E events \in SUBSET Watched(key) : <<k, "write">> \in events /\ Poll(events)

FairSpec ==
    /\ Spec
    /\ WF_vars(Dispatch)
    /\ WF_vars(Return)
    /\ \A k \in Keys : SF_vars(Resolve(k))

-----------------------------------------------------------------------------
(* Types of the client's members, the key table and the dispatch state; the  *)
(* key counters never go below zero.                                         *)
TypeOK ==
    /\ alive \in BOOLEAN
    /\ clientTcp \in Tcps \cup {NoTcp}
    /\ tcpCandidates \subseteq Tcps
    /\ live \subseteq Tcps
    /\ keyOf \in [Tcps -> Keys \cup {NoKey}]
    /\ key \in [Keys -> KeyRecord]
    /\ batch \subseteq Keys \X {"write", "read", "except"}
    /\ cur \in Keys \cup {NoKey}
    /\ pc \in {"app", "dispatch", "conn", "msg", "close", "crashed"}
    /\ self \in Tcps \cup {NoTcp}
    /\ seen \in Seq({"conn", "close"})

(* A key's counter is its registration plus the events of the poll that are  *)
(* still to be dispatched plus the one being dispatched.  Hence no key       *)
(* reaches the closing list, and its 500 ms, while this poll will touch it   *)
(* again, however many objects a callback deletes; and the assertions of     *)
(* decrement_counter and scan_closing_keys (closing is set) hold.            *)
KeyRefsExact ==
    \A k \in Keys :
        /\ key[k].ref = Bit(Registered(key, k)) + CountEvents(batch, k) + Bit(cur = k)
        /\ key[k].ref > 0 <=> key[k].where = "active"
        /\ key[k].where \in {"closing", "expired"} => key[k].closing

(* The client owns what is allocated: no PjTcp leaks, none is deleted twice, *)
(* candidates and an established connection never exist together, and a      *)
(* destroyed client leaves nothing behind.                                   *)
Ownership ==
    /\ live = Owned
    /\ tcpCandidates # {} => clientTcp = NoTcp
    /\ ~alive => live = {}

(* No event can be dispatched to a deleted object: a registered key and the  *)
(* object it calls back point at each other.                                 *)
KeysPointToLive ==
    /\ \A k \in Keys : Registered(key, k) =>
            key[k].user \in live /\ keyOf[key[k].user] = k
    /\ \A t \in live : keyOf[t] # NoKey => Registered(key, keyOf[t])

(* What onConnect checks with checktrue (tcpCandidates.size() && clientTcp   *)
(* == NULL): a connect still in progress is always a candidate's; and only   *)
(* the established connection reads or writes.                               *)
PhaseOK ==
    \A k \in Keys : Registered(key, k) =>
        /\ key[k].connecting => key[k].user \in tcpCandidates
        /\ key[k].reading \/ key[k].writing => key[k].user = clientTcp

(* One connectFastest leads to at most one connect callback and at most one  *)
(* close callback, in this order; a connection is established exactly when   *)
(* the last thing the application has heard is that it was; and after        *)
(* disconnect or the destructor it hears no more of the old connection.      *)
OneOutcome ==
    /\ seen \in {<<>>, <<"conn">>, <<"close">>, <<"conn", "close">>}
    /\ clientTcp # NoTcp <=> seen = <<"conn">>
    /\ tcpCandidates # {} => seen = <<>>

(* The library uses a deleted PjTcp or a negative length in two cases only:  *)
(* the application has called connectFastest or disconnect in a connect or   *)
(* message callback (which clears `seen'), or a read has failed.  It never   *)
(* deletes by itself what it goes on to use.                                 *)
NoUndefinedBehaviour ==
    pc = "crashed" => \/ Reentrant \cap {"conn", "msg"} # {} /\ seen = <<>>
                      \/ "error" \in ReadOutcomes /\ key[cur].reading

(* Every candidate whose connect is in progress is decided, whatever the     *)
(* other candidates and the application do meanwhile: it becomes the         *)
(* connection, or it is deleted.  A candidate without a key, or whose        *)
(* connect completed on the spot, has nothing in progress; the constructor   *)
(* only logs that, and such a candidate stays until another one decides.     *)
CandidatesResolve ==
    \A t \in Tcps :
        t \in tcpCandidates /\ keyOf[t] # NoKey /\ key[keyOf[t]].connecting
            ~> t \notin tcpCandidates \/ pc = "crashed"

(* What the comment on addCloseCallback says: the close callback is not      *)
(* called for a connection that was never established.                       *)
CloseOnlyIfConnected == seen # <<>> /\ seen[Len(seen)] = "close" => seen[1] = "conn"

(* The client's objects and the ioqueue's keys fit together: what is         *)
(* allocated is owned, keys and objects point at each other, and every key   *)
(* does what its object's part in the attempt allows.                        *)
ObjectsAndKeys == TypeOK /\ Ownership /\ KeysPointToLive /\ PhaseOK
=============================================================================
