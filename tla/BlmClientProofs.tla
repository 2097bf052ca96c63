--------------------------- MODULE BlmClientProofs --------------------------
(* Proofs about BlmClient for any number of keys, of PjTcp objects and of    *)
(* addresses, and for every choice of the callbacks the application calls    *)
(* the client from: the objects and the ioqueue's keys fit together, the     *)
(* reference counts of the keys are exact, an attempt has one outcome, and   *)
(* the library itself never uses what it has deleted.                        *)
EXTENDS BlmClient, SequenceTheorems, TLAPS

Events == {"write", "read", "except"}

(* The reference counts of table K while B is still to be dispatched and the *)
(* event of key c is being dispatched.                                       *)
RefsExact(K, B, c) ==
    \A k \in Keys :
        /\ K[k].ref = Bit(Registered(K, k)) + CountEvents(B, k) + Bit(c = k)
        /\ K[k].ref > 0 <=> K[k].where = "active"
        /\ K[k].where \in {"closing", "expired"} => K[k].closing

(* Objects and keys of table K are in one-to-one correspondence: KeysPointTo-*)
(* Live, with the key of an object pointing back at this object and no other,*)
(* and no key left in a deleted object.                                      *)
Linked(K, L, KO) ==
    /\ \A k \in Keys : Registered(K, k) => K[k].user \in L /\ KO[K[k].user] = k
    /\ \A t \in L : KO[t] # NoKey => Registered(K, KO[t]) /\ K[KO[t]].user = t
    /\ \A t \in Tcps \ L : KO[t] = NoKey

(* PhaseOK for table K, candidates C and connection c.                       *)
Phases(K, C, c) ==
    \A k \in Keys : Registered(K, k) =>
        /\ K[k].connecting => K[k].user \in C
        /\ K[k].reading \/ K[k].writing => K[k].user = c

(* The same keys are registered in K2 as in K, for the same objects and with *)
(* the same operations pending.                                              *)
SameRegistered(K, K2) ==
    \A k \in Keys :
        /\ Registered(K2, k) <=> Registered(K, k)
        /\ Registered(K, k) =>
              /\ K2[k].user = K[k].user
              /\ K2[k].connecting = K[k].connecting
              /\ K2[k].reading = K[k].reading
              /\ K2[k].writing = K[k].writing

(* What is registered in K2 is registered, and the same, in K, and belongs   *)
(* to an object of L; the keys of such objects stay registered.              *)
OnlyOf(K, K2, L) ==
    \A k \in Keys :
        /\ Registered(K2, k) => Registered(K, k) /\ K2[k] = K[k] /\ K2[k].user \in L
        /\ Registered(K, k) /\ K[k].user \in L => Registered(K2, k)

(* K2 differs from K at most in the operations pending on key k.             *)
OperationsAt(K, K2, k) ==
    /\ \A j \in Keys : /\ K2[j].ref = K[j].ref /\ K2[j].where = K[j].where
                        /\ K2[j].closing = K[j].closing /\ K2[j].user = K[j].user
    /\ \A j \in Keys \ {k} : K2[j] = K[j]

(* KeysOf and Delete for given PjTcp::key members KO.                        *)
KeysIn(KO, ts) == {KO[t] : t \in ts} \ {NoKey}

Forget(KO, ts) == [t \in Tcps |-> IF t \in ts THEN NoKey ELSE KO[t]]

(* Where the polling thread is decides what it holds: outside a callback     *)
(* neither an event nor an object; inside one the key of the event.  The     *)
(* object a connect or message callback returns to is the connection, unless *)
(* the application has deleted it in that very callback.                     *)
ThreadOK ==
    /\ pc = "app" => batch = {}
    /\ pc \in {"app", "dispatch"} => cur = NoKey /\ self = NoTcp
    /\ pc \notin {"app", "dispatch"} => cur # NoKey
    /\ pc \in {"conn", "msg"} =>
           \/ self \in live /\ self = clientTcp
           \/ self \notin live /\ pc \in Reentrant /\ seen = <<>>

(* An established connection has a key.                                      *)
ConnectionHasKey == clientTcp # NoTcp => keyOf[clientTcp] # NoKey

(* The inductive invariant.                                                  *)
IInv ==
    /\ TypeOK
    /\ Ownership
    /\ RefsExact(key, batch, cur)
    /\ Linked(key, live, keyOf)
    /\ Phases(key, tcpCandidates, clientTcp)
    /\ ConnectionHasKey
    /\ OneOutcome
    /\ ThreadOK
    /\ NoUndefinedBehaviour

-----------------------------------------------------------------------------
(* What the operators on the key table do to the three predicates.           *)

(* Lemma: DropRef in the middle of a dispatch drops the reference of the     *)
(* event's key and touches no other key; whether a key is registered, and    *)
(* what a registered one does, stays as it is.                               *)
LEMMA DropRefKeeps ==
    ASSUME NEW K \in [Keys -> KeyRecord], NEW B, NEW c \in Keys, RefsExact(K, B, c)
    PROVE  /\ DropRef(K, {c}) \in [Keys -> KeyRecord]
           /\ RefsExact(DropRef(K, {c}), B, NoKey)
           /\ SameRegistered(K, DropRef(K, {c}))
<1> DEFINE D == DropRef(K, {c})
<1>1. D \in [Keys -> KeyRecord]
  <2> SUFFICES ASSUME NEW k \in Keys
               PROVE  D[k] \in KeyRecord
    BY DEF DropRef
  <2>1. CASE k # c
    BY <2>1 DEF DropRef
  <2>2. CASE k = c /\ K[k].ref = 1
    BY <2>2, NoTcpAssumption DEF DropRef, FreshKey, KeyRecord, Places
  <2>3. CASE k = c /\ K[k].ref # 1
    <3>1. K[k].ref > 0 /\ K[k].ref \in Nat
      <4>1. K[c].ref = Bit(Registered(K, c)) + CountEvents(B, c) + Bit(c = c)
        BY DEF RefsExact
      <4>2. K[c].ref \in Nat
        BY DEF KeyRecord
      <4> QED
        BY <2>3, <4>1, <4>2 DEF Bit, CountEvents
    <3>2. D[k] = [K[k] EXCEPT !.ref = @ - 1]
      BY <2>3 DEF DropRef
    <3> QED
      BY <3>1, <3>2 DEF KeyRecord
  <2> QED
    BY <2>1, <2>2, <2>3
<1>2. \A k \in Keys \ {c} : D[k] = K[k]
  BY DEF DropRef
<1>3. CountEvents(B, c) \in Nat
  BY DEF CountEvents, Bit
<1>4. K[c].ref = Bit(Registered(K, c)) + CountEvents(B, c) + 1
  BY DEF RefsExact, Bit
<1>5. K[c].where = "active"
  BY <1>3, <1>4 DEF RefsExact, Bit
<1>6. NoKey \notin Keys
  BY NoKeyAssumption
<1>7. CASE K[c].ref = 1
  <2>1. ~Registered(K, c) /\ CountEvents(B, c) = 0
    BY <1>3, <1>4, <1>7 DEF Bit
  <2>2. K[c].closing
    BY <2>1, <1>5 DEF Registered
  <2>3. /\ D[c].where = "closing" /\ D[c].closing = K[c].closing /\ D[c].ref = 0
    BY <1>7 DEF DropRef, FreshKey
  <2>4. ~Registered(D, c)
    BY <2>3 DEF Registered
  <2>5. RefsExact(D, B, NoKey)
    <3> SUFFICES ASSUME NEW k \in Keys
                 PROVE  /\ D[k].ref = Bit(Registered(D, k)) + CountEvents(B, k) + Bit(NoKey = k)
                        /\ D[k].ref > 0 <=> D[k].where = "active"
                        /\ D[k].where \in {"closing", "expired"} => D[k].closing
      BY DEF RefsExact
    <3>1. CASE k = c
      <4>1. Bit(Registered(D, c)) = 0 /\ Bit(NoKey = c) = 0
        BY <2>4, <1>6 DEF Bit
      <4>2. D[c].closing
        BY <2>2, <2>3
      <4> QED
        BY <3>1, <4>1, <4>2, <2>1, <2>3
    <3>2. CASE k # c
      BY <3>2, <1>2, <1>6 DEF RefsExact, Bit, Registered
    <3> QED
      BY <3>1, <3>2
  <2> QED
    BY <1>1, <1>2, <2>1, <2>4, <2>5 DEF Registered, SameRegistered
<1>8. CASE K[c].ref # 1
  <2>1. D[c] = [K[c] EXCEPT !.ref = @ - 1]
    BY <1>8 DEF DropRef
  <2>2. /\ D[c].ref = K[c].ref - 1 /\ D[c].where = K[c].where /\ D[c].closing = K[c].closing
        /\ D[c].user = K[c].user /\ D[c].connecting = K[c].connecting
        /\ D[c].reading = K[c].reading /\ D[c].writing = K[c].writing
    BY <2>1 DEF KeyRecord
  <2>3. RefsExact(D, B, NoKey)
    <3> SUFFICES ASSUME NEW k \in Keys
                 PROVE  /\ D[k].ref = Bit(Registered(D, k)) + CountEvents(B, k) + Bit(NoKey = k)
                        /\ D[k].ref > 0 <=> D[k].where = "active"
                        /\ D[k].where \in {"closing", "expired"} => D[k].closing
      BY DEF RefsExact
    <3>1. CASE k = c
      BY <3>1, <2>2, <1>3, <1>4, <1>5, <1>6, <1>8 DEF Bit, Registered
    <3>2. CASE k # c
      BY <3>2, <1>2, <1>6 DEF RefsExact, Bit, Registered
    <3> QED
      BY <3>1, <3>2
  <2> QED
    BY <1>1, <1>2, <2>2, <2>3 DEF Registered, SameRegistered
<1> QED
  BY <1>7, <1>8

(* Lemma: an event of the batch becomes the one being dispatched.            *)
LEMMA EventTaken ==
    ASSUME NEW K, NEW B, NEW k \in Keys, NEW ev \in Events,
           <<k, ev>> \in B, RefsExact(K, B, NoKey)
    PROVE  RefsExact(K, B \ {<<k, ev>>}, k)
<1>1. NoKey \notin Keys
  BY NoKeyAssumption
<1> SUFFICES ASSUME NEW j \in Keys
             PROVE  Bit(Registered(K, j)) + CountEvents(B, j) + Bit(NoKey = j)
                  = Bit(Registered(K, j)) + CountEvents(B \ {<<k, ev>>}, j) + Bit(k = j)
  BY DEF RefsExact
<1>2. CASE j = k
  BY <1>1, <1>2 DEF Events, CountEvents, Bit
<1>3. CASE j # k
  BY <1>1, <1>3 DEF Events, CountEvents, Bit
<1> QED
  BY <1>2, <1>3

(* Lemma: pj_ioqueue_unregister of registered keys.                          *)
LEMMA UnregisterKeeps ==
    ASSUME NEW K \in [Keys -> KeyRecord], NEW B, NEW c, RefsExact(K, B, c),
           NEW ks \in SUBSET Keys, \A k \in ks : Registered(K, k)
    PROVE  /\ Unregister(K, ks) \in [Keys -> KeyRecord]
           /\ RefsExact(Unregister(K, ks), B, c)
           /\ \A k \in Keys : Registered(Unregister(K, ks), k) <=> Registered(K, k) /\ k \notin ks
           /\ \A k \in Keys \ ks : Unregister(K, ks)[k] = K[k]
<1> DEFINE U == Unregister(K, ks)
           M == [k \in Keys |-> IF k \in ks THEN [K[k] EXCEPT !.closing = TRUE] ELSE K[k]]
<1>1. U = DropRef(M, ks)
  BY DEF Unregister
<1>2. \A k \in Keys \ ks : U[k] = K[k]
  BY <1>1 DEF DropRef
<1>3. ASSUME NEW k \in ks
      PROVE  /\ U[k] \in KeyRecord
             /\ U[k].closing
             /\ U[k].ref = CountEvents(B, k) + Bit(c = k)
             /\ U[k].ref > 0 <=> U[k].where = "active"
  <2>1. /\ M[k] = [K[k] EXCEPT !.closing = TRUE] /\ K[k] \in KeyRecord
        /\ M[k].ref = K[k].ref /\ M[k].where = K[k].where /\ M[k].closing = TRUE
        /\ M[k] \in KeyRecord
    BY DEF KeyRecord
  <2>2. K[k].ref = 1 + CountEvents(B, k) + Bit(c = k) /\ K[k].where = "active"
    <3>1. Registered(K, k)
      OBVIOUS
    <3> QED
      BY <3>1 DEF RefsExact, Registered, Bit
  <2>3. CountEvents(B, k) + Bit(c = k) \in Nat
    BY DEF CountEvents, Bit
  <2>4. CASE K[k].ref = 1
    <3>1. U[k] = [FreshKey EXCEPT !.where = "closing", !.closing = TRUE]
      <4>1. M[k].ref = 1 /\ M[k].closing = TRUE
        BY <2>1, <2>4
      <4>2. U[k] = IF M[k].ref = 1
                   THEN [FreshKey EXCEPT !.where = "closing", !.closing = M[k].closing]
                   ELSE [M[k] EXCEPT !.ref = @ - 1]
        BY <1>1 DEF DropRef
      <4> QED
        BY <4>1, <4>2
    <3>2. U[k].where = "closing" /\ U[k].closing = TRUE /\ U[k].ref = 0
      BY <3>1 DEF FreshKey
    <3>4. U[k] \in KeyRecord
      <4>1. FreshKey \in KeyRecord
        BY DEF FreshKey, KeyRecord, Places
      <4>2. "closing" \in Places /\ TRUE \in BOOLEAN
        BY DEF Places
      <4> QED
        BY <3>1, <4>1, <4>2 DEF KeyRecord
    <3>3. CountEvents(B, k) + Bit(c = k) = 0
      BY <2>2, <2>3, <2>4 DEF CountEvents, Bit
    <3> QED
      BY <3>2, <3>3, <3>4
  <2>5. CASE K[k].ref # 1
    <3>1. U[k] = [M[k] EXCEPT !.ref = @ - 1]
      BY <1>1, <2>1, <2>5 DEF DropRef
    <3>2. K[k].ref > 1
      BY <2>2, <2>3, <2>5 DEF CountEvents, Bit
    <3>3. U[k].where = "active" /\ U[k].closing = TRUE /\ U[k].ref = K[k].ref - 1
      BY <3>1, <3>2, <2>1, <2>2 DEF KeyRecord
    <3>4. U[k] \in KeyRecord
      <4>1. M[k] \in KeyRecord /\ M[k].ref - 1 \in Nat
        BY <2>1, <3>2 DEF KeyRecord
      <4> HIDE DEF M, U
      <4> QED
        BY <3>1, <4>1 DEF KeyRecord
    <3> QED
      BY <3>2, <3>3, <3>4, <2>2, <2>3 DEF CountEvents, Bit
  <2> QED
    BY <2>4, <2>5
<1>4. U \in [Keys -> KeyRecord]
  <2>1. \A k \in Keys : U[k] \in KeyRecord
    BY <1>2, <1>3
  <2> QED
    BY <2>1, <1>1 DEF DropRef
<1>5. \A k \in Keys : Registered(U, k) <=> Registered(K, k) /\ k \notin ks
  BY <1>2, <1>3 DEF Registered
<1>6. RefsExact(U, B, c)
  <2> SUFFICES ASSUME NEW k \in Keys
               PROVE  /\ U[k].ref = Bit(Registered(U, k)) + CountEvents(B, k) + Bit(c = k)
                      /\ U[k].ref > 0 <=> U[k].where = "active"
                      /\ U[k].where \in {"closing", "expired"} => U[k].closing
    BY DEF RefsExact
  <2>1. CASE k \in ks
    <3>1. Bit(Registered(U, k)) = 0
      BY <1>5, <2>1 DEF Bit
    <3>2. CountEvents(B, k) + Bit(c = k) \in Nat
      BY DEF CountEvents, Bit
    <3> QED
      BY <1>3, <2>1, <3>1, <3>2 DEF CountEvents, Bit
  <2>2. CASE k \notin ks
    BY <1>2, <2>2 DEF RefsExact, Registered
  <2> QED
    BY <2>1, <2>2
<1> QED
  BY <1>2, <1>4, <1>5, <1>6

(* Lemma: a table that differs only in the pending operations has the same   *)
(* registered keys and reference counts, and fits the same objects.          *)
LEMMA OperationsOnly ==
    ASSUME NEW K \in [Keys -> KeyRecord], NEW K2 \in [Keys -> KeyRecord], NEW B, NEW c,
           NEW L \in SUBSET Tcps, NEW KO \in [Tcps -> Keys \cup {NoKey}],
           NEW at, OperationsAt(K, K2, at),
           RefsExact(K, B, c), Linked(K, L, KO)
    PROVE  /\ RefsExact(K2, B, c)
           /\ Linked(K2, L, KO)
           /\ \A k \in Keys : Registered(K2, k) <=> Registered(K, k)
<1>1. \A k \in Keys : Registered(K2, k) <=> Registered(K, k)
  BY DEF Registered, OperationsAt
<1>2. RefsExact(K2, B, c)
  BY <1>1 DEF RefsExact, Bit, OperationsAt
<1>3. Linked(K2, L, KO)
  BY <1>1 DEF Linked, OperationsAt
<1> QED
  BY <1>1, <1>2, <1>3

(* Lemma: setting one pending operation of one key.                          *)
LEMMA OneOperation ==
    ASSUME NEW K \in [Keys -> KeyRecord], NEW k \in Keys, NEW b \in BOOLEAN,
           NEW K2, \/ K2 = [K EXCEPT ![k].connecting = b]
                   \/ K2 = [K EXCEPT ![k].reading = b]
                   \/ K2 = [K EXCEPT ![k].writing = b]
    PROVE  /\ K2 \in [Keys -> KeyRecord]
           /\ OperationsAt(K, K2, k)
<1>1. CASE K2 = [K EXCEPT ![k].connecting = b]
  BY <1>1 DEF KeyRecord, OperationsAt
<1>2. CASE K2 = [K EXCEPT ![k].reading = b]
  BY <1>2 DEF KeyRecord, OperationsAt
<1>3. CASE K2 = [K EXCEPT ![k].writing = b]
  BY <1>3 DEF KeyRecord, OperationsAt
<1> QED
  BY <1>1, <1>2, <1>3

(* Lemma: tables with the same registered keys fit the same objects.         *)
LEMMA SameFits ==
    ASSUME NEW K, NEW K2, NEW L \in SUBSET Tcps, NEW KO \in [Tcps -> Keys \cup {NoKey}],
           NEW C, NEW c, SameRegistered(K, K2)
    PROVE  /\ Linked(K, L, KO) => Linked(K2, L, KO)
           /\ Phases(K, C, c) => Phases(K2, C, c)
BY DEF SameRegistered, Linked, Phases

(* Lemma: ~PjTcp for the objects of gone.  Every key of theirs is still      *)
(* registered, so each is unregistered exactly once; what stays registered   *)
(* belongs to the others and is left as it was.                              *)
LEMMA ObjectsDeleted ==
    ASSUME NEW K \in [Keys -> KeyRecord], NEW B, NEW c, NEW L \in SUBSET Tcps,
           NEW KO \in [Tcps -> Keys \cup {NoKey}], NEW gone \in SUBSET L,
           RefsExact(K, B, c), Linked(K, L, KO)
    PROVE  /\ Unregister(K, KeysIn(KO, gone)) \in [Keys -> KeyRecord]
           /\ Forget(KO, gone) \in [Tcps -> Keys \cup {NoKey}]
           /\ RefsExact(Unregister(K, KeysIn(KO, gone)), B, c)
           /\ Linked(Unregister(K, KeysIn(KO, gone)), L \ gone, Forget(KO, gone))
           /\ OnlyOf(K, Unregister(K, KeysIn(KO, gone)), L \ gone)
<1> DEFINE ks == {KO[t] : t \in gone} \ {NoKey}
           U == Unregister(K, ks)
           KO2 == [t \in Tcps |-> IF t \in gone THEN NoKey ELSE KO[t]]
<1>1. ks \in SUBSET Keys
  OBVIOUS
<1>2. \A k \in ks : Registered(K, k)
  BY DEF Linked
<1>3. /\ U \in [Keys -> KeyRecord]
      /\ RefsExact(U, B, c)
      /\ \A k \in Keys : Registered(U, k) <=> Registered(K, k) /\ k \notin ks
      /\ \A k \in Keys \ ks : U[k] = K[k]
  BY <1>1, <1>2, UnregisterKeeps
<1>4. KO2 \in [Tcps -> Keys \cup {NoKey}]
  OBVIOUS
<1>5. \A k \in Keys : Registered(K, k) => (K[k].user \in gone <=> k \in ks)
  <2> SUFFICES ASSUME NEW k \in Keys, Registered(K, k)
               PROVE  K[k].user \in gone <=> k \in ks
    OBVIOUS
  <2>1. K[k].user \in L /\ KO[K[k].user] = k /\ k # NoKey
    BY NoKeyAssumption DEF Linked
  <2>2. ASSUME k \in ks
        PROVE  K[k].user \in gone
    <3>1. PICK t \in gone : KO[t] = k
      BY <2>2
    <3>2. K[k].user = t
      BY <3>1, <2>1 DEF Linked
    <3> QED
      BY <3>2
  <2> QED
    BY <2>1, <2>2
<1>6. OnlyOf(K, U, L \ gone)
  BY <1>3, <1>5 DEF Linked, OnlyOf
<1>7. Linked(U, L \ gone, KO2)
  <2>1. \A k \in Keys : Registered(U, k) => U[k].user \in L \ gone /\ KO2[U[k].user] = k
    BY <1>6 DEF Linked, OnlyOf
  <2>2. ASSUME NEW t \in L \ gone, KO2[t] # NoKey
        PROVE  Registered(U, KO2[t]) /\ U[KO2[t]].user = t
    <3>1. KO2[t] = KO[t] /\ KO[t] \in Keys
      BY <2>2
    <3>2. Registered(K, KO[t]) /\ K[KO[t]].user = t
      BY <2>2, <3>1 DEF Linked
    <3> QED
      BY <3>1, <3>2, <1>6 DEF OnlyOf
  <2>3. \A t \in Tcps \ (L \ gone) : KO2[t] = NoKey
    BY DEF Linked
  <2> QED
    BY <2>1, <2>2, <2>3 DEF Linked
<1>8. ks = KeysIn(KO, gone) /\ KO2 = Forget(KO, gone)
  BY DEF KeysIn, Forget
<1> HIDE DEF ks, KO2
<1> QED
  BY <1>3, <1>4, <1>6, <1>7, <1>8

(* Lemma: the same in the terms of an action, for the objects of gone: the   *)
(* keys left fit the objects left.                                           *)
LEMMA DeleteStep ==
    ASSUME live \in SUBSET Tcps, keyOf \in [Tcps -> Keys \cup {NoKey}],
           NEW K \in [Keys -> KeyRecord], NEW B, NEW c, NEW gone \in SUBSET live,
           RefsExact(K, B, c), Linked(K, live, keyOf), Delete(gone)
    PROVE  /\ Unregister(K, KeysOf(gone)) \in [Keys -> KeyRecord]
           /\ keyOf' \in [Tcps -> Keys \cup {NoKey}]
           /\ live' = live \ gone /\ live' \in SUBSET Tcps
           /\ RefsExact(Unregister(K, KeysOf(gone)), B, c)
           /\ Linked(Unregister(K, KeysOf(gone)), live', keyOf')
           /\ OnlyOf(K, Unregister(K, KeysOf(gone)), live')
<1>1. KeysOf(gone) = KeysIn(keyOf, gone)
  BY DEF KeysOf, KeysIn
<1>2. live' = live \ gone /\ keyOf' = Forget(keyOf, gone)
  BY DEF Delete, Forget
<1>3. /\ Unregister(K, KeysIn(keyOf, gone)) \in [Keys -> KeyRecord]
      /\ Forget(keyOf, gone) \in [Tcps -> Keys \cup {NoKey}]
      /\ RefsExact(Unregister(K, KeysIn(keyOf, gone)), B, c)
      /\ Linked(Unregister(K, KeysIn(keyOf, gone)), live \ gone, Forget(keyOf, gone))
      /\ OnlyOf(K, Unregister(K, KeysIn(keyOf, gone)), live \ gone)
  BY ObjectsDeleted
<1>4. live \ gone \in SUBSET Tcps
  OBVIOUS
<1> QED
  BY <1>1, <1>2, <1>3, <1>4, Zenon

-----------------------------------------------------------------------------
(* Lemma: the callbacks heard after a close that follows a connect.          *)
LEMMA CloseAfterConnect == Append(<<"conn">>, "close") = <<"conn", "close">>
<1> DEFINE s == Append(<<"conn">>, "close")
           t == <<"conn", "close">>
<1>1. s \in Seq({"conn", "close"}) /\ t \in Seq({"conn", "close"}) /\ Len(s) = 2 /\ Len(t) = 2
  OBVIOUS
<1>2. s[1] = t[1] /\ s[2] = t[2]
  OBVIOUS
<1> HIDE DEF s, t
<1>3. \A i \in 1..Len(s) : s[i] = t[i]
  BY <1>1, <1>2
<1>4. s = t
  BY <1>1, <1>3, SeqEqual
<1> QED
  BY <1>4 DEF s, t

(* Lemma: onClose, called for a live object p while the event of key k is    *)
(* dispatched, preserves the invariant.                                      *)
LEMMA OnCloseStep ==
    ASSUME TypeOK, Ownership, ConnectionHasKey, OneOutcome,
           NEW K \in [Keys -> KeyRecord], NEW k \in Keys, NEW p \in live,
           batch' \subseteq Keys \X Events, alive' = alive,
           RefsExact(K, batch', k), Linked(K, live, keyOf),
           Phases(K, tcpCandidates, clientTcp),
           OnClose(p, K, k)
    PROVE  IInv'
<1> DEFINE rest == tcpCandidates \ {p}
<1>0. /\ live \in SUBSET Tcps /\ keyOf \in [Tcps -> Keys \cup {NoKey}]
      /\ NoKey \notin Keys /\ NoTcp \notin Tcps /\ k # NoKey /\ p \in Tcps /\ p # NoTcp
  BY NoKeyAssumption, NoTcpAssumption DEF TypeOK
<1>1. CASE rest # {}
  <2> DEFINE gone == {p} \cap tcpCandidates
             U == Unregister(K, KeysOf(gone))
  <2>1. clientTcp = NoTcp /\ live = tcpCandidates /\ gone = {p} /\ p \in tcpCandidates
    BY <1>1 DEF Ownership, Owned
  <2>2. /\ key' = DropRef(U, {k})
        /\ Delete(gone)
        /\ tcpCandidates' = rest
        /\ EndEvent(batch')
        /\ clientTcp' = clientTcp /\ seen' = seen
    BY <1>1 DEF OnClose
  <2>3. /\ U \in [Keys -> KeyRecord]
        /\ keyOf' \in [Tcps -> Keys \cup {NoKey}]
        /\ live' = rest /\ live' \in SUBSET Tcps
        /\ RefsExact(U, batch', k)
        /\ Linked(U, live', keyOf')
        /\ OnlyOf(K, U, live')
    <3>1. gone \in SUBSET live /\ live \ gone = rest
      BY <2>1
    <3> HIDE DEF gone
    <3> QED
      BY <3>1, <2>2, <1>0, DeleteStep
  <2> HIDE DEF U, gone
  <2>4. /\ key' \in [Keys -> KeyRecord]
        /\ RefsExact(key', batch', NoKey)
        /\ SameRegistered(U, key')
    BY <2>2, <2>3, DropRefKeeps
  <2>5. cur' = NoKey /\ self' = NoTcp /\ pc' = IF batch' = {} THEN "app" ELSE "dispatch"
    BY <2>2 DEF EndEvent
  <2>6. TypeOK'
    BY <2>1, <2>2, <2>3, <2>4, <2>5, <1>0 DEF TypeOK, Events
  <2>7. Ownership'
    BY <2>1, <2>2, <2>3 DEF Ownership, Owned
  <2>8. Phases(U, rest, NoTcp)
    BY <2>1, <2>3 DEF Phases, OnlyOf
  <2>9. Linked(key', live', keyOf') /\ Phases(key', tcpCandidates', clientTcp')
    BY <2>1, <2>2, <2>3, <2>4, <2>8, SameFits
  <2>10. ConnectionHasKey' /\ OneOutcome'
    BY <2>1, <2>2 DEF ConnectionHasKey, OneOutcome
  <2>11. ThreadOK' /\ NoUndefinedBehaviour'
    BY <2>5 DEF ThreadOK, NoUndefinedBehaviour
  <2> QED
    BY <2>4, <2>5, <2>6, <2>7, <2>8, <2>9, <2>10, <2>11 DEF IInv
<1>2. CASE rest = {}
  <2>1. /\ key' = Unregister(K, KeysOf(Owned))
        /\ Delete(Owned)
        /\ clientTcp' = NoTcp /\ tcpCandidates' = {}
        /\ cur' = k /\ pc' = "close" /\ self' = NoTcp
        /\ seen' = Append(seen, "close")
    BY <1>2 DEF OnClose
  <2>2. Owned = live
    BY DEF Ownership
  <2>3. /\ key' \in [Keys -> KeyRecord]
        /\ keyOf' \in [Tcps -> Keys \cup {NoKey}]
        /\ live' = {}
        /\ RefsExact(key', batch', k)
        /\ Linked(key', live', keyOf')
        /\ OnlyOf(K, key', live')
    BY <2>1, <2>2, <1>0, DeleteStep, ZenonT(40)
  <2>4. seen \in {<<>>, <<"conn">>}
    BY <1>0 DEF OneOutcome, Ownership, Owned
  <2>5. seen' \in {<<"close">>, <<"conn", "close">>} /\ seen' \in Seq({"conn", "close"})
    <3>1. CASE seen = <<>>
      BY <2>1, <3>1
    <3>2. CASE seen = <<"conn">>
      <4>1. seen' = <<"conn", "close">>
        BY <2>1, <3>2, CloseAfterConnect
      <4> QED
        BY <4>1
    <3> QED
      BY <2>4, <3>1, <3>2
  <2>6. TypeOK'
    BY <2>1, <2>2, <2>3, <2>5 DEF TypeOK, Events
  <2>7. Ownership'
    BY <2>1, <2>3 DEF Ownership, Owned
  <2>8. Phases(key', tcpCandidates', clientTcp')
    BY <2>3 DEF Phases, OnlyOf
  <2>9. ConnectionHasKey' /\ OneOutcome'
    BY <2>1, <2>5 DEF ConnectionHasKey, OneOutcome
  <2>10. ThreadOK' /\ NoUndefinedBehaviour'
    BY <2>1, <1>0 DEF ThreadOK, NoUndefinedBehaviour
  <2> QED
    BY <2>1, <2>3, <2>6, <2>7, <2>8, <2>9, <2>10 DEF IInv
<1> QED
  BY <1>1, <1>2

(* Lemma: onConnect, called for a candidate p while the event of its key k   *)
(* is dispatched, preserves the invariant.                                   *)
LEMMA OnConnectStep ==
    ASSUME TypeOK, Ownership, OneOutcome,
           NEW K \in [Keys -> KeyRecord], NEW k \in Keys, NEW p \in tcpCandidates,
           batch' \subseteq Keys \X Events, alive' = alive,
           RefsExact(K, batch', k), Linked(K, live, keyOf),
           Registered(K, k), K[k].user = p, K[k].connecting = FALSE,
           OnConnect(p, K, k)
    PROVE  IInv'
<1> DEFINE losers == tcpCandidates \ {p}
<1>0. /\ live \in SUBSET Tcps /\ keyOf \in [Tcps -> Keys \cup {NoKey}]
      /\ NoKey \notin Keys /\ NoTcp \notin Tcps /\ k # NoKey /\ p \in Tcps /\ p # NoTcp
  BY NoKeyAssumption, NoTcpAssumption DEF TypeOK
<1>1. clientTcp = NoTcp /\ live = tcpCandidates /\ seen = <<>> /\ alive
  BY DEF Ownership, Owned, OneOutcome
<1>2. /\ key' = Unregister(K, KeysOf(losers))
      /\ Delete(losers)
      /\ clientTcp' = p /\ tcpCandidates' = {}
      /\ cur' = k /\ pc' = "conn" /\ self' = p
      /\ seen' = Append(seen, "conn")
  BY DEF OnConnect
<1>3. live \ losers = {p} /\ losers \in SUBSET live
  BY <1>1
<1>4. /\ key' \in [Keys -> KeyRecord]
      /\ keyOf' \in [Tcps -> Keys \cup {NoKey}]
      /\ live' = {p}
      /\ RefsExact(key', batch', k)
      /\ Linked(key', live', keyOf')
      /\ OnlyOf(K, key', live')
  <2> HIDE DEF losers
  <2> QED
    BY <1>0, <1>2, <1>3, DeleteStep
<1>5. keyOf[p] = k
  BY DEF Linked
<1>6. \A j \in Keys : Registered(key', j) => j = k
  <2>1. keyOf'[p] = k
    BY <1>0, <1>2, <1>5 DEF Delete
  <2> QED
    BY <1>4, <2>1 DEF Linked
<1>7. seen' = <<"conn">> /\ seen' \in Seq({"conn", "close"})
  BY <1>1, <1>2
<1>8. TypeOK'
  BY <1>0, <1>2, <1>3, <1>4, <1>7 DEF TypeOK, Events
<1>9. Ownership'
  BY <1>0, <1>1, <1>2, <1>4 DEF Ownership, Owned
<1>10. Phases(key', tcpCandidates', clientTcp')
  BY <1>2, <1>4, <1>6 DEF Phases, OnlyOf
<1>11. ConnectionHasKey' /\ OneOutcome'
  BY <1>0, <1>2, <1>5, <1>7 DEF ConnectionHasKey, OneOutcome, Delete
<1>12. ThreadOK' /\ NoUndefinedBehaviour'
  BY <1>0, <1>2, <1>4 DEF ThreadOK, NoUndefinedBehaviour
<1> QED
  BY <1>2, <1>4, <1>8, <1>9, <1>10, <1>11, <1>12 DEF IInv

(* Lemma: scan_closing_keys brings back keys nobody refers to.               *)
LEMMA ScanKeeps ==
    ASSUME NEW K \in [Keys -> KeyRecord], NEW B, NEW c, RefsExact(K, B, c)
    PROVE  /\ ScanClosing(K) \in [Keys -> KeyRecord]
           /\ RefsExact(ScanClosing(K), B, c)
           /\ SameRegistered(K, ScanClosing(K))
<1> DEFINE N == ScanClosing(K)
<1>1. ASSUME NEW k \in Keys
      PROVE  /\ N[k] \in KeyRecord
             /\ N[k].ref = K[k].ref /\ N[k].closing = K[k].closing /\ N[k].user = K[k].user
             /\ N[k].connecting = K[k].connecting
             /\ N[k].reading = K[k].reading /\ N[k].writing = K[k].writing
             /\ N[k].where = IF K[k].where = "expired" THEN "free" ELSE K[k].where
  <2>1. CASE K[k].where = "expired"
    <3>1. N[k] = [K[k] EXCEPT !.where = "free"]
      BY <2>1 DEF ScanClosing
    <3> QED
      BY <2>1, <3>1 DEF KeyRecord, Places
  <2>2. CASE K[k].where # "expired"
    BY <2>2 DEF ScanClosing
  <2> QED
    BY <2>1, <2>2
<1>2. N \in [Keys -> KeyRecord]
  <2>1. \A k \in Keys : N[k] \in KeyRecord
    BY <1>1
  <2> QED
    BY <2>1 DEF ScanClosing
<1> HIDE DEF N
<1>3. \A k \in Keys : Registered(N, k) <=> Registered(K, k)
  BY <1>1 DEF Registered
<1>4. SameRegistered(K, N)
  BY <1>1, <1>3 DEF SameRegistered
<1>5. RefsExact(N, B, c)
  <2> SUFFICES ASSUME NEW k \in Keys
               PROVE  /\ N[k].ref = Bit(Registered(N, k)) + CountEvents(B, k) + Bit(c = k)
                      /\ N[k].ref > 0 <=> N[k].where = "active"
                      /\ N[k].where \in {"closing", "expired"} => N[k].closing
    BY DEF RefsExact
  <2>1. N[k].ref = Bit(Registered(N, k)) + CountEvents(B, k) + Bit(c = k)
    BY <1>1, <1>3 DEF RefsExact, Bit
  <2>2. N[k].ref > 0 <=> N[k].where = "active"
    BY <1>1 DEF RefsExact
  <2>3. N[k].where \in {"closing", "expired"} => N[k].closing
    BY <1>1 DEF RefsExact
  <2> QED
    BY <2>1, <2>2, <2>3
<1> QED
  BY <1>2, <1>4, <1>5 DEF N

(* Lemma: registering objects in a table without a registered key.  A key    *)
(* handed out has no reference left, so no event of the poll that is still   *)
(* going on can be taken for the new object's.                               *)
LEMMA RegisterKeeps ==
    ASSUME NEW K \in [Keys -> KeyRecord], NEW B, NEW c, RefsExact(K, B, c),
           \A k \in Keys : ~Registered(K, k),
           NEW new \in SUBSET Tcps, NEW regs \in SUBSET new,
           NEW assign \in [regs -> FreeKeys(K)], NEW outcome,
           \A t, u \in regs : assign[t] = assign[u] => t = u,
           NEW KO \in [Tcps -> Keys \cup {NoKey}],
           \A t \in Tcps : KO[t] = IF t \in regs THEN assign[t] ELSE NoKey
    PROVE  /\ RegisterAll(K, assign, outcome) \in [Keys -> KeyRecord]
           /\ RefsExact(RegisterAll(K, assign, outcome), B, c)
           /\ Linked(RegisterAll(K, assign, outcome), new, KO)
           /\ Phases(RegisterAll(K, assign, outcome), new, NoTcp)
<1> DEFINE N == RegisterAll(K, assign, outcome)
<1>1. DOMAIN assign = regs
  OBVIOUS
<1>2. \A t \in regs : assign[t] \in Keys /\ K[assign[t]].where = "free"
  BY DEF FreeKeys
<1>3. \A k \in Keys : (\A t \in regs : assign[t] # k) => N[k] = K[k]
  BY <1>1 DEF RegisterAll
<1>4. ASSUME NEW t \in regs
      PROVE  \E b \in BOOLEAN :
                 N[assign[t]] = [where |-> "active", closing |-> FALSE, ref |-> 1, user |-> t,
                                 connecting |-> b, reading |-> FALSE, writing |-> FALSE]
  <2> DEFINE u == CHOOSE v \in DOMAIN assign : assign[v] = assign[t]
             b == (outcome[u] = "pending")
  <2>1. u \in regs /\ assign[u] = assign[t]
    BY <1>1
  <2>2. u = t
    BY <2>1
  <2>3. N[assign[t]] = [FreshKey EXCEPT !.where = "active", !.ref = 1, !.user = u, !.connecting = b]
    BY <1>1, <1>2 DEF RegisterAll
  <2>4. b \in BOOLEAN
    OBVIOUS
  <2> HIDE DEF u, b
  <2>5. N[assign[t]] = [where |-> "active", closing |-> FALSE, ref |-> 1, user |-> t,
                        connecting |-> b, reading |-> FALSE, writing |-> FALSE]
    BY <2>2, <2>3 DEF FreshKey
  <2> QED
    BY <2>4, <2>5
<1>5. \A t \in regs :
        /\ N[assign[t]] \in KeyRecord
        /\ N[assign[t]].where = "active" /\ N[assign[t]].closing = FALSE
        /\ N[assign[t]].ref = 1 /\ N[assign[t]].user = t
        /\ N[assign[t]].reading = FALSE /\ N[assign[t]].writing = FALSE
  <2> TAKE t \in regs
  <2>1. PICK b \in BOOLEAN :
             N[assign[t]] = [where |-> "active", closing |-> FALSE, ref |-> 1, user |-> t,
                             connecting |-> b, reading |-> FALSE, writing |-> FALSE]
    BY <1>4
  <2>2. t \in Tcps
    OBVIOUS
  <2> HIDE DEF N
  <2> QED
    BY <2>1, <2>2 DEF KeyRecord, Places
<1>6. N \in [Keys -> KeyRecord]
  <2>1. \A k \in Keys : N[k] \in KeyRecord
    BY <1>3, <1>5
  <2> QED
    BY <2>1 DEF RegisterAll
<1> HIDE DEF N
<1>7. \A k \in Keys : Registered(N, k) <=> \E t \in regs : assign[t] = k
  <2>1. \A t \in regs : Registered(N, assign[t])
    BY <1>5 DEF Registered
  <2>2. \A k \in Keys : (\A t \in regs : assign[t] # k) => ~Registered(N, k)
    BY <1>3 DEF Registered
  <2> QED
    BY <2>1, <2>2
<1>8. RefsExact(N, B, c)
  <2> SUFFICES ASSUME NEW k \in Keys
               PROVE  /\ N[k].ref = Bit(Registered(N, k)) + CountEvents(B, k) + Bit(c = k)
                      /\ N[k].ref > 0 <=> N[k].where = "active"
                      /\ N[k].where \in {"closing", "expired"} => N[k].closing
    BY DEF RefsExact
  <2>0. CountEvents(B, k) \in Nat /\ Bit(c = k) \in Nat
    BY DEF CountEvents, Bit
  <2>1. CASE \E t \in regs : assign[t] = k
    <3>1. PICK t \in regs : assign[t] = k
      BY <2>1
    <3>2. K[k].where = "free" /\ K[k].ref \in Nat
      BY <1>2, <3>1 DEF KeyRecord
    <3>3. K[k].ref = 0 + CountEvents(B, k) + Bit(c = k) /\ ~(K[k].ref > 0)
      BY <3>2 DEF RefsExact, Bit
    <3>4. CountEvents(B, k) = 0 /\ Bit(c = k) = 0
      BY <2>0, <3>2, <3>3
    <3>5. Bit(Registered(N, k)) = 1
      BY <1>7, <2>1 DEF Bit
    <3> QED
      BY <1>5, <3>1, <3>4, <3>5
  <2>2. CASE \A t \in regs : assign[t] # k
    <3>1. N[k] = K[k] /\ ~Registered(N, k) /\ ~Registered(K, k)
      BY <1>3, <1>7, <2>2
    <3> QED
      BY <3>1 DEF RefsExact, Bit
  <2> QED
    BY <2>1, <2>2
<1>9. Linked(N, new, KO)
  <2>1. \A k \in Keys : Registered(N, k) => N[k].user \in new /\ KO[N[k].user] = k
    BY <1>5, <1>7
  <2>2. \A t \in new : KO[t] # NoKey => Registered(N, KO[t]) /\ N[KO[t]].user = t
    BY <1>2, <1>5, <1>7
  <2>3. \A t \in Tcps \ new : KO[t] = NoKey
    OBVIOUS
  <2> QED
    BY <2>1, <2>2, <2>3 DEF Linked
<1>10. Phases(N, new, NoTcp)
  <2>1. ASSUME NEW k \in Keys, Registered(N, k)
        PROVE  N[k].user \in new /\ N[k].reading = FALSE /\ N[k].writing = FALSE
    BY <1>5, <1>7, <2>1
  <2> QED
    BY <2>1 DEF Phases
<1> QED
  BY <1>6, <1>8, <1>9, <1>10 DEF N

(* Lemma: constructing the candidates.                                       *)
LEMMA ConstructStep ==
    ASSUME NEW K \in [Keys -> KeyRecord], RefsExact(K, batch, cur),
           \A k \in Keys : ~Registered(K, k),
           NEW new \in SUBSET Tcps,
           keyOf \in [Tcps -> Keys \cup {NoKey}],
           \A t \in Tcps \ Owned : keyOf[t] = NoKey,
           ConstructTcps(K, new)
    PROVE  /\ key' \in [Keys -> KeyRecord]
           /\ keyOf' \in [Tcps -> Keys \cup {NoKey}]
           /\ RefsExact(key', batch, cur)
           /\ Linked(key', new, keyOf')
           /\ Phases(key', new, NoTcp)
<1>0. PICK regs \in SUBSET new :
          \E assign \in [regs -> FreeKeys(K)], outcome \in [regs -> ConnectOutcomes] :
            /\ \A t, u \in regs : assign[t] = assign[u] => t = u
            /\ key' = RegisterAll(K, assign, outcome)
            /\ keyOf' = [t \in Tcps |-> IF t \in regs THEN assign[t]
                                        ELSE IF t \in new \cup Owned THEN NoKey
                                        ELSE keyOf[t]]
  BY DEF ConstructTcps
<1>1. PICK assign \in [regs -> FreeKeys(K)], outcome \in [regs -> ConnectOutcomes] :
          /\ \A t, u \in regs : assign[t] = assign[u] => t = u
          /\ key' = RegisterAll(K, assign, outcome)
          /\ keyOf' = [t \in Tcps |-> IF t \in regs THEN assign[t]
                                      ELSE IF t \in new \cup Owned THEN NoKey
                                      ELSE keyOf[t]]
  BY <1>0
<1>2. /\ keyOf' \in [Tcps -> Keys \cup {NoKey}]
      /\ \A t \in Tcps : keyOf'[t] = IF t \in regs THEN assign[t] ELSE NoKey
  BY <1>1 DEF FreeKeys
<1> QED
  BY <1>1, <1>2, RegisterKeeps, SMTT(30)

-----------------------------------------------------------------------------
(* The application's calls.                                                  *)

(* Lemma: connectFastest preserves the invariant, also when the application  *)
(* calls it in a callback, in the middle of a batch of events.               *)
LEMMA ConnectFastestStep ==
    ASSUME IInv, NEW new \in SUBSET Fresh, ConnectFastest(new)
    PROVE  IInv'
<1> DEFINE left == Unregister(key, KeysIn(keyOf, live))
           scanned == IF new = {} THEN left ELSE ScanClosing(left)
<1>1. /\ TypeOK /\ Ownership /\ RefsExact(key, batch, cur) /\ Linked(key, live, keyOf)
      /\ ThreadOK /\ AppTurn
  BY DEF IInv, ConnectFastest
<1>2. /\ live \in SUBSET Tcps /\ keyOf \in [Tcps -> Keys \cup {NoKey}]
      /\ key \in [Keys -> KeyRecord] /\ live = Owned
      /\ new \in SUBSET Tcps /\ self \notin new
      /\ NoTcp \notin Tcps
  BY <1>1, NoTcpAssumption DEF TypeOK, Ownership, Fresh
<1>3. KeysOf(Owned) = KeysIn(keyOf, live)
  BY <1>2 DEF KeysOf, KeysIn
<1>4. /\ ConstructTcps(scanned, new)
      /\ live' = (live \ Owned) \cup new
      /\ clientTcp' = NoTcp /\ tcpCandidates' = new /\ seen' = <<>>
      /\ UNCHANGED <<alive, batch, cur, pc, self>>
  BY <1>3 DEF ConnectFastest
<1>5. /\ left \in [Keys -> KeyRecord] /\ RefsExact(left, batch, cur)
      /\ OnlyOf(key, left, live \ live)
  <2> live \in SUBSET live
    OBVIOUS
  <2> QED
    BY <1>1, <1>2, ObjectsDeleted
<1>6. \A k \in Keys : ~Registered(left, k)
  BY <1>5 DEF OnlyOf
<1> HIDE DEF left
<1>7. /\ scanned \in [Keys -> KeyRecord] /\ RefsExact(scanned, batch, cur)
      /\ \A k \in Keys : ~Registered(scanned, k)
  <2>1. CASE new = {}
    BY <2>1, <1>5, <1>6
  <2>2. CASE new # {}
    <3>1. scanned = ScanClosing(left)
      BY <2>2
    <3>2. /\ scanned \in [Keys -> KeyRecord] /\ RefsExact(scanned, batch, cur)
          /\ SameRegistered(left, scanned)
      BY <3>1, <1>5, ScanKeeps
    <3> QED
      BY <3>2, <1>6 DEF SameRegistered
  <2> QED
    BY <2>1, <2>2
<1> HIDE DEF scanned
<1>8. /\ key' \in [Keys -> KeyRecord] /\ keyOf' \in [Tcps -> Keys \cup {NoKey}]
      /\ RefsExact(key', batch, cur) /\ Linked(key', new, keyOf')
      /\ Phases(key', new, NoTcp)
  <2>1. \A t \in Tcps \ Owned : keyOf[t] = NoKey
    BY <1>1, <1>2 DEF Linked
  <2> QED
    BY <2>1, <1>2, <1>4, <1>7, ConstructStep
<1>9. live' = new
  BY <1>2, <1>4
<1>10. TypeOK'
  BY <1>1, <1>2, <1>4, <1>8, <1>9 DEF TypeOK
<1>11. Ownership' /\ ConnectionHasKey' /\ OneOutcome'
  BY <1>1, <1>4, <1>9 DEF Ownership, Owned, ConnectionHasKey, OneOutcome, AppTurn
<1>12. ThreadOK' /\ NoUndefinedBehaviour'
  BY <1>1, <1>2, <1>4, <1>9, OptionAssumption DEF ThreadOK, NoUndefinedBehaviour, AppTurn
<1> QED
  BY <1>4, <1>8, <1>9, <1>10, <1>11, <1>12 DEF IInv

(* Lemma: so do disconnect and the destructor, which delete what is owned.   *)
LEMMA DisconnectStep ==
    ASSUME IInv, Disconnect \/ DestroyClient
    PROVE  IInv'
<1>1. /\ TypeOK /\ Ownership /\ RefsExact(key, batch, cur) /\ Linked(key, live, keyOf)
      /\ ThreadOK
  BY DEF IInv
<1>2. /\ live \in SUBSET Tcps /\ keyOf \in [Tcps -> Keys \cup {NoKey}]
      /\ key \in [Keys -> KeyRecord] /\ live = Owned
  BY <1>1 DEF TypeOK, Ownership
<1>3. /\ key' = Unregister(key, KeysOf(Owned)) /\ Delete(Owned)
      /\ clientTcp' = NoTcp /\ tcpCandidates' = {} /\ seen' = <<>>
      /\ UNCHANGED <<batch, cur, pc, self>> /\ alive' \in BOOLEAN
      /\ pc = "app" \/ pc \in Reentrant
  BY <1>1 DEF Disconnect, DestroyClient, AppTurn, TypeOK
<1>4. /\ key' \in [Keys -> KeyRecord] /\ keyOf' \in [Tcps -> Keys \cup {NoKey}]
      /\ live' = {}
      /\ RefsExact(key', batch, cur) /\ Linked(key', live', keyOf')
      /\ OnlyOf(key, key', live')
  <2> Owned \in SUBSET live /\ live \ Owned = {}
    BY <1>2
  <2> QED
    BY <1>1, <1>2, <1>3, DeleteStep
<1>5. Phases(key', tcpCandidates', clientTcp')
  BY <1>4 DEF Phases, OnlyOf
<1>6. TypeOK'
  BY <1>1, <1>3, <1>4 DEF TypeOK
<1>7. Ownership' /\ ConnectionHasKey' /\ OneOutcome'
  BY <1>3, <1>4 DEF Ownership, Owned, ConnectionHasKey, OneOutcome
<1>8. ThreadOK' /\ NoUndefinedBehaviour'
  BY <1>1, <1>3, <1>4, OptionAssumption DEF ThreadOK, NoUndefinedBehaviour
<1> QED
  BY <1>3, <1>4, <1>5, <1>6, <1>7, <1>8 DEF IInv

(* Lemma: and the calls that delete nothing.                                 *)
LEMMA CreateOrSendStep ==
    ASSUME IInv, CreateClient \/ SendMsg
    PROVE  IInv'
<1>1. /\ TypeOK /\ Ownership /\ RefsExact(key, batch, cur) /\ Linked(key, live, keyOf)
      /\ Phases(key, tcpCandidates, clientTcp) /\ ConnectionHasKey /\ OneOutcome
      /\ ThreadOK /\ NoUndefinedBehaviour
  BY DEF IInv
<1>2. CASE CreateClient
  BY <1>1, <1>2 DEF IInv, CreateClient, TypeOK, Ownership, Owned, ConnectionHasKey, OneOutcome,
                    ThreadOK, NoUndefinedBehaviour
<1>3. CASE SendMsg
  <2> DEFINE kk == keyOf[clientTcp]
  <2>1. /\ UNCHANGED <<alive, clientTcp, tcpCandidates, live, keyOf, batch, cur, pc, self, seen>>
        /\ key' = [key EXCEPT ![kk].writing = TRUE] /\ clientTcp # NoTcp
        /\ pc # "crashed"
    BY <1>3 DEF SendMsg
  <2>2. /\ live \in SUBSET Tcps /\ keyOf \in [Tcps -> Keys \cup {NoKey}]
        /\ key \in [Keys -> KeyRecord] /\ clientTcp \in live
    BY <1>1, <2>1 DEF TypeOK, Ownership, Owned
  <2>3. kk \in Keys /\ key[kk].user = clientTcp
    BY <1>1, <2>1, <2>2 DEF ConnectionHasKey, Linked
  <2>4. /\ key' \in [Keys -> KeyRecord]
        /\ OperationsAt(key, key', kk)
    BY <2>1, <2>2, <2>3, OneOperation
  <2>5. /\ RefsExact(key', batch, cur) /\ Linked(key', live, keyOf)
        /\ \A k \in Keys : Registered(key', k) <=> Registered(key, k)
    BY <1>1, <2>2, <2>4, OperationsOnly
  <2>6. key'[kk].connecting = key[kk].connecting
    BY <2>1, <2>2, <2>3
  <2>7. Phases(key', tcpCandidates, clientTcp)
    BY <1>1, <2>3, <2>4, <2>5, <2>6 DEF Phases, OperationsAt
  <2>8. TypeOK'
    BY <1>1, <2>1, <2>4 DEF TypeOK
  <2>9. Ownership' /\ ConnectionHasKey' /\ OneOutcome' /\ ThreadOK'
    BY <1>1, <2>1 DEF Ownership, Owned, ConnectionHasKey, OneOutcome, ThreadOK
  <2>10. NoUndefinedBehaviour'
    BY <2>1 DEF NoUndefinedBehaviour
  <2> QED
    BY <2>1, <2>5, <2>7, <2>8, <2>9, <2>10 DEF IInv
<1> QED
  BY <1>2, <1>3

-----------------------------------------------------------------------------
(* Time and polling.                                                         *)

(* Lemma: with a table of the same registered keys and exact counts, and     *)
(* nothing else changed but the batch, the invariant is preserved.           *)
LEMMA TableOnlyStep ==
    ASSUME IInv,
           UNCHANGED <<alive, clientTcp, tcpCandidates, live, keyOf, cur, self, seen>>,
           key' \in [Keys -> KeyRecord], batch' \subseteq Keys \X Events,
           RefsExact(key', batch', cur), SameRegistered(key, key'),
           \/ pc' = pc /\ batch' = batch /\ pc # "crashed"
           \/ pc = "app" /\ pc' = "dispatch"
    PROVE  IInv'
<1>1. /\ TypeOK /\ Ownership /\ Linked(key, live, keyOf)
      /\ Phases(key, tcpCandidates, clientTcp) /\ ConnectionHasKey /\ OneOutcome /\ ThreadOK
  BY DEF IInv
<1>2. live \in SUBSET Tcps /\ keyOf \in [Tcps -> Keys \cup {NoKey}]
  BY <1>1 DEF TypeOK
<1>3. Linked(key', live, keyOf) /\ Phases(key', tcpCandidates, clientTcp)
  BY <1>1, <1>2, SameFits
<1>4. TypeOK'
  BY <1>1 DEF TypeOK, Events
<1>5. Ownership' /\ ConnectionHasKey' /\ OneOutcome'
  BY <1>1 DEF Ownership, Owned, ConnectionHasKey, OneOutcome
<1>6. ThreadOK' /\ NoUndefinedBehaviour'
  BY <1>1 DEF ThreadOK, NoUndefinedBehaviour
<1> QED
  BY <1>3, <1>4, <1>5, <1>6 DEF IInv

(* Lemma: the free delay of a key runs out.                                  *)
LEMMA FreeDelayOverStep ==
    ASSUME IInv, NEW k \in Keys, FreeDelayOver(k)
    PROVE  IInv'
<1>1. /\ key \in [Keys -> KeyRecord] /\ RefsExact(key, batch, cur) /\ key[k].where = "closing"
      /\ batch \subseteq Keys \X Events
  BY DEF IInv, TypeOK, FreeDelayOver, Events
<1>2. PICK N : N = [key EXCEPT ![k].where = "expired"]
  OBVIOUS
<1>3. /\ N \in [Keys -> KeyRecord]
      /\ \A j \in Keys \ {k} : N[j] = key[j]
      /\ N[k].where = "expired" /\ N[k].ref = key[k].ref /\ N[k].closing = key[k].closing
  BY <1>1, <1>2 DEF KeyRecord, Places
<1>4. ~Registered(N, k) /\ ~Registered(key, k)
  BY <1>1, <1>3 DEF Registered
<1>5. SameRegistered(key, N)
  BY <1>3, <1>4 DEF SameRegistered, Registered
<1>6. RefsExact(N, batch, cur)
  <2> SUFFICES ASSUME NEW j \in Keys
               PROVE  /\ N[j].ref = Bit(Registered(N, j)) + CountEvents(batch, j) + Bit(cur = j)
                      /\ N[j].ref > 0 <=> N[j].where = "active"
                      /\ N[j].where \in {"closing", "expired"} => N[j].closing
    BY DEF RefsExact
  <2>1. CASE j = k
    <3>1. key[k].closing /\ ~(key[k].ref > 0)
      BY <1>1 DEF RefsExact
    <3>2. N[k].closing
      BY <1>3, <3>1
    <3> QED
      BY <1>1, <1>3, <1>4, <2>1, <3>1, <3>2 DEF RefsExact, Bit
  <2>2. CASE j # k
    BY <1>1, <1>3, <2>2 DEF RefsExact, Registered
  <2> QED
    BY <2>1, <2>2
<1>7. /\ key' = N /\ pc' = pc /\ batch' = batch /\ pc # "crashed"
      /\ UNCHANGED <<alive, clientTcp, tcpCandidates, live, keyOf, cur, self, seen>>
  BY <1>2 DEF FreeDelayOver
<1> QED
  BY <1>1, <1>3, <1>5, <1>6, <1>7, TableOnlyStep

(* Lemma: a poll counts every event it will dispatch, once.                  *)
LEMMA PollStep ==
    ASSUME IInv, NEW events \in SUBSET Watched(key), Poll(events)
    PROVE  IInv'
<1>1. /\ key \in [Keys -> KeyRecord] /\ RefsExact(key, batch, cur)
      /\ pc = "app" /\ batch = {} /\ cur = NoKey
  BY DEF IInv, TypeOK, ThreadOK, Poll
<1>2. /\ events \subseteq Keys \X Events
      /\ \A e \in events : Registered(key, e[1])
  BY DEF Watched, Events
<1>3. PICK N : N = AddRefs(key, events)
  OBVIOUS
<1>4. \A k \in Keys : CountEvents(events, k) \in Nat
  BY DEF CountEvents, Bit
<1>5. \A k \in Keys : N[k] = [key[k] EXCEPT !.ref = @ + CountEvents(events, k)]
  BY <1>3 DEF AddRefs
<1>6. \A k \in Keys :
        /\ N[k] \in KeyRecord
        /\ N[k].ref = key[k].ref + CountEvents(events, k)
        /\ N[k].where = key[k].where /\ N[k].closing = key[k].closing /\ N[k].user = key[k].user
        /\ N[k].connecting = key[k].connecting
        /\ N[k].reading = key[k].reading /\ N[k].writing = key[k].writing
  <2> TAKE k \in Keys
  <2>1. key[k] \in KeyRecord /\ CountEvents(events, k) \in Nat
    BY <1>1, <1>4
  <2>2. N[k] = [key[k] EXCEPT !.ref = @ + CountEvents(events, k)]
    BY <1>5
  <2>3. N[k] \in KeyRecord
    BY <2>1, <2>2 DEF KeyRecord
  <2>4. /\ N[k].ref = key[k].ref + CountEvents(events, k)
        /\ N[k].where = key[k].where /\ N[k].closing = key[k].closing /\ N[k].user = key[k].user
        /\ N[k].connecting = key[k].connecting
        /\ N[k].reading = key[k].reading /\ N[k].writing = key[k].writing
    BY <2>1, <2>2 DEF KeyRecord
  <2> QED
    BY <2>3, <2>4
<1>7. N \in [Keys -> KeyRecord]
  BY <1>3, <1>6 DEF AddRefs
<1>8. \A k \in Keys : Registered(N, k) <=> Registered(key, k)
  BY <1>6 DEF Registered
<1>9. SameRegistered(key, N)
  BY <1>6, <1>8 DEF SameRegistered
<1>10. RefsExact(N, events, cur)
  <2> SUFFICES ASSUME NEW k \in Keys
               PROVE  /\ N[k].ref = Bit(Registered(N, k)) + CountEvents(events, k) + Bit(cur = k)
                      /\ N[k].ref > 0 <=> N[k].where = "active"
                      /\ N[k].where \in {"closing", "expired"} => N[k].closing
    BY DEF RefsExact
  <2>1. CountEvents({}, k) = 0 /\ Bit(cur = k) = 0
    BY <1>1, NoKeyAssumption DEF CountEvents, Bit
  <2>2. key[k].ref = Bit(Registered(key, k)) + 0 + 0
    BY <1>1, <2>1 DEF RefsExact
  <2>3. CountEvents(events, k) # 0 => Registered(key, k)
    <3>1. \A ev : <<k, ev>> \in events => Registered(key, k)
      BY <1>2
    <3> QED
      BY <3>1 DEF CountEvents, Bit
  <2>4. N[k].ref = Bit(Registered(N, k)) + CountEvents(events, k) + Bit(cur = k)
    BY <1>4, <1>6, <1>8, <2>1, <2>2 DEF Bit
  <2>5. N[k].ref > 0 <=> N[k].where = "active"
    <3>1. CASE CountEvents(events, k) = 0
      BY <3>1, <1>1, <1>6 DEF RefsExact, KeyRecord
    <3>2. CASE CountEvents(events, k) # 0
      BY <3>2, <1>4, <1>6, <2>2, <2>3 DEF Registered, Bit
    <3> QED
      BY <3>1, <3>2
  <2>6. N[k].where \in {"closing", "expired"} => N[k].closing
    BY <1>1, <1>6 DEF RefsExact
  <2> QED
    BY <2>4, <2>5, <2>6
<1>11. /\ key' = N /\ pc' = "dispatch" /\ batch' = events
       /\ UNCHANGED <<alive, clientTcp, tcpCandidates, live, keyOf, cur, self, seen>>
  BY <1>3 DEF Poll
<1> QED
  BY <1>1, <1>2, <1>7, <1>9, <1>10, <1>11, TableOnlyStep

(* Lemma: a poll with nothing to watch.                                      *)
LEMMA PollIdleStep ==
    ASSUME IInv, PollIdle
    PROVE  IInv'
<1>1. /\ key \in [Keys -> KeyRecord] /\ RefsExact(key, batch, cur)
      /\ batch \subseteq Keys \X Events
  BY DEF IInv, TypeOK, Events
<1>2. /\ key' = ScanClosing(key) /\ pc' = pc /\ batch' = batch /\ pc # "crashed"
      /\ UNCHANGED <<alive, clientTcp, tcpCandidates, live, keyOf, cur, self, seen>>
  BY DEF PollIdle
<1> QED
  BY <1>1, <1>2, ScanKeeps, TableOnlyStep

-----------------------------------------------------------------------------
(* Dispatching.                                                              *)

(* Lemma: what holds when an event of the batch is taken up: its reference   *)
(* is now that of the event being dispatched, and a key that is not closing  *)
(* belongs to a live object.                                                 *)
LEMMA EventTakenUp ==
    ASSUME IInv, NEW k \in Keys, NEW ev \in Events, Dispatching(k, ev),
           batch' = batch \ {<<k, ev>>}
    PROVE  /\ key \in [Keys -> KeyRecord]
           /\ cur = NoKey /\ self = NoTcp
           /\ batch' \subseteq Keys \X Events
           /\ RefsExact(key, batch', k)
           /\ Linked(key, live, keyOf)
           /\ Current(k, ev) => Registered(key, k) /\ key[k].user \in live
<1>1. /\ TypeOK /\ RefsExact(key, batch, cur) /\ Linked(key, live, keyOf) /\ ThreadOK
      /\ pc = "dispatch" /\ <<k, ev>> \in batch
  BY DEF IInv, Dispatching
<1>2. key \in [Keys -> KeyRecord] /\ batch \subseteq Keys \X Events /\ cur = NoKey /\ self = NoTcp
  BY <1>1 DEF TypeOK, ThreadOK, Events
<1>3. RefsExact(key, batch', k)
  BY <1>1, <1>2, EventTaken
<1>4. key[k].where = "active"
  <2>1. key[k].ref = Bit(Registered(key, k)) + CountEvents(batch', k) + Bit(k = k)
    BY <1>3 DEF RefsExact
  <2>2. key[k].ref > 0
    BY <2>1 DEF Bit, CountEvents
  <2> QED
    BY <1>3, <2>2 DEF RefsExact
<1>5. Current(k, ev) => Registered(key, k)
  BY <1>4 DEF Current, Registered
<1> QED
  BY <1>1, <1>2, <1>3, <1>5 DEF Linked

(* Lemma: the end of an event for which nothing but the operations pending   *)
(* on its key has changed.                                                   *)
LEMMA EventDone ==
    ASSUME IInv, NEW K \in [Keys -> KeyRecord], NEW k \in Keys,
           batch' \subseteq Keys \X Events,
           RefsExact(K, batch', k), Linked(K, live, keyOf),
           Phases(K, tcpCandidates, clientTcp),
           key' = DropRef(K, {k}), EndEvent(batch'),
           UNCHANGED <<alive, clientTcp, tcpCandidates, live, keyOf, seen>>
    PROVE  IInv'
<1>1. TypeOK /\ Ownership /\ ConnectionHasKey /\ OneOutcome
  BY DEF IInv
<1>2. live \in SUBSET Tcps /\ keyOf \in [Tcps -> Keys \cup {NoKey}]
  BY <1>1 DEF TypeOK
<1>3. /\ key' \in [Keys -> KeyRecord] /\ RefsExact(key', batch', NoKey)
      /\ SameRegistered(K, key')
  BY DropRefKeeps
<1>4. Linked(key', live, keyOf) /\ Phases(key', tcpCandidates, clientTcp)
  BY <1>2, <1>3, SameFits
<1>5. cur' = NoKey /\ self' = NoTcp /\ pc' = IF batch' = {} THEN "app" ELSE "dispatch"
  BY DEF EndEvent
<1>6. TypeOK'
  BY <1>1, <1>3, <1>5 DEF TypeOK, Events
<1>7. Ownership' /\ ConnectionHasKey' /\ OneOutcome'
  BY <1>1 DEF Ownership, Owned, ConnectionHasKey, OneOutcome
<1>8. ThreadOK' /\ NoUndefinedBehaviour'
  BY <1>5 DEF ThreadOK, NoUndefinedBehaviour
<1> QED
  BY <1>3, <1>4, <1>5, <1>6, <1>7, <1>8 DEF IInv

(* Lemma: an event that has become stale only drops its reference.           *)
LEMMA StaleStep ==
    ASSUME IInv, NEW k \in Keys, NEW ev \in Events, DispatchStale(k, ev)
    PROVE  IInv'
<1>1. /\ Dispatching(k, ev) /\ batch' = batch \ {<<k, ev>>}
      /\ key' = DropRef(key, {k}) /\ EndEvent(batch')
      /\ UNCHANGED <<alive, clientTcp, tcpCandidates, live, keyOf, seen>>
  BY DEF DispatchStale
<1>2. /\ key \in [Keys -> KeyRecord] /\ batch' \subseteq Keys \X Events
      /\ RefsExact(key, batch', k) /\ Linked(key, live, keyOf)
  BY <1>1, EventTakenUp
<1>3. Phases(key, tcpCandidates, clientTcp)
  BY DEF IInv
<1> QED
  BY <1>1, <1>2, <1>3, EventDone

(* Lemma: clearing or, on the established connection, setting an operation   *)
(* keeps the phases.                                                         *)
LEMMA PhasesKept ==
    ASSUME IInv, NEW k \in Keys, NEW b \in BOOLEAN, NEW K \in [Keys -> KeyRecord],
           Linked(key, live, keyOf), Phases(key, tcpCandidates, clientTcp),
           \/ K = [key EXCEPT ![k].connecting = FALSE]
           \/ K = [key EXCEPT ![k].reading = FALSE]
           \/ key[k].user = clientTcp /\ K = [key EXCEPT ![k].reading = TRUE]
           \/ (b => key[k].user = clientTcp) /\ K = [key EXCEPT ![k].writing = b]
    PROVE  Phases(K, tcpCandidates, clientTcp)
<1>1. key \in [Keys -> KeyRecord]
  BY DEF IInv, TypeOK
<1> SUFFICES ASSUME NEW j \in Keys, Registered(K, j)
             PROVE  /\ K[j].connecting => K[j].user \in tcpCandidates
                    /\ K[j].reading \/ K[j].writing => K[j].user = clientTcp
  BY DEF Phases
<1>2. CASE j # k
  <2>1. K[j] = key[j]
    BY <1>1, <1>2
  <2>2. Registered(key, j)
    BY <2>1 DEF Registered
  <2> QED
    BY <2>1, <2>2 DEF Phases
<1>3. CASE j = k
  <2>1. CASE K = [key EXCEPT ![k].connecting = FALSE]
    <3>1. /\ K[k].connecting = FALSE /\ K[k].reading = key[k].reading
          /\ K[k].writing = key[k].writing /\ K[k].user = key[k].user
          /\ K[k].where = key[k].where /\ K[k].closing = key[k].closing
      BY <1>1, <2>1 DEF KeyRecord
    <3> QED
      BY <1>3, <3>1 DEF Phases, Registered
  <2>2. CASE K = [key EXCEPT ![k].reading = FALSE]
    <3>1. /\ K[k].reading = FALSE /\ K[k].connecting = key[k].connecting
          /\ K[k].writing = key[k].writing /\ K[k].user = key[k].user
          /\ K[k].where = key[k].where /\ K[k].closing = key[k].closing
      BY <1>1, <2>2 DEF KeyRecord
    <3> QED
      BY <1>3, <3>1 DEF Phases, Registered
  <2>3. CASE key[k].user = clientTcp /\ K = [key EXCEPT ![k].reading = TRUE]
    <3>1. /\ K[k].connecting = key[k].connecting /\ K[k].user = key[k].user
          /\ K[k].where = key[k].where /\ K[k].closing = key[k].closing
      BY <1>1, <2>3 DEF KeyRecord
    <3> QED
      BY <1>3, <2>3, <3>1 DEF Phases, Registered
  <2>4. CASE (b => key[k].user = clientTcp) /\ K = [key EXCEPT ![k].writing = b]
    <3>1. /\ K[k].connecting = key[k].connecting /\ K[k].user = key[k].user
          /\ K[k].where = key[k].where /\ K[k].closing = key[k].closing
          /\ K[k].reading = key[k].reading /\ K[k].writing = b
      BY <1>1, <2>4 DEF KeyRecord
    <3> QED
      BY <1>3, <2>4, <3>1 DEF Phases, Registered
  <2> QED
    BY <2>1, <2>2, <2>3, <2>4
<1> QED
  BY <1>2, <1>3

(* Lemma: a connect that has failed.                                         *)
LEMMA ConnectFailedStep ==
    ASSUME IInv, NEW k \in Keys, NEW ev \in Events, DispatchConnectFailed(k, ev)
    PROVE  IInv'
<1>1. /\ Dispatching(k, ev) /\ Current(k, ev) /\ batch' = batch \ {<<k, ev>>}
      /\ OnClose(key[k].user, [key EXCEPT ![k].connecting = FALSE], k) /\ alive' = alive
  BY DEF DispatchConnectFailed
<1>2. /\ key \in [Keys -> KeyRecord] /\ batch' \subseteq Keys \X Events
      /\ RefsExact(key, batch', k) /\ Linked(key, live, keyOf) /\ key[k].user \in live
  BY <1>1, EventTakenUp
<1>3. /\ TypeOK /\ Ownership /\ ConnectionHasKey /\ OneOutcome
      /\ Phases(key, tcpCandidates, clientTcp)
      /\ live \in SUBSET Tcps /\ keyOf \in [Tcps -> Keys \cup {NoKey}]
  BY DEF IInv, TypeOK
<1>4. PICK K : K = [key EXCEPT ![k].connecting = FALSE]
  OBVIOUS
<1>5. K \in [Keys -> KeyRecord] /\ OperationsAt(key, K, k)
  BY <1>2, <1>4, OneOperation
<1>6. RefsExact(K, batch', k) /\ Linked(K, live, keyOf)
  BY <1>2, <1>3, <1>5, OperationsOnly
<1>7. Phases(K, tcpCandidates, clientTcp)
  BY <1>2, <1>3, <1>4, <1>5, PhasesKept
<1> QED
  BY <1>1, <1>2, <1>3, <1>4, <1>5, <1>6, <1>7, OnCloseStep

(* Lemma: a connect that has succeeded.                                      *)
LEMMA ConnectedStep ==
    ASSUME IInv, NEW k \in Keys, DispatchConnected(k)
    PROVE  IInv'
<1>1. /\ Dispatching(k, "write") /\ Current(k, "write") /\ key[k].connecting
      /\ batch' = batch \ {<<k, "write">>} /\ alive' = alive
  BY DEF DispatchConnected
<1>2. "write" \in Events
  BY DEF Events
<1>3. /\ key \in [Keys -> KeyRecord] /\ batch' \subseteq Keys \X Events
      /\ RefsExact(key, batch', k) /\ Linked(key, live, keyOf)
      /\ Registered(key, k) /\ key[k].user \in live
  BY <1>1, <1>2, EventTakenUp
<1>4. /\ TypeOK /\ Ownership /\ OneOutcome /\ Phases(key, tcpCandidates, clientTcp)
      /\ live \in SUBSET Tcps /\ keyOf \in [Tcps -> Keys \cup {NoKey}]
  BY DEF IInv, TypeOK
<1>5. key[k].user \in tcpCandidates
  BY <1>1, <1>3, <1>4 DEF Phases
<1>6. PICK K1 : K1 = [key EXCEPT ![k].connecting = FALSE]
  OBVIOUS
<1>7. K1 \in [Keys -> KeyRecord] /\ OperationsAt(key, K1, k)
  BY <1>3, <1>6, OneOperation
<1>8. K1[k].connecting = FALSE
  BY <1>3, <1>6 DEF KeyRecord
<1>9. /\ RefsExact(K1, batch', k) /\ Linked(K1, live, keyOf)
      /\ Registered(K1, k) /\ K1[k].user = key[k].user
  <2>1. K1[k].user = key[k].user
    BY <1>7 DEF OperationsAt
  <2> QED
    BY <1>3, <1>4, <1>7, <2>1, OperationsOnly
<1>10. PICK K \in SendAesKey(K1, k) : OnConnect(key[k].user, K, k)
  BY <1>6 DEF DispatchConnected
<1>11. PICK b \in BOOLEAN : K = [K1 EXCEPT ![k].writing = b]
  BY <1>10 DEF SendAesKey
<1>12. K \in [Keys -> KeyRecord] /\ OperationsAt(K1, K, k)
  BY <1>7, <1>11, OneOperation
<1>13. K[k].connecting = FALSE
  BY <1>7, <1>8, <1>11 DEF KeyRecord
<1>14. /\ RefsExact(K, batch', k) /\ Linked(K, live, keyOf)
       /\ Registered(K, k) /\ K[k].user = key[k].user
  <2>1. K[k].user = key[k].user
    BY <1>9, <1>12 DEF OperationsAt
  <2> QED
    BY <1>4, <1>7, <1>9, <1>12, <2>1, OperationsOnly
<1> QED
  BY <1>1, <1>3, <1>4, <1>5, <1>10, <1>12, <1>13, <1>14, OnConnectStep

(* Lemma: a pending write has gone out, in full or in part.                  *)
LEMMA WrittenStep ==
    ASSUME IInv, NEW k \in Keys, DispatchWritten(k)
    PROVE  IInv'
<1>1. /\ Dispatching(k, "write") /\ Current(k, "write") /\ ~key[k].connecting
      /\ batch' = batch \ {<<k, "write">>} /\ EndEvent(batch')
      /\ UNCHANGED <<alive, clientTcp, tcpCandidates, live, keyOf, seen>>
  BY DEF DispatchWritten
<1>2. "write" \in Events
  BY DEF Events
<1>3. /\ key \in [Keys -> KeyRecord] /\ batch' \subseteq Keys \X Events
      /\ RefsExact(key, batch', k) /\ Linked(key, live, keyOf)
      /\ Registered(key, k)
  BY <1>1, <1>2, EventTakenUp
<1>4. /\ Phases(key, tcpCandidates, clientTcp)
      /\ live \in SUBSET Tcps /\ keyOf \in [Tcps -> Keys \cup {NoKey}]
  BY DEF IInv, TypeOK
<1>5. key[k].user = clientTcp
  <2>1. key[k].connecting \/ key[k].writing
    BY <1>1 DEF Current
  <2>2. key[k].writing
    BY <1>1, <2>1
  <2> QED
    BY <1>3, <1>4, <2>2 DEF Phases
<1>6. PICK b \in BOOLEAN : key' = DropRef([key EXCEPT ![k].writing = b], {k})
  BY DEF DispatchWritten
<1>7. PICK K : K = [key EXCEPT ![k].writing = b]
  OBVIOUS
<1>8. K \in [Keys -> KeyRecord] /\ OperationsAt(key, K, k)
  BY <1>3, <1>7, OneOperation
<1>9. RefsExact(K, batch', k) /\ Linked(K, live, keyOf)
  BY <1>3, <1>4, <1>8, OperationsOnly
<1>10. Phases(K, tcpCandidates, clientTcp)
  <2>1. b => key[k].user = clientTcp
    BY <1>5
  <2> QED
    BY <1>3, <1>4, <1>7, <1>8, <2>1, PhasesKept
<1> QED
  BY <1>1, <1>3, <1>6, <1>7, <1>8, <1>9, <1>10, EventDone

(* Lemma: a read, whatever it brings.                                        *)
LEMMA ReadStep ==
    ASSUME IInv, NEW k \in Keys, DispatchRead(k)
    PROVE  IInv'
<1>1. /\ Dispatching(k, "read") /\ Current(k, "read")
      /\ batch' = batch \ {<<k, "read">>} /\ alive' = alive
  BY DEF DispatchRead
<1>2. "read" \in Events /\ k # NoKey
  BY NoKeyAssumption DEF Events
<1>3. /\ key \in [Keys -> KeyRecord] /\ batch' \subseteq Keys \X Events
      /\ RefsExact(key, batch', k) /\ Linked(key, live, keyOf)
      /\ Registered(key, k) /\ key[k].user \in live /\ self = NoTcp
  BY <1>1, <1>2, EventTakenUp
<1>4. /\ TypeOK /\ Ownership /\ ConnectionHasKey /\ OneOutcome
      /\ Phases(key, tcpCandidates, clientTcp)
      /\ live \in SUBSET Tcps /\ keyOf \in [Tcps -> Keys \cup {NoKey}]
  BY DEF IInv, TypeOK
<1>5. key[k].reading /\ key[k].user = clientTcp
  <2>1. key[k].reading
    BY <1>1 DEF Current
  <2> QED
    BY <1>3, <1>4, <2>1 DEF Phases
<1>6. PICK K : K = [key EXCEPT ![k].reading = FALSE]
  OBVIOUS
<1>7. K \in [Keys -> KeyRecord] /\ OperationsAt(key, K, k)
  BY <1>3, <1>6, OneOperation
<1>8. RefsExact(K, batch', k) /\ Linked(K, live, keyOf)
  BY <1>3, <1>4, <1>7, OperationsOnly
<1>9. Phases(K, tcpCandidates, clientTcp)
  BY <1>3, <1>4, <1>6, <1>7, PhasesKept
<1>10. CASE /\ key' = DropRef(key, {k}) /\ EndEvent(batch')
            /\ UNCHANGED <<clientTcp, tcpCandidates, live, keyOf, seen>>
  BY <1>1, <1>3, <1>4, <1>10, EventDone
<1>11. CASE /\ key' = K /\ cur' = k /\ pc' = "msg" /\ self' = key[k].user
            /\ UNCHANGED <<clientTcp, tcpCandidates, live, keyOf, seen>>
  <2>1. TypeOK'
    BY <1>1, <1>3, <1>4, <1>7, <1>11 DEF TypeOK, Events
  <2>2. Ownership' /\ ConnectionHasKey' /\ OneOutcome'
    BY <1>1, <1>4, <1>11 DEF Ownership, Owned, ConnectionHasKey, OneOutcome
  <2>3. ThreadOK' /\ NoUndefinedBehaviour'
    BY <1>2, <1>3, <1>5, <1>11 DEF ThreadOK, NoUndefinedBehaviour
  <2> QED
    BY <1>8, <1>9, <1>11, <2>1, <2>2, <2>3 DEF IInv
<1>12. CASE OnClose(key[k].user, K, k)
  BY <1>1, <1>3, <1>4, <1>7, <1>8, <1>9, <1>12, OnCloseStep
<1>13. CASE /\ "error" \in ReadOutcomes /\ pc' = "crashed" /\ cur' = k
            /\ UNCHANGED <<clientTcp, tcpCandidates, live, keyOf, key, self, seen>>
  <2>1. TypeOK'
    BY <1>1, <1>3, <1>4, <1>13 DEF TypeOK, Events
  <2>2. Ownership' /\ ConnectionHasKey' /\ OneOutcome'
    BY <1>1, <1>4, <1>13 DEF Ownership, Owned, ConnectionHasKey, OneOutcome
  <2>3. ThreadOK'
    BY <1>2, <1>13 DEF ThreadOK
  <2>4. NoUndefinedBehaviour'
    BY <1>5, <1>13 DEF NoUndefinedBehaviour
  <2> QED
    BY <1>3, <1>4, <1>13, <2>1, <2>2, <2>3, <2>4 DEF IInv
<1> QED
  BY <1>6, <1>10, <1>11, <1>12, <1>13 DEF DispatchRead

-----------------------------------------------------------------------------
(* The callbacks return.                                                     *)

(* Lemma: a callback returns to the object that called it, or would if the   *)
(* application had not deleted it.                                           *)
LEMMA ReturnStep ==
    ASSUME IInv, Return
    PROVE  IInv'
<1>1. /\ TypeOK /\ Ownership /\ ConnectionHasKey /\ OneOutcome /\ ThreadOK
      /\ Phases(key, tcpCandidates, clientTcp) /\ RefsExact(key, batch, cur)
      /\ Linked(key, live, keyOf)
      /\ live \in SUBSET Tcps /\ keyOf \in [Tcps -> Keys \cup {NoKey}]
      /\ key \in [Keys -> KeyRecord] /\ batch \subseteq Keys \X Events
  BY DEF IInv, TypeOK, Events
<1>2. cur \in Keys
  BY <1>1 DEF TypeOK, ThreadOK, Return, ReturnOk, ReturnError, ReturnToDeleted, ReturnClose
<1>3. CASE ReturnOk
  <2> DEFINE k == keyOf[self]
  <2>1. /\ pc \in {"conn", "msg"} /\ self \in live
        /\ key' = DropRef([key EXCEPT ![k].reading = TRUE], {cur})
        /\ EndEvent(batch)
        /\ UNCHANGED <<alive, clientTcp, tcpCandidates, live, keyOf, batch, seen>>
    BY <1>3 DEF ReturnOk
  <2>2. self = clientTcp /\ clientTcp # NoTcp
    BY <1>1, <2>1, NoTcpAssumption DEF ThreadOK
  <2>3. k \in Keys /\ key[k].user = clientTcp
    BY <1>1, <2>1, <2>2 DEF ConnectionHasKey, Linked
  <2> HIDE DEF k
  <2>4. PICK K : K = [key EXCEPT ![k].reading = TRUE]
    OBVIOUS
  <2>5. K \in [Keys -> KeyRecord] /\ OperationsAt(key, K, k)
    BY <1>1, <2>3, <2>4, OneOperation
  <2>6. RefsExact(K, batch, cur) /\ Linked(K, live, keyOf)
    BY <1>1, <2>5, OperationsOnly
  <2>7. Phases(K, tcpCandidates, clientTcp)
    BY <1>1, <2>3, <2>4, <2>5, PhasesKept
  <2>8. batch' = batch /\ EndEvent(batch')
    BY <2>1
  <2> QED
    BY <1>1, <1>2, <2>1, <2>4, <2>5, <2>6, <2>7, <2>8, EventDone
<1>4. CASE ReturnError
  <2>1. self \in live /\ batch' = batch /\ OnClose(self, key, cur) /\ alive' = alive
    BY <1>4 DEF ReturnError
  <2> QED
    BY <1>1, <1>2, <2>1, OnCloseStep
<1>5. CASE ReturnToDeleted
  <2>1. /\ pc \in {"conn", "msg"} /\ self \notin live /\ pc' = "crashed"
        /\ UNCHANGED <<alive, clientTcp, tcpCandidates, live, keyOf, key, batch, cur, self, seen>>
    BY <1>5 DEF ReturnToDeleted
  <2>2. pc \in Reentrant /\ seen = <<>>
    BY <1>1, <2>1 DEF ThreadOK
  <2>3. TypeOK'
    BY <1>1, <2>1 DEF TypeOK
  <2>4. Ownership' /\ ConnectionHasKey' /\ OneOutcome'
    BY <1>1, <2>1 DEF Ownership, Owned, ConnectionHasKey, OneOutcome
  <2>5. ThreadOK'
    BY <1>1, <2>1 DEF ThreadOK
  <2>6. NoUndefinedBehaviour'
    BY <2>1, <2>2 DEF NoUndefinedBehaviour
  <2> QED
    BY <1>1, <2>1, <2>3, <2>4, <2>5, <2>6 DEF IInv
<1>6. CASE ReturnClose
  <2>1. /\ key' = DropRef(key, {cur}) /\ batch' = batch /\ EndEvent(batch')
        /\ UNCHANGED <<alive, clientTcp, tcpCandidates, live, keyOf, seen>>
    BY <1>6 DEF ReturnClose
  <2> QED
    BY <1>1, <1>2, <2>1, EventDone
<1> QED
  BY <1>3, <1>4, <1>5, <1>6 DEF Return

-----------------------------------------------------------------------------
(* Lemma: the invariant holds initially.                                     *)
LEMMA InitIInv == Init => IInv
<1> SUFFICES ASSUME Init
             PROVE  IInv
  OBVIOUS
<1>1. FreshKey \in KeyRecord
  BY DEF FreshKey, KeyRecord, Places
<1>2. /\ key \in [Keys -> KeyRecord] /\ \A k \in Keys : key[k] = FreshKey
  BY <1>1 DEF Init, CreatedTable
<1>3. \A k \in Keys : ~Registered(key, k)
  BY <1>2 DEF Registered, FreshKey
<1>4. RefsExact(key, batch, cur)
  <2>1. \A k \in Keys : Bit(cur = k) = 0 /\ CountEvents(batch, k) = 0
    BY NoKeyAssumption DEF Init, Bit, CountEvents
  <2>2. \A k \in Keys : key[k].ref = 0 /\ key[k].where = "free"
    BY <1>2 DEF FreshKey
  <2> QED
    BY <1>3, <2>1, <2>2 DEF RefsExact, Bit
<1>5. Linked(key, live, keyOf) /\ Phases(key, tcpCandidates, clientTcp)
  BY <1>3 DEF Linked, Phases, Init
<1>6. TypeOK
  BY <1>2 DEF TypeOK, Init
<1>7. Ownership /\ ConnectionHasKey /\ OneOutcome /\ ThreadOK /\ NoUndefinedBehaviour
  BY DEF Ownership, Owned, ConnectionHasKey, OneOutcome, ThreadOK, NoUndefinedBehaviour, Init
<1> QED
  BY <1>4, <1>5, <1>6, <1>7 DEF IInv

(* Lemma: every step preserves it.                                           *)
LEMMA NextIInv == IInv /\ [Next]_vars => IInv'
<1> SUFFICES ASSUME IInv, [Next]_vars
             PROVE  IInv'
  OBVIOUS
<1>1. CASE \E new \in SUBSET Fresh : ConnectFastest(new)
  BY <1>1, ConnectFastestStep
<1>2. CASE Disconnect \/ DestroyClient
  BY <1>2, DisconnectStep
<1>3. CASE CreateClient \/ SendMsg
  BY <1>3, CreateOrSendStep
<1>4. CASE \E k \in Keys : FreeDelayOver(k)
  BY <1>4, FreeDelayOverStep
<1>5. CASE \E events \in SUBSET Watched(key) : Poll(events)
  BY <1>5, PollStep
<1>6. CASE PollIdle
  BY <1>6, PollIdleStep
<1>7. CASE Dispatch
  <2>1. PICK k \in Keys :
            \/ \E ev \in Events : DispatchStale(k, ev) \/ DispatchConnectFailed(k, ev)
            \/ DispatchConnected(k) \/ DispatchWritten(k) \/ DispatchRead(k)
    BY <1>7 DEF Dispatch, Events
  <2> QED
    BY <2>1, StaleStep, ConnectFailedStep, ConnectedStep, WrittenStep, ReadStep
<1>8. CASE Return
  BY <1>8, ReturnStep
<1>9. CASE UNCHANGED vars
  BY <1>9 DEF vars, IInv, TypeOK, Ownership, Owned, ConnectionHasKey, OneOutcome, ThreadOK,
              NoUndefinedBehaviour
<1> QED
  BY <1>1, <1>2, <1>3, <1>4, <1>5, <1>6, <1>7, <1>8, <1>9 DEF Next

(* Theorem: the inductive invariant holds in every behaviour.                *)
THEOREM ClientInvariant == Spec => []IInv
BY InitIInv, NextIInv, PTL DEF Spec

(* Theorem: whatever the sockets report and the application calls, in its    *)
(* callbacks or outside them: what is allocated is owned, nothing is deleted *)
(* twice, keys and objects point at each other, and every key does what its  *)
(* object's part in the attempt allows.                                      *)
THEOREM ClientObjectsAndKeys == Spec => []ObjectsAndKeys
<1>1. IInv => ObjectsAndKeys
  BY DEF IInv, ObjectsAndKeys, Linked, KeysPointToLive, Phases, PhaseOK
<1> QED
  BY <1>1, ClientInvariant, PTL

(* Theorem: the counter of every key is its registration plus the events     *)
(* still to be dispatched plus the one in hand, so that no key comes to the  *)
(* closing list, or is handed out again, while the poll will touch it.       *)
THEOREM ClientKeyRefsExact == Spec => []KeyRefsExact
<1>1. IInv => KeyRefsExact
  BY DEF IInv, RefsExact, KeyRefsExact
<1> QED
  BY <1>1, ClientInvariant, PTL

(* Theorem: a connectFastest has at most one connect and one close callback, *)
(* in this order, and none after disconnect or the destructor.               *)
THEOREM ClientOneOutcome == Spec => []OneOutcome
<1>1. IInv => OneOutcome
  BY DEF IInv
<1> QED
  BY <1>1, ClientInvariant, PTL

(* Theorem: undefined behaviour needs a failed read, or an application that  *)
(* calls connectFastest or disconnect in a connect or message callback.      *)
THEOREM ClientNoUndefinedBehaviour == Spec => []NoUndefinedBehaviour
<1>1. IInv => NoUndefinedBehaviour
  BY DEF IInv
<1> QED
  BY <1>1, ClientInvariant, PTL
=============================================================================
