------------------------------ MODULE IoQueue -------------------------------
(* The key table of pjlib's select ioqueue, as BlmIoqueue uses it: keys are  *)
(* pre-allocated, an unregistered key lives on until the poll that holds     *)
(* events for it has dispatched them, and then rests in the closing list for *)
(* PJ_IOQUEUE_KEY_FREE_DELAY before it can be handed out again.              *)
(* The operators map a table to the table an ioqueue call leaves behind; the *)
(* module that owns the table composes them in the order of the calls.       *)
EXTENDS Naturals, FiniteSets

CONSTANTS
    Keys,              \* the keys pj_ioqueue_create allocates
    Tcps,              \* identities of PjTcp objects (user_data of a key)
    NoTcp              \* no object

ASSUME NoTcpAssumption == NoTcp \notin Tcps

(* "expired" is the closing list again, once free_time has passed.           *)
Places == {"free", "active", "closing", "expired"}

KeyRecord == [where : Places, closing : BOOLEAN, ref : Nat,
              user : Tcps \cup {NoTcp}, connecting : BOOLEAN,
              reading : BOOLEAN, writing : BOOLEAN]

FreshKey == [where |-> "free", closing |-> FALSE, ref |-> 0, user |-> NoTcp,
             connecting |-> FALSE, reading |-> FALSE, writing |-> FALSE]

(* pj_ioqueue_create: every key is in the free list.                         *)
CreatedTable == [k \in Keys |-> FreshKey]

Registered(K, k) == K[k].where = "active" /\ ~K[k].closing

FreeKeys(K) == {k \in Keys : K[k].where = "free"}

(* scan_closing_keys: what has waited long enough comes back.                *)
ScanClosing(K) ==
    [k \in Keys |-> IF K[k].where = "expired"
                    THEN [K[k] EXCEPT !.where = "free"] ELSE K[k]]

(* pj_ioqueue_register_sock and pj_ioqueue_set_user_data for every object of *)
(* DOMAIN assign, followed by pj_ioqueue_connect: only a connect that is     *)
(* still in progress (outcome "pending") is watched; one that succeeded or   *)
(* failed on the spot just returns.                                          *)
RegisterAll(K, assign, outcome) ==
    [k \in Keys |->
        IF \E t \in DOMAIN assign : assign[t] = k
        THEN LET t == CHOOSE u \in DOMAIN assign : assign[u] = k
             IN  [FreshKey EXCEPT !.where = "active", !.ref = 1, !.user = t,
                                  !.connecting = (outcome[t] = "pending")]
        ELSE K[k]]

(* increment_counter for the keys of a batch of events, once per event.      *)
Bit(b) == IF b THEN 1 ELSE 0
CountEvents(B, k) == Bit(<<k, "write">> \in B) + Bit(<<k, "read">> \in B)
                                               + Bit(<<k, "except">> \in B)
AddRefs(K, B) ==
    [k \in Keys |-> [K[k] EXCEPT !.ref = @ + CountEvents(B, k)]]

(* decrement_counter.  A key whose counter reaches 0 goes to the closing     *)
(* list; nothing reads its other fields until it is initialised again, and   *)
(* they are reset here.                                                      *)
DropRef(K, ks) ==
    [k \in Keys |->
        IF k \notin ks THEN K[k]
        ELSE IF K[k].ref = 1
             THEN [FreshKey EXCEPT !.where = "closing", !.closing = K[k].closing]
             ELSE [K[k] EXCEPT !.ref = @ - 1]]

UnregisterKeepOpen(K, ks) == DropRef(K, ks)

(* pj_ioqueue_unregister for every key of ks: the key is marked closing      *)
(* before its reference is dropped.                                          *)
Unregister(K, ks) ==
    DropRef([k \in Keys |-> IF k \in ks THEN [K[k] EXCEPT !.closing = TRUE]
                                        ELSE K[k]], ks)

(* What select can report for a key: the fd sets hold a key while a connect, *)
(* a read or a write is pending on it, and unregistering clears its bits.    *)
Watched(K) ==
    {e \in Keys \X {"write", "read", "except"} :
        /\ Registered(K, e[1])
        /\ CASE e[2] = "write"  -> K[e[1]].connecting \/ K[e[1]].writing
             [] e[2] = "read"   -> K[e[1]].reading
             [] e[2] = "except" -> K[e[1]].connecting}
=============================================================================
