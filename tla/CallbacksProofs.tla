--------------------------- MODULE CallbacksProofs --------------------------
(* Proofs about Callbacks, for any objects, message types, downloads and any *)
(* number of callbacks: what a walk over a callback list calls while the     *)
(* callbacks register and remove, and what the lists hold.                   *)
EXTENDS Callbacks, Integers, FiniteSetTheorems, TLAPS

-----------------------------------------------------------------------------
(* One pass of removeAllCallbackFromList, for every container and every      *)
(* choice of the elements that stay.                                         *)

(* How many elements stay up to position i, i among them. *)
Rank(I, i) == Cardinality({j \in I : j <= i})

(* The elements that stay are counted off one by one: the rank of each is a  *)
(* place of the container afterwards, and a later one has a higher rank.     *)
LEMMA RankFacts ==
    ASSUME NEW I \in SUBSET Nat, IsFiniteSet(I)
    PROVE  /\ Cardinality(I) \in Nat
           /\ \A i \in I : Rank(I, i) \in 1..Cardinality(I)
           /\ \A i, j \in I : i < j => Rank(I, i) < Rank(I, j)
<1>1. Cardinality(I) \in Nat
    BY FS_CardinalityType
<1>2. ASSUME NEW i \in I PROVE Rank(I, i) \in 1..Cardinality(I)
    <2> DEFINE U == {j \in I : j <= i}
    <2>1. IsFiniteSet(U) /\ Cardinality(U) <= Cardinality(I)
        BY FS_Subset
    <2>2. U # {}
        OBVIOUS
    <2>3. Cardinality(U) \in Nat
        BY <2>1, FS_CardinalityType
    <2>4. Cardinality(U) # 0
        BY <2>1, <2>2, FS_EmptySet
    <2> HIDE DEF U
    <2>5. Cardinality(U) \in 1..Cardinality(I)
        BY <1>1, <2>1, <2>3, <2>4
    <2> QED BY <2>5 DEF Rank, U
<1>3. ASSUME NEW i \in I, NEW j \in I, i < j PROVE Rank(I, i) < Rank(I, j)
    <2> DEFINE U == {l \in I : l <= i}
    <2> DEFINE V == {l \in I : l <= j}
    <2>1. U \in SUBSET V /\ U # V
        <3>1. j \in V /\ j \notin U
            BY <1>3
        <3>2. ASSUME NEW l \in U PROVE l \in V
            <4>1. l \in Nat /\ i \in Nat /\ j \in Nat
                OBVIOUS
            <4> QED BY <1>3, <4>1
        <3> QED BY <3>1, <3>2
    <2>2. IsFiniteSet(U) /\ IsFiniteSet(V)
        BY FS_Subset
    <2>3. Cardinality(U) \in Nat /\ Cardinality(V) \in Nat
        BY <2>2, FS_CardinalityType
    <2> HIDE DEF U, V
    <2>4. Cardinality(U) <= Cardinality(V) /\ Cardinality(V) # Cardinality(U)
        BY <2>1, <2>2, FS_Subset
    <2>5. Cardinality(U) < Cardinality(V)
        BY <2>3, <2>4
    <2> QED BY <2>5 DEF Rank, U, V
<1> QED BY <1>1, <1>2, <1>3

(* Every place 1..size gets an element, the one of that rank: the ranks are  *)
(* as many as the elements, so none of the places is left out.               *)
LEMMA NthKeptFacts ==
    ASSUME NEW I \in SUBSET Nat, IsFiniteSet(I)
    PROVE  /\ \A k \in 1..Cardinality(I) : NthKept(I, k) \in I /\ Rank(I, NthKept(I, k)) = k
           /\ \A i \in I : NthKept(I, Rank(I, i)) = i
           /\ \A k, l \in 1..Cardinality(I) : k < l => NthKept(I, k) < NthKept(I, l)
<1> DEFINE C == 1..Cardinality(I)
<1> DEFINE f == [i \in I |-> Rank(I, i)]
<1>1. Cardinality(I) \in Nat
    BY RankFacts
<1>2. IsFiniteSet(C) /\ Cardinality(C) = Cardinality(I)
    BY <1>1, FS_Interval
<1>3. \A i, j \in I : Rank(I, i) = Rank(I, j) => i = j
    <2> SUFFICES ASSUME NEW i \in I, NEW j \in I, Rank(I, i) = Rank(I, j), i # j
                 PROVE  FALSE
        OBVIOUS
    <2>1. Rank(I, i) \in Int /\ Rank(I, j) \in Int
        BY <1>1, RankFacts
    <2>2. i < j \/ j < i
        OBVIOUS
    <2>3. Rank(I, i) < Rank(I, j) \/ Rank(I, j) < Rank(I, i)
        BY <2>2, RankFacts
    <2> QED BY <2>1, <2>3
<1>4. f \in Injection(I, C)
    BY <1>3, RankFacts DEF Injection, IsInjective
<1>5. f \in Surjection(I, C)
    BY <1>2, <1>4, FS_Injection
<1>6. ASSUME NEW k \in C PROVE \E i \in I : Rank(I, i) = k
    BY <1>5 DEF Surjection
<1>7. ASSUME NEW k \in C PROVE NthKept(I, k) \in I /\ Rank(I, NthKept(I, k)) = k
    BY <1>6, <1>7 DEF NthKept, Rank
<1>8. ASSUME NEW i \in I PROVE NthKept(I, Rank(I, i)) = i
    <2>1. Rank(I, i) \in C
        BY RankFacts
    <2> QED BY <1>3, <1>7, <2>1
<1>9. ASSUME NEW k \in C, NEW l \in C, k < l PROVE NthKept(I, k) < NthKept(I, l)
    <2> DEFINE i == NthKept(I, k)
    <2> DEFINE j == NthKept(I, l)
    <2>1. i \in I /\ j \in I /\ Rank(I, i) = k /\ Rank(I, j) = l
        BY <1>7
    <2> HIDE DEF i, j
    <2>2. i \in Nat /\ j \in Nat
        BY <2>1
    <2>3. ~(j < i) /\ i # j
        <3>1. j < i => l < k
            BY <2>1, RankFacts
        <3>2. i = j => l = k
            BY <2>1
        <3>3. k \in Int /\ l \in Int
            BY <1>1
        <3> QED BY <1>9, <3>1, <3>2, <3>3
    <2>4. i < j
        BY <2>2, <2>3
    <2> QED BY <2>4 DEF i, j
<1> QED BY <1>7, <1>8, <1>9

(* The pass moves elements towards the front only, and moves none of those   *)
(* before the first that goes.                                               *)
LEMMA NthKeptMovesForward ==
    ASSUME NEW n \in Nat, NEW I \in SUBSET (1..n)
    PROVE  /\ IsFiniteSet(I) /\ Cardinality(I) \in 0..n
           /\ \A k \in 1..Cardinality(I) : NthKept(I, k) \in k..n
           /\ \A m \in 0..n : 1..m \subseteq I =>
                 \A k \in 1..m : k \in 1..Cardinality(I) /\ NthKept(I, k) = k
<1>1. IsFiniteSet(1..n) /\ Cardinality(1..n) = n
    BY FS_Interval
<1>2. IsFiniteSet(I) /\ Cardinality(I) <= n
    BY <1>1, FS_Subset
<1>3. Cardinality(I) \in Nat
    BY <1>2, FS_CardinalityType
<1>4. I \in SUBSET Nat
    OBVIOUS
<1>5. ASSUME NEW i \in I PROVE Rank(I, i) <= i
    <2> DEFINE U == {j \in I : j <= i}
    <2>1. i \in Nat /\ U \in SUBSET (1..i)
        <3>1. \A j \in I : j \in Nat /\ 1 <= j
            OBVIOUS
        <3>2. ASSUME NEW j \in U PROVE j \in 1..i
            BY <3>1
        <3> QED BY <3>1, <3>2
    <2>2. IsFiniteSet(1..i) /\ Cardinality(1..i) = i
        BY <2>1, FS_Interval
    <2> HIDE DEF U
    <2>3. Cardinality(U) <= i
        BY <2>1, <2>2, FS_Subset
    <2> QED BY <2>3 DEF Rank, U
<1>6. ASSUME NEW k \in 1..Cardinality(I) PROVE NthKept(I, k) \in k..n
    <2>1. NthKept(I, k) \in I /\ Rank(I, NthKept(I, k)) = k
        BY <1>2, <1>4, NthKeptFacts
    <2>2. k <= NthKept(I, k)
        BY <1>5, <2>1
    <2>3. NthKept(I, k) \in 1..n
        BY <2>1
    <2> QED BY <1>3, <2>2, <2>3
<1>7. ASSUME NEW m \in 0..n, 1..m \subseteq I, NEW k \in 1..m
      PROVE  k \in 1..Cardinality(I) /\ NthKept(I, k) = k
    <2>1. k \in Nat /\ 1 <= k /\ k \in I
        BY <1>7
    <2>2. {j \in I : j <= k} = 1..k
        <3>1. \A j \in I : j \in Nat /\ 1 <= j
            OBVIOUS
        <3>2. \A j \in 1..k : j \in I /\ j <= k
            BY <1>7, <2>1
        <3>3. ASSUME NEW j \in I, j <= k PROVE j \in 1..k
            BY <2>1, <3>1, <3>3
        <3> QED BY <3>2, <3>3
    <2>3. Rank(I, k) = k
        <3>1. Cardinality(1..k) = k
            BY <2>1, FS_Interval
        <3> QED BY <2>2, <3>1 DEF Rank
    <2>4. Rank(I, k) \in 1..Cardinality(I) /\ NthKept(I, Rank(I, k)) = k
        BY <1>2, <1>4, <2>1, RankFacts, NthKeptFacts
    <2> QED BY <2>3, <2>4
<1> QED BY <1>2, <1>3, <1>6, <1>7

-----------------------------------------------------------------------------
(* One list.                                                                 *)

(* Newer callbacks and newer nodes come first. *)
Sorted(ls) ==
    \A i, j \in 1..Len(ls) : i < j => ls[j].cb < ls[i].cb /\ ls[j].node < ls[i].node

(* The list when the callbacks at the positions I stay. *)
Compact(ls, I) ==
    [k \in 1..Cardinality(I) |-> [node |-> ls[k].node, cb |-> ls[NthKept(I, k)].cb]]

(* g is the list when the callbacks at the positions I of ls stay; f tells   *)
(* where each of its m callbacks comes from.                                 *)
MovedUp(g, ls, I, m, f) ==
    /\ \A k \in 1..m : /\ g[k].node = ls[k].node /\ g[k].cb = ls[f[k]].cb
                       /\ f[k] \in I /\ k <= f[k]
    /\ \A k, j \in 1..m : k < j => f[k] < f[j]
    /\ \A i \in I : \E k \in 1..m : f[k] = i
    /\ \A p \in 0..Len(ls) : 1..p \subseteq I => p <= m /\ \A k \in 1..p : f[k] = k

(* Callbacks and nodes are numbered from 1. *)
LEMMA NodeFields ==
    /\ \A x \in Callbacks : x \in Nat /\ 1 <= x
    /\ \A e \in Node : e.node \in Callbacks /\ e.cb \in Callbacks
<1>1. \A x \in Callbacks : x \in Nat /\ 1 <= x
    BY CallbacksAssumption DEF Callbacks
<1>2. \A e \in Node : e.node \in Callbacks /\ e.cb \in Callbacks
    BY DEF Node
<1> QED BY <1>1, <1>2

(* The callbacks that stay move towards the front, in their order, and those *)
(* before the first that goes stay where they are.                           *)
LEMMA CompactMovesUp ==
    ASSUME NEW ls \in Seq(Node), NEW I \in SUBSET (1..Len(ls))
    PROVE  /\ Compact(ls, I) \in Seq(Node)
           /\ \E m \in 0..Len(ls) : \E f \in [1..m -> 1..Len(ls)] :
                 Len(Compact(ls, I)) = m /\ MovedUp(Compact(ls, I), ls, I, m, f)
<1> DEFINE n == Len(ls)
<1>1. n \in Nat /\ I \in SUBSET Nat
    OBVIOUS
<1>2. IsFiniteSet(I) /\ Cardinality(I) \in 0..n
    BY <1>1, NthKeptMovesForward
<1>3. PICK m \in 0..n : m = Cardinality(I)
    BY <1>2
<1>4. PICK f : f = [k \in 1..m |-> NthKept(I, k)]
    OBVIOUS
<1>5. \A k \in 1..m : f[k] = NthKept(I, k) /\ f[k] \in I /\ k <= f[k] /\ f[k] \in 1..n
    <2>1. \A k \in 1..m : NthKept(I, k) \in I
        BY <1>1, <1>2, <1>3, NthKeptFacts
    <2>2. \A k \in 1..m : NthKept(I, k) \in k..n
        BY <1>1, <1>3, NthKeptMovesForward
    <2> QED BY <1>3, <1>4, <2>1, <2>2
<1>6. f \in [1..m -> 1..n]
    BY <1>4, <1>5
<1>7. PICK g : g = [k \in 1..m |-> [node |-> ls[k].node, cb |-> ls[f[k]].cb]]
    OBVIOUS
<1>8. Compact(ls, I) = g
    BY <1>3, <1>4, <1>7 DEF Compact
<1>9. g \in Seq(Node) /\ Len(g) = m
    <2>1. \A k \in 1..m : k \in 1..n
        BY <1>1
    <2>2. \A k \in 1..m : [node |-> ls[k].node, cb |-> ls[f[k]].cb] \in Node
        <3>1. \A i \in 1..n : ls[i].node \in Callbacks /\ ls[i].cb \in Callbacks
            BY NodeFields
        <3> QED BY <1>5, <2>1, <3>1 DEF Node
    <2>3. g \in [1..m -> Node]
        BY <1>7, <2>2
    <2> QED BY <1>1, <2>3
<1>10. \A k \in 1..m : g[k].node = ls[k].node /\ g[k].cb = ls[f[k]].cb
    BY <1>7
<1>11. \A k, j \in 1..m : k < j => f[k] < f[j]
    BY <1>1, <1>2, <1>3, <1>5, NthKeptFacts
<1>12. \A i \in I : \E k \in 1..m : f[k] = i
    <2>1. \A i \in I : Rank(I, i) \in 1..m /\ NthKept(I, Rank(I, i)) = i
        BY <1>1, <1>2, <1>3, NthKeptFacts, RankFacts
    <2> QED BY <1>5, <2>1
<1>13. ASSUME NEW p \in 0..n, 1..p \subseteq I PROVE p <= m /\ \A k \in 1..p : f[k] = k
    <2>1. \A k \in 1..p : k \in 1..m /\ NthKept(I, k) = k
        BY <1>1, <1>3, <1>13, NthKeptMovesForward
    <2>2. p = 0 \/ p \in 1..p
        OBVIOUS
    <2>3. p <= m
        BY <1>1, <2>1, <2>2
    <2> QED BY <1>5, <2>1, <2>3
<1>14. MovedUp(g, ls, I, m, f)
    BY <1>5, <1>10, <1>11, <1>12, <1>13 DEF MovedUp
<1> QED BY <1>6, <1>8, <1>9, <1>14

(* The list stays in order and holds the callbacks that stay, on nodes it    *)
(* had.                                                                      *)
LEMMA CompactList ==
    ASSUME NEW ls \in Seq(Node), NEW I \in SUBSET (1..Len(ls))
    PROVE  /\ Compact(ls, I) \in Seq(Node)
           /\ Sorted(ls) => Sorted(Compact(ls, I))
           /\ \A k \in 1..Len(Compact(ls, I)) : \E i \in I : Compact(ls, I)[k].cb = ls[i].cb
           /\ \A i \in I : \E k \in 1..Len(Compact(ls, I)) : Compact(ls, I)[k].cb = ls[i].cb
           /\ \A k \in 1..Len(Compact(ls, I)) :
                 k \in 1..Len(ls) /\ Compact(ls, I)[k].node = ls[k].node
<1>1. PICK g : g = Compact(ls, I)
    OBVIOUS
<1>2. g \in Seq(Node)
    BY <1>1, CompactMovesUp
<1>2a. PICK m \in 0..Len(ls) : \E f \in [1..m -> 1..Len(ls)] :
            Len(g) = m /\ MovedUp(g, ls, I, m, f)
    BY <1>1, CompactMovesUp
<1>3. PICK f \in [1..m -> 1..Len(ls)] : Len(g) = m /\ MovedUp(g, ls, I, m, f)
    BY <1>2a
<1>4. \A k \in 1..m : k \in 1..Len(ls)
    OBVIOUS
<1>5. \A k \in 1..m : g[k].node = ls[k].node /\ g[k].cb = ls[f[k]].cb /\ f[k] \in I /\ f[k] \in 1..Len(ls)
    BY <1>3 DEF MovedUp
<1>6. ASSUME Sorted(ls) PROVE Sorted(g)
    <2>1. ASSUME NEW i \in 1..m, NEW j \in 1..m, i < j
          PROVE  g[j].cb < g[i].cb /\ g[j].node < g[i].node
        <3>1. f[i] < f[j]
            BY <1>3, <2>1 DEF MovedUp
        <3> QED BY <1>4, <1>5, <1>6, <2>1, <3>1 DEF Sorted
    <2> QED BY <1>3, <2>1 DEF Sorted
<1>7. \A i \in I : \E k \in 1..m : g[k].cb = ls[i].cb
    BY <1>3, <1>5, SMTT(30) DEF MovedUp
<1> QED BY <1>1, <1>2, <1>3, <1>4, <1>5, <1>6, <1>7

-----------------------------------------------------------------------------
(* One walk: the iterator on a node of the list, the callbacks behind it     *)
(* called or to be passed over, those ahead of it still to come.             *)
Ahead(ls, k) == {ls[j].cb : j \in (k + 1)..Len(ls)}

(* What is ahead of the iterator is older than the last callback called. *)
OnTrack(ls, node, last) ==
    \A k \in 1..Len(ls) : ls[k].node = node =>
        \A j \in (k + 1)..Len(ls) : ls[j].cb < last

(* The iterator has its node, and what is due was called or is ahead. *)
NoneMissed(ls, node, done, due) ==
    \E k \in 1..Len(ls) : ls[k].node = node /\ due \subseteq done \cup Ahead(ls, k)

(* A node stands at one position. *)
LEMMA OnePosition ==
    ASSUME NEW ls \in Seq(Node), Sorted(ls),
           NEW i \in 1..Len(ls), NEW j \in 1..Len(ls), ls[i].node = ls[j].node
    PROVE  i = j
<1>1. ls[i].node \in Nat /\ ls[j].node \in Nat
    BY NodeFields
<1>2. i < j => ls[j].node < ls[i].node
    BY DEF Sorted
<1>3. j < i => ls[i].node < ls[j].node
    BY DEF Sorted
<1> QED BY <1>1, <1>2, <1>3

(* A walk that begins, on the first node. *)
LEMMA WalkBegins ==
    ASSUME NEW ls \in Seq(Node), Sorted(ls), ls # <<>>
    PROVE  /\ OnTrack(ls, ls[1].node, ls[1].cb)
           /\ NoneMissed(ls, ls[1].node, {ls[1].cb}, {ls[k].cb : k \in 1..Len(ls)})
<1>1. 1 \in 1..Len(ls) /\ Len(ls) \in Nat
    OBVIOUS
<1>2. OnTrack(ls, ls[1].node, ls[1].cb)
    <2> SUFFICES ASSUME NEW k \in 1..Len(ls), ls[k].node = ls[1].node,
                        NEW j \in (k + 1)..Len(ls)
                 PROVE  ls[j].cb < ls[1].cb
        BY DEF OnTrack
    <2>1. k = 1
        BY <1>1, OnePosition
    <2>2. j \in 1..Len(ls) /\ 1 < j
        BY <1>1, <2>1
    <2> QED BY <1>1, <2>2 DEF Sorted
<1>3. NoneMissed(ls, ls[1].node, {ls[1].cb}, {ls[k].cb : k \in 1..Len(ls)})
    <2>1. \A k \in 1..Len(ls) : k = 1 \/ k \in (1 + 1)..Len(ls)
        BY <1>1
    <2>2. {ls[k].cb : k \in 1..Len(ls)} \subseteq {ls[1].cb} \cup Ahead(ls, 1)
        BY <2>1 DEF Ahead
    <2> QED BY <1>1, <2>2 DEF NoneMissed
<1> QED BY <1>2, <1>3

(* The iterator moves on to the next node, whose callback is called. *)
LEMMA WalkGoesOn ==
    ASSUME NEW ls \in Seq(Node), Sorted(ls), NEW k \in 1..Len(ls), k # Len(ls),
           NEW last, OnTrack(ls, ls[k].node, last), NEW done, NEW due
    PROVE  /\ k + 1 \in 1..Len(ls)
           /\ ls[k + 1].cb < last
           /\ OnTrack(ls, ls[k + 1].node, ls[k + 1].cb)
           /\ NoneMissed(ls, ls[k].node, done, due) =>
                 NoneMissed(ls, ls[k + 1].node, done \cup {ls[k + 1].cb}, due)
<1>1. k \in Nat /\ Len(ls) \in Nat /\ k + 1 \in 1..Len(ls) /\ k + 1 \in (k + 1)..Len(ls)
    OBVIOUS
<1>2. ls[k + 1].cb < last
    BY <1>1 DEF OnTrack
<1>3. OnTrack(ls, ls[k + 1].node, ls[k + 1].cb)
    <2> SUFFICES ASSUME NEW i \in 1..Len(ls), ls[i].node = ls[k + 1].node,
                        NEW j \in (i + 1)..Len(ls)
                 PROVE  ls[j].cb < ls[k + 1].cb
        BY DEF OnTrack
    <2>1. i = k + 1
        BY <1>1, OnePosition
    <2>2. j \in 1..Len(ls) /\ k + 1 < j
        BY <1>1, <2>1
    <2> QED BY <1>1, <2>2 DEF Sorted
<1>4. ASSUME NoneMissed(ls, ls[k].node, done, due)
      PROVE  NoneMissed(ls, ls[k + 1].node, done \cup {ls[k + 1].cb}, due)
    <2>1. PICK i \in 1..Len(ls) : ls[i].node = ls[k].node /\ due \subseteq done \cup Ahead(ls, i)
        BY <1>4 DEF NoneMissed
    <2>2. i = k
        BY <2>1, OnePosition
    <2>3. Ahead(ls, k) \subseteq {ls[k + 1].cb} \cup Ahead(ls, k + 1)
        <3>1. \A j \in (k + 1)..Len(ls) : j = k + 1 \/ j \in ((k + 1) + 1)..Len(ls)
            BY <1>1
        <3> QED BY <3>1 DEF Ahead
    <2>4. due \subseteq (done \cup {ls[k + 1].cb}) \cup Ahead(ls, k + 1)
        BY <2>1, <2>2, <2>3
    <2> QED BY <1>1, <2>4 DEF NoneMissed
<1> QED BY <1>1, <1>2, <1>3, <1>4

(* A walk that ends behind the last node. *)
LEMMA WalkEnds ==
    ASSUME NEW ls \in Seq(Node), Sorted(ls), NEW k \in 1..Len(ls), k = Len(ls),
           NEW done, NEW due, NoneMissed(ls, ls[k].node, done, due)
    PROVE  due \subseteq done
<1>1. PICK i \in 1..Len(ls) : ls[i].node = ls[k].node /\ due \subseteq done \cup Ahead(ls, i)
    BY DEF NoneMissed
<1>2. i = k
    BY <1>1, OnePosition
<1>3. (Len(ls) + 1)..Len(ls) = {}
    OBVIOUS
<1>4. Ahead(ls, k) = {}
    BY <1>3 DEF Ahead
<1> QED BY <1>1, <1>2, <1>4

(* A callback is registered during a walk: it goes to the front. *)
LEMMA WalkSurvivesAdd ==
    ASSUME NEW ls \in Seq(Node), NEW e \in Node, NEW node, e.node # node,
           NEW last, NEW done, NEW due
    PROVE  /\ OnTrack(ls, node, last) => OnTrack(<<e>> \o ls, node, last)
           /\ NoneMissed(ls, node, done, due) => NoneMissed(<<e>> \o ls, node, done, due)
<1>1. PICK g : g = <<e>> \o ls
    OBVIOUS
<1>2. /\ Len(g) = Len(ls) + 1 /\ Len(ls) \in Nat /\ g[1] = e
      /\ \A i \in 1..Len(ls) : g[i + 1] = ls[i]
    BY <1>1
<1>3. ASSUME NEW k \in 1..Len(g), g[k].node = node
      PROVE  k - 1 \in 1..Len(ls) /\ ls[k - 1].node = node
    <2>1. k # 1
        BY <1>2, <1>3
    <2>2. k - 1 \in 1..Len(ls) /\ (k - 1) + 1 = k
        BY <1>2, <2>1
    <2> QED BY <1>2, <1>3, <2>2
<1>4. ASSUME OnTrack(ls, node, last) PROVE OnTrack(g, node, last)
    <2> SUFFICES ASSUME NEW k \in 1..Len(g), g[k].node = node, NEW j \in (k + 1)..Len(g)
                 PROVE  g[j].cb < last
        BY DEF OnTrack
    <2>1. k - 1 \in 1..Len(ls) /\ ls[k - 1].node = node
        BY <1>3
    <2>2. j - 1 \in ((k - 1) + 1)..Len(ls) /\ j - 1 \in 1..Len(ls) /\ (j - 1) + 1 = j
        BY <1>2, <2>1
    <2>3. ls[j - 1].cb < last
        BY <1>4, <2>1, <2>2 DEF OnTrack
    <2> QED BY <1>2, <2>2, <2>3
<1>5. ASSUME NoneMissed(ls, node, done, due) PROVE NoneMissed(g, node, done, due)
    <2>1. PICK k \in 1..Len(ls) : ls[k].node = node /\ due \subseteq done \cup Ahead(ls, k)
        BY <1>5 DEF NoneMissed
    <2>2. k + 1 \in 1..Len(g) /\ g[k + 1].node = node
        BY <1>2, <2>1
    <2>3. ASSUME NEW j \in (k + 1)..Len(ls) PROVE ls[j].cb \in Ahead(g, k + 1)
        <3>1. j \in 1..Len(ls) /\ j + 1 \in ((k + 1) + 1)..Len(g)
            BY <1>2
        <3> QED BY <1>2, <3>1 DEF Ahead
    <2>4. Ahead(ls, k) \subseteq Ahead(g, k + 1)
        BY <2>3 DEF Ahead
    <2> QED BY <2>1, <2>2, <2>4 DEF NoneMissed
<1> QED BY <1>1, <1>4, <1>5

(* Callbacks are removed during a walk.  What comes up behind the iterator's *)
(* node is older than what was there; and if none of the callbacks up to the *)
(* iterator's node goes, only the removed ones are not called.               *)
LEMMA WalkSurvivesRemoval ==
    ASSUME NEW ls \in Seq(Node), Sorted(ls), NEW I \in SUBSET (1..Len(ls)), NEW node,
           NEW last, NEW done, NEW due, NEW theirs,
           \A j \in 1..Len(ls) : j \notin I => ls[j].cb \in theirs
    PROVE  /\ OnTrack(ls, node, last) => OnTrack(Compact(ls, I), node, last)
           /\ /\ NoneMissed(ls, node, done, due)
              /\ \A k \in 1..Len(ls) : ls[k].node = node => 1..k \subseteq I
              => NoneMissed(Compact(ls, I), node, done, due \ theirs)
<1>1. PICK g : g = Compact(ls, I)
    OBVIOUS
<1>2a. PICK m \in 0..Len(ls) : \E f \in [1..m -> 1..Len(ls)] :
            Len(g) = m /\ MovedUp(g, ls, I, m, f)
    BY <1>1, CompactMovesUp
<1>2. PICK f \in [1..m -> 1..Len(ls)] : Len(g) = m /\ MovedUp(g, ls, I, m, f)
    BY <1>2a
<1>3. m \in Nat /\ Len(ls) \in Nat /\ \A k \in 1..m : k \in 1..Len(ls)
    OBVIOUS
<1>4. \A k \in 1..m : /\ g[k].node = ls[k].node /\ g[k].cb = ls[f[k]].cb
                      /\ f[k] \in I /\ f[k] \in 1..Len(ls) /\ k <= f[k]
    BY <1>2 DEF MovedUp
<1>5. ASSUME OnTrack(ls, node, last) PROVE OnTrack(g, node, last)
    <2> SUFFICES ASSUME NEW k \in 1..m, g[k].node = node, NEW j \in (k + 1)..m
                 PROVE  g[j].cb < last
        BY <1>2 DEF OnTrack
    <2>1. k \in 1..Len(ls) /\ ls[k].node = node
        BY <1>3, <1>4
    <2>2. j \in 1..m
        BY <1>3
    <2>3. f[j] \in (k + 1)..Len(ls)
        BY <1>3, <1>4, <2>1, <2>2
    <2>4. ls[f[j]].cb < last
        BY <1>5, <2>1, <2>3 DEF OnTrack
    <2> QED BY <1>4, <2>2, <2>4
<1>6. ASSUME NoneMissed(ls, node, done, due),
             \A k \in 1..Len(ls) : ls[k].node = node => 1..k \subseteq I
      PROVE  NoneMissed(g, node, done, due \ theirs)
    <2>1. PICK k \in 1..Len(ls) : ls[k].node = node /\ due \subseteq done \cup Ahead(ls, k)
        BY <1>6 DEF NoneMissed
    <2>2. 1..k \subseteq I /\ k \in 0..Len(ls) /\ k \in 1..k
        BY <1>3, <1>6, <2>1
    <2>3. k <= m /\ f[k] = k
        BY <1>2, <2>2 DEF MovedUp
    <2>4. k \in 1..m /\ g[k].node = node
        BY <1>3, <1>4, <2>1, <2>3
    <2>5. ASSUME NEW j \in (k + 1)..Len(ls), ls[j].cb \notin theirs
          PROVE  ls[j].cb \in Ahead(g, k)
        <3>1. j \in 1..Len(ls) /\ j \in I
            BY <1>3, <2>5
        <3>2. PICK i \in 1..m : f[i] = j
            BY <1>2, <3>1 DEF MovedUp
        <3>3. i # k
            BY <1>3, <2>3, <3>2
        <3>4. i < k => f[i] < f[k]
            BY <1>2, <2>4 DEF MovedUp
        <3>5. i \in (k + 1)..m
            BY <1>3, <2>3, <2>4, <3>2, <3>3, <3>4
        <3> QED BY <1>2, <1>4, <3>2, <3>5 DEF Ahead
    <2>6. due \ theirs \subseteq done \cup Ahead(g, k)
        BY <2>1, <2>5, SMTT(30) DEF Ahead
    <2> QED BY <1>2, <2>4, <2>6 DEF NoneMissed
<1> QED BY <1>1, <1>5, <1>6

-----------------------------------------------------------------------------
(* The inductive invariant.                                                  *)

RunSet ==
    [list : Lists \cup {"none"}, node : Nat, called : Seq(Callbacks),
     start : SUBSET Callbacks, removed : SUBSET Callbacks,
     shifted : BOOLEAN, ended : BOOLEAN]

RunOK == run \in RunSet

(* Every list has the newest first; callbacks and nodes carry numbers that   *)
(* were given out.                                                           *)
ListsSorted ==
    \A l \in Lists :
        /\ Sorted(lists[l])
        /\ \A k \in 1..Len(lists[l]) : lists[l][k].node <= made /\ lists[l][k].cb <= made

(* No callback is in two lists, and none belongs to an object that is gone. *)
ListsApart ==
    \A l1, l2 \in Lists : l1 # l2 =>
        \A i \in 1..Len(lists[l1]), j \in 1..Len(lists[l2]) : lists[l1][i].cb # lists[l2][j].cb

ListsAlive ==
    \A l \in Lists : \A k \in 1..Len(lists[l]) : target[lists[l][k].cb] \notin dead

(* A download has called back exactly when its object is deleted. *)
CalledOnce == \A r \in Requests : http[r].calls = (IF http[r].st = "deleted" THEN 1 ELSE 0)

(* The walk under way: L are the lists, n the callbacks made, r the walk. *)
WalkAt(L, n, r) ==
    /\ r.list \in Lists
    /\ r.node <= n
    /\ Len(r.called) # 0
    /\ OnTrack(L[r.list], r.node, r.called[Len(r.called)])
    /\ ~r.shifted => NoneMissed(L[r.list], r.node, ToSet(r.called), r.start \ r.removed)

WalkOK == Walking => WalkAt(lists, made, run)

(* A call into a destroyed object comes from a download only. *)
DeadByDownload ==
    fault = "dead object" => \E r \in Requests : http[r].st = "started" /\ http[r].obj \in dead

IInv ==
    /\ TypeOK /\ RunOK /\ CalledOnce
    /\ ListsSorted /\ ListsApart /\ ListsAlive /\ EntriesInUse
    /\ WalkOK /\ NewestFirstOnce /\ NonePassedOver /\ IteratorLostOnlyByShift
    /\ DeadByDownload

-----------------------------------------------------------------------------
(* What the steps do to the lists.                                           *)

Staying(ls, o) == {k \in 1..Len(ls) : target[ls[k].cb] # o}

(* removeAllCallbackFromList is the compaction of a list. *)
LEMMA RemovalCompacts ==
    ASSUME NEW ls \in Seq(Node), NEW o
    PROVE  removeAllCallbackFromList(ls, o) = Compact(ls, Staying(ls, o))
<1>1. PICK I : I = Staying(ls, o)
    OBVIOUS
<1>2. I = {k \in DOMAIN ls : target[ls[k].cb] # o}
    BY <1>1 DEF Staying
<1>3. PICK c : c = CloseUp(ls, I)
    OBVIOUS
<1>4. DOMAIN c = 1..Cardinality(I) /\ \A k \in 1..Cardinality(I) : c[k] = ls[NthKept(I, k)]
    BY <1>3 DEF CloseUp
<1>5. removeAllCallbackFromList(ls, o) = [k \in DOMAIN c |-> [node |-> ls[k].node, cb |-> c[k].cb]]
    BY <1>2, <1>3 DEF removeAllCallbackFromList
<1> QED BY <1>1, <1>4, <1>5 DEF Compact

(* The three ways the lists change. *)
Added(l, o) ==
    /\ made < MaxCallbacks /\ o \notin dead
    /\ made' = made + 1 /\ target' = Append(target, o)
    /\ lists' = [lists EXCEPT ![l] = <<[node |-> made + 1, cb |-> made + 1]>> \o @]
    /\ msgMap' = msgMap \cup ({l} \cap MsgTypes)
    /\ dead' = dead

Removed(o) ==
    /\ \A l \in Lists : lists'[l] = Compact(lists[l], Staying(lists[l], o))
    /\ lists' = [l \in Lists |-> lists'[l]]
    /\ msgMap' = {m \in msgMap : lists'[m] # <<>>}
    /\ target' = target /\ made' = made

Emptied ==
    /\ lists' = [l \in Lists |-> <<>>] /\ msgMap' = {}
    /\ target' = target /\ made' = made /\ dead' = dead

(* Every step adds a callback, removes an object's callbacks, empties the    *)
(* lists, or leaves them alone.                                              *)
LEMMA ListSteps ==
    ASSUME TypeOK, [Next]_vars
    PROVE  \/ \E l \in Lists, o \in Objs : Added(l, o)
           \/ \E o \in Objs : Removed(o) /\ dead' \subseteq dead \cup {o} /\ dead \subseteq dead'
           \/ Emptied
           \/ UNCHANGED <<listVars, dead>>
<1>1. ASSUME NEW o \in Objs, Removal(o) PROVE Removed(o)
    <2>1. \A l \in Lists : lists[l] \in Seq(Node)
        BY DEF TypeOK
    <2>2. lists' = [l \in Lists |-> removeAllCallbackFromList(lists[l], o)]
        BY <1>1 DEF Removal
    <2>3. \A l \in Lists : lists'[l] = Compact(lists[l], Staying(lists[l], o))
        BY <2>1, <2>2, RemovalCompacts
    <2>4. lists' = [l \in Lists |-> lists'[l]]
        BY <2>2
    <2>5. msgMap' = Entries(lists')
        BY <1>1 DEF Removal
    <2>6. msgMap' = {m \in msgMap : lists'[m] # <<>>}
        BY <2>5 DEF Entries
    <2> QED BY <1>1, <2>3, <2>4, <2>6 DEF Removal, Removed
<1>2. ASSUME NEW o \in Objs, RemoveObjCallbacks(o)
      PROVE  Removed(o) /\ dead' = dead
    BY <1>1, <1>2 DEF RemoveObjCallbacks
<1>3. ASSUME NEW o \in Objs, DestroyObject(o)
      PROVE  Removed(o) /\ dead' = dead \cup {o}
    BY <1>1, <1>3 DEF DestroyObject
<1>4. ASSUME NEW l \in Lists, NEW o \in Objs, Add(l, o) PROVE Added(l, o)
    BY <1>4 DEF Add, Added
<1>5. CASE DestroyClient
    BY <1>5 DEF DestroyClient, Emptied
<1>6. ASSUME NEW l \in Lists, Dispatch(l) PROVE UNCHANGED <<listVars, dead>>
    BY <1>6 DEF Dispatch
<1>7. ASSUME ReturnOk \/ ReturnError PROVE UNCHANGED <<listVars, dead>>
    BY <1>7 DEF ReturnOk, ReturnError
<1>8. ASSUME NEW r \in Requests, NEW o \in Objs, Wget(r, o) PROVE UNCHANGED <<listVars, dead>>
    BY <1>8 DEF Wget
<1>9. ASSUME NEW r \in Requests, on_data_read(r) PROVE UNCHANGED <<listVars, dead>>
    BY <1>9 DEF on_data_read
<1>10. ASSUME NEW r \in Requests, NEW status \in {"ok", "error"}, on_complete(r, status)
       PROVE UNCHANGED <<listVars, dead>>
    BY <1>10 DEF on_complete
<1>11. CASE UNCHANGED vars
    BY <1>11 DEF vars, listVars
<1> QED BY <1>2, <1>3, <1>4, <1>5, <1>6, <1>7, <1>8, <1>9, <1>10, <1>11 DEF Next

(* The callback that is added is the newest. *)
LEMMA AddedList ==
    ASSUME NEW ls \in Seq(Node), Sorted(ls), NEW n \in Nat, n < MaxCallbacks,
           \A k \in 1..Len(ls) : ls[k].node <= n /\ ls[k].cb <= n,
           NEW e, e = [node |-> n + 1, cb |-> n + 1]
    PROVE  /\ e \in Node /\ <<e>> \o ls \in Seq(Node) /\ Sorted(<<e>> \o ls)
           /\ \A k \in 1..Len(<<e>> \o ls) :
                 \/ k = 1 /\ (<<e>> \o ls)[k] = e
                 \/ k - 1 \in 1..Len(ls) /\ (<<e>> \o ls)[k] = ls[k - 1]
           /\ Len(<<e>> \o ls) # 0
<1>1. PICK g : g = <<e>> \o ls
    OBVIOUS
<1>2. e \in Node
    <2>1. n + 1 \in Callbacks
        BY CallbacksAssumption DEF Callbacks
    <2> QED BY <2>1 DEF Node
<1>3. /\ g \in Seq(Node) /\ Len(g) = Len(ls) + 1 /\ Len(ls) \in Nat /\ g[1] = e
      /\ \A i \in 1..Len(ls) : g[i + 1] = ls[i]
    BY <1>1, <1>2
<1>4. ASSUME NEW k \in 1..Len(g)
      PROVE  \/ k = 1 /\ g[k] = e
             \/ k - 1 \in 1..Len(ls) /\ g[k] = ls[k - 1]
    <2>1. k # 1 => k - 1 \in 1..Len(ls) /\ (k - 1) + 1 = k
        BY <1>3
    <2> QED BY <1>3, <2>1
<1>5. Sorted(g)
    <2> SUFFICES ASSUME NEW i \in 1..Len(g), NEW j \in 1..Len(g), i < j
                 PROVE  g[j].cb < g[i].cb /\ g[j].node < g[i].node
        BY DEF Sorted
    <2>1. j # 1 /\ j - 1 \in 1..Len(ls) /\ g[j] = ls[j - 1]
        BY <1>3, <1>4
    <2>2. CASE i = 1
        <3>1. e.cb = n + 1 /\ e.node = n + 1
            OBVIOUS
        <3>2. ls[j - 1].node <= n /\ ls[j - 1].cb <= n
            BY <2>1
        <3>3. ls[j - 1] \in Node
            BY <2>1
        <3>4. ls[j - 1].node \in Nat /\ ls[j - 1].cb \in Nat
            BY <3>3, NodeFields
        <3> QED BY <1>3, <2>1, <2>2, <3>1, <3>2, <3>4
    <2>3. CASE i # 1
        <3>1. i - 1 \in 1..Len(ls) /\ g[i] = ls[i - 1]
            BY <1>4, <2>3
        <3>2. i - 1 < j - 1
            BY <1>3
        <3> QED BY <2>1, <3>1, <3>2 DEF Sorted
    <2> QED BY <2>2, <2>3
<1> QED BY <1>1, <1>2, <1>3, <1>4, <1>5

(* The lists stay sorted, apart and free of dead objects, and the map keeps  *)
(* an entry for exactly the lists in use.                                    *)
LEMMA ListsStep ==
    ASSUME IInv, [Next]_vars
    PROVE  /\ lists' \in [Lists -> Seq(Node)] /\ msgMap' \subseteq MsgTypes
           /\ target' \in Seq(Objs) /\ made' = Len(target') /\ made' \in 0..MaxCallbacks
           /\ ListsSorted' /\ ListsApart' /\ ListsAlive' /\ EntriesInUse'
<1>1. /\ lists \in [Lists -> Seq(Node)] /\ msgMap \subseteq MsgTypes
      /\ target \in Seq(Objs) /\ made = Len(target) /\ made \in 0..MaxCallbacks
      /\ MaxCallbacks \in Nat /\ MsgTypes \subseteq Lists
    BY CallbacksAssumption DEF IInv, TypeOK, Lists
<1>2. \A l \in Lists :
         /\ lists[l] \in Seq(Node) /\ Sorted(lists[l])
         /\ \A k \in 1..Len(lists[l]) : /\ lists[l][k].node <= made /\ lists[l][k].cb <= made
                                        /\ lists[l][k].cb \in 1..made
                                        /\ target[lists[l][k].cb] \notin dead
    <2>1. ASSUME NEW l \in Lists, NEW k \in 1..Len(lists[l])
          PROVE  lists[l][k].cb \in 1..made
        <3>1. lists[l][k] \in Node
            BY <1>1
        <3>2. lists[l][k].cb \in Nat /\ 1 <= lists[l][k].cb
            BY <3>1, NodeFields
        <3>3. lists[l][k].cb <= made
            BY DEF IInv, ListsSorted
        <3> QED BY <1>1, <3>2, <3>3
    <2> QED BY <1>1, <2>1 DEF IInv, ListsSorted, ListsAlive
<1>3. \A l1, l2 \in Lists : l1 # l2 =>
         \A i \in 1..Len(lists[l1]), j \in 1..Len(lists[l2]) : lists[l1][i].cb # lists[l2][j].cb
    BY DEF IInv, ListsApart
<1>4. \A m \in MsgTypes : m \in msgMap <=> lists[m] # <<>>
    BY <1>1 DEF IInv, EntriesInUse
<1>5. ASSUME NEW l \in Lists, NEW o \in Objs, Added(l, o)
      PROVE  /\ lists' \in [Lists -> Seq(Node)] /\ msgMap' \subseteq MsgTypes
             /\ target' \in Seq(Objs) /\ made' = Len(target') /\ made' \in 0..MaxCallbacks
             /\ ListsSorted' /\ ListsApart' /\ ListsAlive' /\ EntriesInUse'
    <2>1. made < MaxCallbacks /\ o \notin dead /\ made' = made + 1 /\ target' = Append(target, o)
        BY <1>5 DEF Added
    <2>2. /\ target' \in Seq(Objs) /\ made' = Len(target') /\ made' \in 0..MaxCallbacks
          /\ \A c \in 1..made : target'[c] = target[c]
          /\ target'[made + 1] = o
        BY <1>1, <2>1
    <2>3. PICK e : e = [node |-> made + 1, cb |-> made + 1]
        OBVIOUS
    <2>4. PICK g : g = <<e>> \o lists[l]
        OBVIOUS
    <2>5. made \in Nat
        BY <1>1
    <2>6. /\ e \in Node /\ g \in Seq(Node) /\ Sorted(g) /\ Len(g) # 0
          /\ \A k \in 1..Len(g) : \/ k = 1 /\ g[k] = e
                                  \/ k - 1 \in 1..Len(lists[l]) /\ g[k] = lists[l][k - 1]
        <3>1. PICK ls : ls = lists[l]
            OBVIOUS
        <3>2. /\ ls \in Seq(Node) /\ Sorted(ls)
              /\ \A k \in 1..Len(ls) : ls[k].node <= made /\ ls[k].cb <= made
            BY <1>2, <3>1
        <3>3. g = <<e>> \o ls /\ made < MaxCallbacks
            BY <2>1, <2>4, <3>1
        <3>4. /\ e \in Node /\ g \in Seq(Node) /\ Sorted(g) /\ Len(g) # 0
              /\ \A k \in 1..Len(g) : \/ k = 1 /\ g[k] = e
                                      \/ k - 1 \in 1..Len(ls) /\ g[k] = ls[k - 1]
            BY <2>3, <2>5, <3>2, <3>3, AddedList
        <3> QED BY <3>1, <3>4
    <2>7. lists' = [lists EXCEPT ![l] = g]
        BY <1>5, <2>3, <2>4 DEF Added
    <2>8. lists' \in [Lists -> Seq(Node)] /\ \A x \in Lists : lists'[x] = IF x = l THEN g ELSE lists[x]
        BY <1>1, <2>6, <2>7
    <2>9. e.node = made + 1 /\ e.cb = made + 1
        BY <2>3
    <2>10. \A k \in 1..Len(g) :
              /\ g[k].node <= made + 1 /\ g[k].cb <= made + 1
              /\ g[k].cb = made + 1 \/ \E i \in 1..Len(lists[l]) : g[k].cb = lists[l][i].cb
        <3>1. ASSUME NEW i \in 1..Len(lists[l])
              PROVE  lists[l][i].node <= made + 1 /\ lists[l][i].cb <= made + 1
            <4>1. lists[l][i] \in Node
                BY <1>1
            <4>2. lists[l][i].node \in Nat /\ lists[l][i].cb \in Nat
                BY <4>1, NodeFields
            <4>3. lists[l][i].node <= made /\ lists[l][i].cb <= made
                BY <1>2
            <4> QED BY <2>5, <4>2, <4>3
        <3>2. ASSUME NEW k \in 1..Len(g)
              PROVE  /\ g[k].node <= made + 1 /\ g[k].cb <= made + 1
                     /\ g[k].cb = made + 1 \/ \E i \in 1..Len(lists[l]) : g[k].cb = lists[l][i].cb
            <4>1. CASE k = 1 /\ g[k] = e
                BY <2>5, <2>9, <4>1
            <4>2. CASE k - 1 \in 1..Len(lists[l]) /\ g[k] = lists[l][k - 1]
                BY <3>1, <4>2
            <4> QED BY <2>6, <4>1, <4>2
        <3> QED BY <3>2
    <2>11. ASSUME NEW x \in Lists, NEW i \in 1..Len(lists[x])
           PROVE  /\ lists[x][i].node <= made + 1 /\ lists[x][i].cb <= made + 1
                  /\ lists[x][i].cb # made + 1
        <3>1. lists[x][i] \in Node
            BY <1>1
        <3>2. lists[x][i].node \in Nat /\ lists[x][i].cb \in Nat
            BY <3>1, NodeFields
        <3>3. lists[x][i].node <= made /\ lists[x][i].cb <= made
            BY <1>2
        <3> QED BY <2>5, <3>2, <3>3
    <2>12. ListsSorted'
        <3>1. \A x \in Lists : /\ Sorted(lists'[x])
                               /\ \A k \in 1..Len(lists'[x]) : lists'[x][k].node <= made' /\ lists'[x][k].cb <= made'
            BY <1>2, <2>1, <2>6, <2>8, <2>10, <2>11
        <3> QED BY <3>1 DEF ListsSorted, Sorted
    <2>13. ListsApart'
        <3>1. ASSUME NEW x \in Lists, NEW y \in Lists, x # y,
                     NEW i \in 1..Len(lists'[x]), NEW j \in 1..Len(lists'[y])
              PROVE  lists'[x][i].cb # lists'[y][j].cb
            <4>1. CASE x = l
                <5>1. i \in 1..Len(g) /\ lists'[x] = g /\ lists'[y] = lists[y] /\ j \in 1..Len(lists[y])
                    BY <2>8, <3>1, <4>1
                <5>2. CASE g[i].cb = made + 1
                    BY <2>11, <5>1, <5>2
                <5>3. CASE \E k \in 1..Len(lists[l]) : g[i].cb = lists[l][k].cb
                    BY <1>3, <3>1, <4>1, <5>1, <5>3
                <5> QED BY <2>10, <5>1, <5>2, <5>3
            <4>2. CASE y = l
                <5>1. j \in 1..Len(g) /\ lists'[y] = g /\ lists'[x] = lists[x] /\ i \in 1..Len(lists[x])
                    BY <2>8, <3>1, <4>2
                <5>2. CASE g[j].cb = made + 1
                    BY <2>11, <5>1, <5>2
                <5>3. CASE \E k \in 1..Len(lists[l]) : g[j].cb = lists[l][k].cb
                    BY <1>3, <3>1, <4>2, <5>1, <5>3
                <5> QED BY <2>10, <5>1, <5>2, <5>3
            <4>3. CASE x # l /\ y # l
                BY <1>3, <2>8, <3>1, <4>3
            <4> QED BY <4>1, <4>2, <4>3
        <3> QED BY <3>1 DEF ListsApart
    <2>14. ListsAlive'
        <3>1. ASSUME NEW x \in Lists, NEW i \in 1..Len(lists[x]) PROVE target'[lists[x][i].cb] \notin dead
            BY <1>2, <2>2
        <3>2. ASSUME NEW k \in 1..Len(g) PROVE target'[g[k].cb] \notin dead
            BY <2>1, <2>2, <2>10, <3>1
        <3>3. dead' = dead
            BY <1>5 DEF Added
        <3>4. \A x \in Lists : \A k \in 1..Len(lists'[x]) : target'[lists'[x][k].cb] \notin dead'
            BY <2>8, <3>1, <3>2, <3>3
        <3> QED BY <3>4 DEF ListsAlive
    <2>15. msgMap' = msgMap \cup ({l} \cap MsgTypes)
        BY <1>5 DEF Added
    <2>16. EntriesInUse'
        <3>1. g # <<>>
            BY <2>6
        <3>2. \A m \in MsgTypes : m \in msgMap' <=> lists'[m] # <<>>
            BY <1>1, <1>4, <2>8, <2>15, <3>1
        <3> QED BY <1>1, <2>15, <3>2 DEF EntriesInUse
    <2> QED BY <1>1, <2>2, <2>8, <2>12, <2>13, <2>14, <2>15, <2>16
<1>6. ASSUME NEW o \in Objs, Removed(o), dead' \subseteq dead \cup {o}
      PROVE  /\ lists' \in [Lists -> Seq(Node)] /\ msgMap' \subseteq MsgTypes
             /\ target' \in Seq(Objs) /\ made' = Len(target') /\ made' \in 0..MaxCallbacks
             /\ ListsSorted' /\ ListsApart' /\ ListsAlive' /\ EntriesInUse'
    <2>1. target' = target /\ made' = made /\ msgMap' = {m \in msgMap : lists'[m] # <<>>}
        BY <1>6 DEF Removed
    <2>2. ASSUME NEW l \in Lists
          PROVE  /\ lists'[l] \in Seq(Node) /\ Sorted(lists'[l])
                 /\ \A k \in 1..Len(lists'[l]) :
                       /\ k \in 1..Len(lists[l]) /\ lists'[l][k].node = lists[l][k].node
                       /\ \E i \in 1..Len(lists[l]) :
                             target[lists[l][i].cb] # o /\ lists'[l][k].cb = lists[l][i].cb
        <3>1. PICK I : I = Staying(lists[l], o)
            OBVIOUS
        <3>2. lists'[l] = Compact(lists[l], I)
            BY <1>6, <3>1 DEF Removed
        <3>3. I \in SUBSET (1..Len(lists[l])) /\ \A i \in I : target[lists[l][i].cb] # o
            BY <3>1 DEF Staying
        <3>4. lists[l] \in Seq(Node) /\ Sorted(lists[l])
            BY <1>2
        <3>5. PICK ls : ls = lists[l]
            OBVIOUS
        <3>6. PICK g : g = Compact(ls, I)
            OBVIOUS
        <3>7. /\ g \in Seq(Node) /\ Sorted(g)
              /\ \A k \in 1..Len(g) : \E i \in I : g[k].cb = ls[i].cb
              /\ \A k \in 1..Len(g) : k \in 1..Len(ls) /\ g[k].node = ls[k].node
            <4>1. ls \in Seq(Node) /\ Sorted(ls) /\ I \in SUBSET (1..Len(ls))
                BY <3>3, <3>4, <3>5
            <4> QED BY <3>6, <4>1, CompactList
        <3>8. lists'[l] = g
            BY <3>2, <3>5, <3>6
        <3> QED BY <3>3, <3>5, <3>7, <3>8
    <2>3. lists' \in [Lists -> Seq(Node)]
        <3>1. lists' = [l \in Lists |-> lists'[l]]
            BY <1>6 DEF Removed
        <3>2. \A l \in Lists : lists'[l] \in Seq(Node)
            BY <2>2
        <3> QED BY <3>1, <3>2
    <2>4. ListsSorted'
        <3>1. ASSUME NEW l \in Lists, NEW k \in 1..Len(lists'[l])
              PROVE  lists'[l][k].node <= made' /\ lists'[l][k].cb <= made'
            <4>1. k \in 1..Len(lists[l]) /\ lists'[l][k].node = lists[l][k].node
                BY <2>2
            <4>2. PICK i \in 1..Len(lists[l]) : lists'[l][k].cb = lists[l][i].cb
                BY <2>2
            <4>3. lists[l][k].node <= made /\ lists[l][i].cb <= made
                BY <1>2, <4>1
            <4> QED BY <2>1, <4>1, <4>2, <4>3
        <3>2. \A l \in Lists : Sorted(lists'[l])
            BY <2>2
        <3> QED BY <3>1, <3>2 DEF ListsSorted, Sorted
    <2>5. ListsApart'
        <3>1. ASSUME NEW x \in Lists, NEW y \in Lists, x # y,
                     NEW i \in 1..Len(lists'[x]), NEW j \in 1..Len(lists'[y])
              PROVE  lists'[x][i].cb # lists'[y][j].cb
            <4>1. PICK p \in 1..Len(lists[x]) : lists'[x][i].cb = lists[x][p].cb
                BY <2>2
            <4>2. PICK q \in 1..Len(lists[y]) : lists'[y][j].cb = lists[y][q].cb
                BY <2>2
            <4> QED BY <1>3, <3>1, <4>1, <4>2
        <3> QED BY <3>1 DEF ListsApart
    <2>6. ListsAlive'
        <3>1. ASSUME NEW l \in Lists, NEW k \in 1..Len(lists'[l])
              PROVE  target[lists'[l][k].cb] \notin dead'
            BY <1>2, <1>6, <2>2
        <3> QED BY <2>1, <3>1 DEF ListsAlive
    <2>7. EntriesInUse'
        <3>1. ASSUME NEW m \in MsgTypes, lists'[m] # <<>> PROVE lists[m] # <<>>
            <4>1. m \in Lists /\ lists'[m] \in Seq(Node)
                BY <1>1, <2>2
            <4>2. 1 \in 1..Len(lists'[m])
                BY <3>1, <4>1
            <4>3. 1 \in 1..Len(lists[m])
                BY <2>2, <4>1, <4>2
            <4> QED BY <4>3
        <3>2. \A m \in MsgTypes : m \in msgMap' <=> lists'[m] # <<>>
            BY <1>1, <1>4, <2>1, <3>1
        <3> QED BY <1>1, <2>1, <3>2 DEF EntriesInUse
    <2> QED BY <1>1, <2>1, <2>3, <2>4, <2>5, <2>6, <2>7
<1>7. CASE Emptied
    <2>1. /\ \A l \in Lists : lists'[l] = <<>>
          /\ lists' \in [Lists -> Seq(Node)]
        BY <1>7 DEF Emptied
    <2>2. \A l \in Lists : Len(lists'[l]) = 0
        BY <2>1
    <2>3. ListsSorted' /\ ListsApart' /\ ListsAlive'
        BY <2>2 DEF ListsSorted, ListsApart, ListsAlive, Sorted
    <2>4. EntriesInUse'
        BY <1>1, <1>7, <2>1 DEF Emptied, EntriesInUse
    <2> QED BY <1>1, <1>7, <2>1, <2>3, <2>4 DEF Emptied
<1>8. CASE UNCHANGED <<listVars, dead>>
    <2>1. lists' = lists /\ msgMap' = msgMap /\ target' = target /\ made' = made /\ dead' = dead
        BY <1>8 DEF listVars
    <2> QED BY <1>1, <2>1 DEF IInv, ListsSorted, ListsApart, ListsAlive, EntriesInUse, Sorted
<1>9. TypeOK
    BY DEF IInv
<1> QED BY <1>5, <1>6, <1>7, <1>8, <1>9, ListSteps

-----------------------------------------------------------------------------
(* What the steps do to the walk, field by field.                            *)

(* No walk is under way. *)
LEMMA NoRunFields ==
    /\ NoRun \in RunSet /\ NoRun.list = "none" /\ NoRun.called = <<>> /\ NoRun.removed = {}
    /\ NoRun.shifted = FALSE /\ NoRun.ended = FALSE
<1>1. NoRun \in RunSet
    BY DEF NoRun, RunSet
<1>2. NoRun.list = "none" /\ NoRun.called = <<>> /\ NoRun.removed = {}
    BY DEF NoRun
<1>3. NoRun.shifted = FALSE /\ NoRun.ended = FALSE
    BY DEF NoRun
<1> QED BY <1>1, <1>2, <1>3

(* ReturnOk: the next callback is called. *)
Advanced(r, n, c) == [r EXCEPT !.node = n, !.called = Append(@, c)]

(* What calling the next callback changes, and what it keeps. *)
LEMMA AdvancedFields ==
    ASSUME NEW r \in RunSet, NEW n \in Nat, NEW c \in Callbacks
    PROVE  /\ Advanced(r, n, c) \in RunSet
           /\ Advanced(r, n, c).list = r.list /\ Advanced(r, n, c).node = n
           /\ Advanced(r, n, c).called = Append(r.called, c)
           /\ Advanced(r, n, c).start = r.start /\ Advanced(r, n, c).removed = r.removed
           /\ Advanced(r, n, c).shifted = r.shifted /\ Advanced(r, n, c).ended = r.ended
<1>1. PICK r2 : r2 = [r EXCEPT !.node = n, !.called = Append(@, c)]
    OBVIOUS
<1>2. /\ r2.list = r.list /\ r2.node = n /\ r2.called = Append(r.called, c)
      /\ r2.start = r.start /\ r2.removed = r.removed
      /\ r2.shifted = r.shifted /\ r2.ended = r.ended
    BY <1>1 DEF RunSet
<1>3. Append(r.called, c) \in Seq(Callbacks)
    <2>1. r.called \in Seq(Callbacks)
        BY DEF RunSet
    <2> HIDE DEF Callbacks
    <2> QED BY <2>1
<1>4. r2 \in RunSet
    BY <1>1, <1>3 DEF RunSet
<1>5. Advanced(r, n, c) = r2
    BY <1>1 DEF Advanced
<1> QED BY <1>2, <1>4, <1>5

(* Dispatch: a walk over l begins. *)
Begun(l, S) == [NoRun EXCEPT !.list = l, !.start = S]

Fresh(r, l, S) ==
    /\ r \in RunSet /\ r.list = l /\ r.called = <<>> /\ r.start = S /\ r.removed = {}
    /\ r.shifted = FALSE /\ r.ended = FALSE

(* A walk that begins has called nothing yet. *)
LEMMA BegunFields ==
    ASSUME NEW l \in Lists, NEW S \in SUBSET Callbacks
    PROVE  Fresh(Begun(l, S), l, S)
<1>1. PICK r \in RunSet : r = NoRun
    BY NoRunFields
<1>2. /\ r.called = <<>> /\ r.removed = {} /\ r.shifted = FALSE /\ r.ended = FALSE
    BY <1>1, NoRunFields
<1>3. PICK r1 : r1 = [r EXCEPT !.list = l, !.start = S]
    OBVIOUS
<1>4. /\ r1 \in RunSet /\ r1.list = l /\ r1.called = r.called /\ r1.start = S
      /\ r1.removed = r.removed /\ r1.shifted = r.shifted /\ r1.ended = r.ended
    BY <1>3 DEF RunSet
<1>5. Begun(l, S) = r1
    BY <1>1, <1>3 DEF Begun
<1>6. Fresh(r1, l, S)
    BY <1>2, <1>4 DEF Fresh
<1> QED BY <1>5, <1>6

(* ReturnOk behind the last node. *)
Ended(r) == [r EXCEPT !.ended = TRUE]

(* The end of a walk changes nothing else. *)
LEMMA EndedFields ==
    ASSUME NEW r \in RunSet
    PROVE  /\ Ended(r) \in RunSet /\ Ended(r).called = r.called /\ Ended(r).list = r.list
           /\ Ended(r).start = r.start /\ Ended(r).removed = r.removed
           /\ Ended(r).shifted = r.shifted /\ Ended(r).ended = TRUE
BY DEF RunSet, Ended

(* Removal during a walk: T are the callbacks removed, b tells whether one   *)
(* of them was at the iterator's node or before it.                          *)
Reduced(r, T, b) == [r EXCEPT !.removed = @ \cup T, !.shifted = @ \/ b]

(* What a removal changes of the walk, and what it keeps. *)
LEMMA ReducedFields ==
    ASSUME NEW r \in RunSet, NEW T \in SUBSET Callbacks, NEW b \in BOOLEAN
    PROVE  /\ Reduced(r, T, b) \in RunSet
           /\ Reduced(r, T, b).list = r.list /\ Reduced(r, T, b).node = r.node
           /\ Reduced(r, T, b).called = r.called
           /\ Reduced(r, T, b).start = r.start /\ Reduced(r, T, b).removed = r.removed \cup T
           /\ Reduced(r, T, b).shifted = (r.shifted \/ b) /\ Reduced(r, T, b).ended = r.ended
<1>1. PICK d \in BOOLEAN : d = (r.shifted \/ b)
    OBVIOUS
<1>2. PICK r2 : r2 = [r EXCEPT !.removed = r.removed \cup T, !.shifted = d]
    OBVIOUS
<1>3. r.removed \cup T \in SUBSET Callbacks
    BY DEF RunSet
<1>4. /\ r2 \in RunSet /\ r2.list = r.list /\ r2.node = r.node /\ r2.called = r.called
      /\ r2.start = r.start /\ r2.removed = r.removed \cup T
      /\ r2.shifted = d /\ r2.ended = r.ended
    BY <1>2, <1>3 DEF RunSet
<1>5. Reduced(r, T, b) = r2
    BY <1>1, <1>2 DEF Reduced
<1> QED BY <1>1, <1>4, <1>5

Decreasing(s) == \A i, j \in 1..Len(s) : i < j => s[i] > s[j]

(* Calling an older callback next keeps the order of the calls. *)
LEMMA DecreasingAppend ==
    ASSUME NEW s \in Seq(Callbacks), NEW c \in Callbacks
    PROVE  /\ Append(s, c) \in Seq(Callbacks) /\ Len(Append(s, c)) # 0
           /\ Append(s, c)[Len(Append(s, c))] = c
           /\ ToSet(Append(s, c)) = ToSet(s) \cup {c}
           /\ Decreasing(s) /\ (Len(s) # 0 => c < s[Len(s)]) => Decreasing(Append(s, c))
<1>1. PICK g : g = Append(s, c)
    OBVIOUS
<1>2. /\ g \in Seq(Callbacks) /\ Len(g) = Len(s) + 1 /\ Len(s) \in Nat /\ g[Len(s) + 1] = c
      /\ \A i \in 1..Len(s) : g[i] = s[i]
    <2> HIDE DEF Callbacks
    <2> QED BY <1>1
<1>3. \A i \in 1..Len(g) : i \in 1..Len(s) \/ i = Len(s) + 1
    BY <1>2
<1>4. \A i \in 1..Len(s) : i \in 1..Len(g)
    BY <1>2
<1>5. Len(s) + 1 \in 1..Len(g) /\ DOMAIN g = 1..Len(g) /\ DOMAIN s = 1..Len(s)
    BY <1>2
<1>6. ToSet(g) = ToSet(s) \cup {c}
    <2>1. ToSet(g) = {g[i] : i \in 1..Len(g)} /\ ToSet(s) = {s[i] : i \in 1..Len(s)}
        BY <1>5 DEF ToSet
    <2> QED BY <1>2, <1>3, <1>4, <1>5, <2>1
<1>7. ASSUME Decreasing(s), Len(s) # 0 => c < s[Len(s)] PROVE Decreasing(g)
    <2> SUFFICES ASSUME NEW i \in 1..Len(g), NEW j \in 1..Len(g), i < j PROVE g[i] > g[j]
        BY DEF Decreasing
    <2>1. i \in 1..Len(s) /\ g[i] = s[i]
        BY <1>2, <1>3
    <2>2. CASE j \in 1..Len(s)
        BY <1>2, <1>7, <2>1, <2>2 DEF Decreasing
    <2>3. CASE j = Len(s) + 1
        <3>1. Len(s) \in 1..Len(s) /\ c < s[Len(s)]
            BY <1>2, <1>7, <2>1
        <3>2. i = Len(s) \/ i < Len(s)
            BY <1>2, <2>1
        <3>3. i < Len(s) => s[i] > s[Len(s)]
            BY <1>7, <2>1, <3>1 DEF Decreasing
        <3>4. s[i] \in Nat /\ s[Len(s)] \in Nat /\ c \in Nat
            BY <2>1, <3>1, NodeFields
        <3> QED BY <1>2, <2>1, <2>3, <3>1, <3>2, <3>3, <3>4
    <2> QED BY <1>3, <2>2, <2>3
<1> QED BY <1>1, <1>2, <1>6, <1>7

(* The walk, its order and its completeness, and where faults come from. *)
WalkInv ==
    /\ RunOK /\ WalkOK /\ NewestFirstOnce /\ NonePassedOver
    /\ IteratorLostOnlyByShift /\ DeadByDownload

(* The walk after a step, over the values after it. *)
LEMMA WalkOKPrimed == WalkOK' <=> (run'.list # "none" /\ ~run'.ended => WalkAt(lists', made', run'))
BY DEF WalkOK, Walking, WalkAt, OnTrack, NoneMissed, Ahead, ToSet

(* Steps that leave the walk alone, and the iterator's list too. *)
LEMMA RunUnchanged ==
    ASSUME IInv, run' = run, made' = made, lists' = lists \/ ~Walking,
           fault' # "freed node" \/ fault' = fault, DeadByDownload'
    PROVE  WalkInv'
<1>1. RunOK' /\ NewestFirstOnce' /\ NonePassedOver'
    BY DEF IInv, RunOK, NewestFirstOnce, NonePassedOver
<1>2. IteratorLostOnlyByShift'
    BY DEF IInv, IteratorLostOnlyByShift
<1>3. WalkOK'
    BY WalkOKPrimed DEF IInv, WalkOK, Walking
<1> QED BY <1>1, <1>2, <1>3 DEF WalkInv

(* A callback is registered. *)
LEMMA AddStep ==
    ASSUME IInv, NEW l \in Lists, NEW o \in Objs, Add(l, o)
    PROVE  WalkInv'
<1>1. run' = run /\ fault' = fault /\ fault = "" /\ dead' = dead /\ http' = http
    BY DEF Add, Running
<1>2. DeadByDownload' /\ IteratorLostOnlyByShift'
    BY <1>1 DEF DeadByDownload, IteratorLostOnlyByShift
<1>3. RunOK' /\ NewestFirstOnce' /\ NonePassedOver'
    BY <1>1 DEF IInv, RunOK, NewestFirstOnce, NonePassedOver
<1>4. ASSUME Walking PROVE WalkAt(lists', made', run)
    <2>1. WalkAt(lists, made, run)
        BY <1>4 DEF IInv, WalkOK
    <2>2. PICK L : L = lists[run.list]
        OBVIOUS
    <2>3. PICK node : node = run.node
        OBVIOUS
    <2>4. PICK last : last = run.called[Len(run.called)]
        OBVIOUS
    <2>5. PICK done : done = ToSet(run.called)
        OBVIOUS
    <2>6. PICK due : due = run.start \ run.removed
        OBVIOUS
    <2>7. /\ run.list \in Lists /\ node <= made /\ Len(run.called) # 0 /\ OnTrack(L, node, last)
          /\ ~run.shifted => NoneMissed(L, node, done, due)
        BY <2>1, <2>2, <2>3, <2>4, <2>5, <2>6 DEF WalkAt
    <2>8. made \in 0..MaxCallbacks /\ lists \in [Lists -> Seq(Node)]
        BY DEF IInv, TypeOK
    <2>9. made \in Nat /\ MaxCallbacks \in Nat /\ made < MaxCallbacks /\ made' = made + 1
        BY <2>8, CallbacksAssumption DEF Add
    <2>10. node \in Nat
        BY <2>3 DEF IInv, RunOK, RunSet
    <2>11. PICK e : e = [node |-> made + 1, cb |-> made + 1]
        OBVIOUS
    <2>12. e \in Node /\ e.node # node
        <3>1. made + 1 \in Callbacks
            BY <2>9 DEF Callbacks
        <3>2. e.node = made + 1 /\ e \in Node
            BY <2>11, <3>1 DEF Node
        <3> QED BY <2>7, <2>9, <2>10, <3>2
    <2>13. lists' = [lists EXCEPT ![l] = <<e>> \o lists[l]]
        BY <2>11 DEF Add
    <2>14. L \in Seq(Node) /\ lists'[run.list] \in {<<e>> \o L, L}
        BY <2>2, <2>7, <2>8, <2>13
    <2>15. /\ OnTrack(lists'[run.list], node, last)
           /\ ~run.shifted => NoneMissed(lists'[run.list], node, done, due)
        <3>1. /\ OnTrack(<<e>> \o L, node, last)
              /\ ~run.shifted => NoneMissed(<<e>> \o L, node, done, due)
            BY <2>7, <2>12, <2>14, WalkSurvivesAdd
        <3> QED BY <2>7, <2>14, <3>1
    <2>16. node <= made'
        BY <2>7, <2>9, <2>10
    <2> QED BY <2>3, <2>4, <2>5, <2>6, <2>7, <2>15, <2>16 DEF WalkAt
<1>5. WalkOK'
    BY <1>1, <1>4, WalkOKPrimed DEF Walking
<1> QED BY <1>2, <1>3, <1>5 DEF WalkInv

(* The facts about one list that the steps of a walk need. *)
LEMMA ListFacts ==
    ASSUME IInv, NEW l \in Lists
    PROVE  /\ lists[l] \in Seq(Node) /\ Sorted(lists[l]) /\ made \in Nat
           /\ DOMAIN lists[l] = 1..Len(lists[l])
           /\ lists[l] # <<>> => 1 \in 1..Len(lists[l])
<1>1. lists \in [Lists -> Seq(Node)] /\ made \in 0..MaxCallbacks
    BY DEF IInv, TypeOK
<1>2. lists[l] \in Seq(Node)
    BY <1>1
<1>3. Sorted(lists[l])
    BY DEF IInv, ListsSorted
<1>4. made \in Nat
    BY <1>1, CallbacksAssumption
<1>5. DOMAIN lists[l] = 1..Len(lists[l]) /\ (lists[l] # <<>> => 1 \in 1..Len(lists[l]))
    BY <1>2
<1> QED BY <1>2, <1>3, <1>4, <1>5

(* The iterator's position is the one position of its node. *)
LEMMA PositionOfNode ==
    ASSUME IInv, NEW l \in Lists, NEW k \in 1..Len(lists[l])
    PROVE  /\ lists[l][k].node \in Nodes(l)
           /\ Position(l, lists[l][k].node) = k
<1>1. PICK ls : ls = lists[l]
    OBVIOUS
<1>2. ls \in Seq(Node) /\ Sorted(ls) /\ DOMAIN ls = 1..Len(ls)
    BY <1>1, ListFacts
<1>3. \A i \in 1..Len(ls) : ls[i].node = ls[k].node => i = k
    BY <1>1, <1>2, OnePosition
<1>4. Position(l, ls[k].node) = CHOOSE i \in 1..Len(ls) : ls[i].node = ls[k].node
    BY <1>1, <1>2 DEF Position
<1>5. Position(l, ls[k].node) = k
    BY <1>1, <1>3, <1>4
<1>6. ls[k].node \in Nodes(l)
    BY <1>1, <1>2 DEF Nodes
<1> QED BY <1>1, <1>5, <1>6

(* removeObjCallbacks, in a callback or not. *)
LEMMA RemovalStep ==
    ASSUME IInv, Running, NEW o \in Objs, Removal(o)
    PROVE  WalkInv'
<1>1. fault' = fault /\ fault = "" /\ made' = made
    BY DEF Removal, Running
<1>2. DeadByDownload' /\ IteratorLostOnlyByShift'
    BY <1>1 DEF DeadByDownload, IteratorLostOnlyByShift
<1>3. CASE ~Walking
    <2>1. run' = run
        BY <1>3 DEF Removal
    <2> QED BY <1>1, <1>2, <1>3, <2>1, RunUnchanged
<1>4. CASE Walking
    <2> DEFINE theirs == {c \in 1..made : target[c] = o}
    <2> DEFINE hit == \E k \in 1..Len(lists[run.list]) :
                         /\ target[lists[run.list][k].cb] = o
                         /\ run.node \in Nodes(run.list) => k <= Position(run.list, run.node)
    <2>1. PICK b \in BOOLEAN : b = hit
        OBVIOUS
    <2>2. PICK T : T = theirs
        OBVIOUS
    <2>3. run' = Reduced(run, T, b)
        BY <1>4, <2>1, <2>2 DEF Removal, Reduced
    <2>4. T \in SUBSET Callbacks
        <3>1. made \in 0..MaxCallbacks
            BY DEF IInv, TypeOK
        <3>2. 1..made \subseteq 1..MaxCallbacks
            BY <3>1, CallbacksAssumption
        <3> QED BY <2>2, <3>2 DEF Callbacks
    <2>5. /\ run' \in RunSet /\ run'.list = run.list /\ run'.node = run.node
          /\ run'.called = run.called /\ run'.start = run.start
          /\ run'.removed = run.removed \cup T
          /\ run'.shifted = (run.shifted \/ b) /\ run'.ended = run.ended
        BY <2>3, <2>4, ReducedFields DEF IInv, RunOK
    <2>6. RunOK' /\ NewestFirstOnce'
        BY <2>5 DEF IInv, RunOK, NewestFirstOnce
    <2>7. NonePassedOver'
        BY <1>4, <2>5 DEF NonePassedOver, Walking
    <2>8. WalkAt(lists, made, run)
        BY <1>4 DEF IInv, WalkOK
    <2>9. PICK L : L = lists[run.list]
        OBVIOUS
    <2>10. PICK I : I = Staying(L, o)
        OBVIOUS
    <2>11. run.list \in Lists /\ L \in Seq(Node) /\ Sorted(L) /\ I \in SUBSET (1..Len(L))
        BY <2>8, <2>9, <2>10 DEF WalkAt, IInv, TypeOK, ListsSorted, Staying
    <2>12. lists'[run.list] = Compact(L, I)
        <3>1. lists'[run.list] = removeAllCallbackFromList(L, o)
            BY <2>9, <2>11 DEF Removal
        <3> QED BY <2>10, <2>11, <3>1, RemovalCompacts
    <2>13. \A j \in 1..Len(L) : j \notin I => L[j].cb \in T
        <3> SUFFICES ASSUME NEW j \in 1..Len(L), j \notin I PROVE L[j].cb \in T
            OBVIOUS
        <3>1. target[L[j].cb] = o
            BY <2>10 DEF Staying
        <3>2. L[j] \in Node
            BY <2>11
        <3>3. L[j].cb \in Nat /\ 1 <= L[j].cb
            BY <3>2, NodeFields
        <3>4. L[j].cb <= made
            BY <2>9, <2>11 DEF IInv, ListsSorted
        <3>5. made \in Nat
            BY <2>11, ListFacts
        <3> QED BY <2>2, <3>1, <3>3, <3>4, <3>5
    <2>14. PICK node : node = run.node
        OBVIOUS
    <2>15. PICK last : last = run.called[Len(run.called)]
        OBVIOUS
    <2>16. PICK done : done = ToSet(run.called)
        OBVIOUS
    <2>17. PICK due : due = run.start \ run.removed
        OBVIOUS
    <2>18. /\ node <= made /\ Len(run.called) # 0 /\ OnTrack(L, node, last)
           /\ ~run.shifted => NoneMissed(L, node, done, due)
        BY <2>8, <2>9, <2>14, <2>15, <2>16, <2>17 DEF WalkAt
    <2>19. OnTrack(Compact(L, I), node, last)
        BY <2>11, <2>13, <2>18, WalkSurvivesRemoval
    <2>20. ASSUME ~run'.shifted PROVE NoneMissed(Compact(L, I), node, done, due \ T)
        <3>1. ~run.shifted /\ ~hit
            BY <2>1, <2>5, <2>20
        <3>2. NoneMissed(L, node, done, due)
            BY <2>18, <3>1
        <3>3. ASSUME NEW k \in 1..Len(L), L[k].node = node, NEW p \in 1..k PROVE p \in I
            <4>1. node \in Nodes(run.list) /\ Position(run.list, node) = k
                BY <2>9, <2>11, <3>3, PositionOfNode
            <4>2. p \in 1..Len(L) /\ p <= k
                BY <2>11
            <4>3. target[L[p].cb] # o
                BY <2>9, <2>14, <3>1, <4>1, <4>2
            <4> QED BY <2>10, <4>2, <4>3 DEF Staying
        <3> QED BY <2>11, <2>13, <3>2, <3>3, WalkSurvivesRemoval
    <2>21. run'.start \ run'.removed = due \ T
        BY <2>5, <2>17
    <2>22. WalkAt(lists', made', run')
        BY <1>1, <2>5, <2>11, <2>12, <2>14, <2>15, <2>16, <2>18, <2>19, <2>20, <2>21 DEF WalkAt
    <2>23. WalkOK'
        BY <2>22, WalkOKPrimed
    <2> QED BY <1>2, <2>6, <2>7, <2>23 DEF WalkInv
<1> QED BY <1>3, <1>4

(* The first callback of a list is called. *)
LEMMA DispatchStep ==
    ASSUME IInv, NEW l \in Lists, Dispatch(l)
    PROVE  WalkInv'
<1>1. /\ fault = "" /\ lists' = lists /\ made' = made /\ dead' = dead /\ http' = http
      /\ lists[l] # <<>>
    BY DEF Dispatch, Running, listVars
<1>2. PICK L : L = lists[l]
    OBVIOUS
<1>3. L \in Seq(Node) /\ Sorted(L) /\ 1 \in 1..Len(L) /\ DOMAIN L = 1..Len(L)
    BY <1>1, <1>2, ListFacts
<1>4. target[L[1].cb] \notin dead
    BY <1>2, <1>3 DEF IInv, ListsAlive
<1>5. L[1].node \in Callbacks /\ L[1].cb \in Callbacks /\ L[1].node \in Nat
    <2>1. L[1] \in Node
        BY <1>3
    <2> QED BY <2>1, NodeFields
<1>6. PICK S : S = {L[k].cb : k \in 1..Len(L)}
    OBVIOUS
<1>7. S \in SUBSET Callbacks /\ S = Held(l)
    <2>1. \A k \in 1..Len(L) : L[k] \in Node
        BY <1>3
    <2>2. \A k \in 1..Len(L) : L[k].cb \in Callbacks
        BY <2>1, NodeFields
    <2>3. S = Held(l)
        BY <1>2, <1>3, <1>6 DEF Held
    <2> QED BY <1>6, <2>2, <2>3
<1>8. PICK r : r = Begun(l, S)
    OBVIOUS
<1>9. /\ r \in RunSet /\ r.list = l /\ r.called = <<>> /\ r.start = S /\ r.removed = {}
      /\ r.shifted = FALSE /\ r.ended = FALSE
    <2>1. Fresh(r, l, S)
        BY <1>7, <1>8, BegunFields
    <2> QED BY <2>1 DEF Fresh
<1>10. run' = Advanced(r, L[1].node, L[1].cb) /\ fault' = fault
    <2>1. Call(l, 1, r)
        BY <1>7, <1>8 DEF Dispatch, Begun
    <2> QED BY <1>2, <1>4, <2>1 DEF Call, Advanced
<1>11. /\ run' \in RunSet /\ run'.list = l /\ run'.node = L[1].node
       /\ run'.called = Append(<<>>, L[1].cb) /\ run'.start = S /\ run'.removed = {}
       /\ run'.shifted = FALSE /\ run'.ended = FALSE
    <2>1. PICK n \in Nat : n = L[1].node
        BY <1>5
    <2>2. PICK c \in Callbacks : c = L[1].cb
        BY <1>5
    <2>3. PICK r2 : r2 = Advanced(r, n, c)
        OBVIOUS
    <2>4. /\ r2 \in RunSet /\ r2.list = r.list /\ r2.node = n /\ r2.called = Append(r.called, c)
          /\ r2.start = r.start /\ r2.removed = r.removed
          /\ r2.shifted = r.shifted /\ r2.ended = r.ended
        BY <1>9, <2>3, AdvancedFields, ZenonT(40)
    <2>5. run' = r2
        BY <1>10, <2>1, <2>2, <2>3
    <2> QED BY <1>9, <2>1, <2>2, <2>4, <2>5
<1>12. PICK c : c = Append(<<>>, L[1].cb)
    OBVIOUS
<1>13. Len(c) # 0 /\ c[Len(c)] = L[1].cb /\ ToSet(c) = {L[1].cb} /\ Decreasing(c) /\ c \in Seq(Callbacks)
    <2>1. <<>> \in Seq(Callbacks) /\ Len(<<>>) = 0 /\ ToSet(<<>>) = {} /\ Decreasing(<<>>)
        BY DEF ToSet, Decreasing
    <2>2. ToSet(c) = {} \cup {L[1].cb}
        BY <1>5, <1>12, <2>1, DecreasingAppend
    <2>3. Len(c) # 0 /\ c[Len(c)] = L[1].cb /\ Decreasing(c) /\ c \in Seq(Callbacks)
        BY <1>5, <1>12, <2>1, DecreasingAppend, ZenonT(40)
    <2> QED BY <2>2, <2>3
<1>14. OnTrack(L, L[1].node, L[1].cb) /\ NoneMissed(L, L[1].node, {L[1].cb}, S)
    BY <1>1, <1>2, <1>3, <1>6, WalkBegins
<1>15. L[1].node <= made
    BY <1>2, <1>3 DEF IInv, ListsSorted
<1>16. S \ {} = S
    OBVIOUS
<1>17. WalkAt(lists', made', run')
    BY <1>1, <1>2, <1>11, <1>12, <1>13, <1>14, <1>15, <1>16 DEF WalkAt
<1>18. WalkOK'
    BY <1>17, WalkOKPrimed
<1>19. NewestFirstOnce'
    <2>1. run'.called = c /\ DOMAIN c = 1..Len(c)
        BY <1>11, <1>12, <1>13
    <2> QED BY <1>13, <2>1 DEF NewestFirstOnce, Decreasing
<1>20. RunOK' /\ NonePassedOver' /\ IteratorLostOnlyByShift' /\ DeadByDownload'
    BY <1>1, <1>10, <1>11 DEF RunOK, NonePassedOver, IteratorLostOnlyByShift, DeadByDownload
<1> QED BY <1>18, <1>19, <1>20 DEF WalkInv

(* A callback returns 0.  When the iterator has lost its node, one of the    *)
(* callbacks up to it was removed; at the last node nothing is left ahead;   *)
(* otherwise the next callback is older than the one that returned.          *)
LEMMA ReturnOkStep ==
    ASSUME IInv, ReturnOk
    PROVE  WalkInv'
<1>1. /\ fault = "" /\ lists' = lists /\ made' = made /\ dead' = dead /\ http' = http /\ Walking
      /\ IF run.node \notin Nodes(run.list) THEN fault' = "freed node" /\ run' = run
         ELSE LET k == Position(run.list, run.node)
              IN  IF k = Len(lists[run.list]) THEN run' = [run EXCEPT !.ended = TRUE] /\ fault' = fault
                  ELSE Call(run.list, k + 1, run)
    BY DEF ReturnOk, Running, listVars
<1>2. PICK l \in Lists : l = run.list
    BY <1>1 DEF IInv, WalkOK, WalkAt
<1>3. PICK L : L = lists[l]
    OBVIOUS
<1>4. L \in Seq(Node) /\ Sorted(L) /\ DOMAIN L = 1..Len(L)
    BY <1>3, ListFacts
<1>5. PICK node : node = run.node
    OBVIOUS
<1>6. PICK called : called = run.called
    OBVIOUS
<1>7. PICK due : due = run.start \ run.removed
    OBVIOUS
<1>8. WalkAt(lists, made, run)
    BY <1>1 DEF IInv, WalkOK
<1>9. /\ node <= made /\ Len(called) # 0 /\ OnTrack(L, node, called[Len(called)])
      /\ ~run.shifted => NoneMissed(L, node, ToSet(called), due)
    BY <1>2, <1>3, <1>5, <1>6, <1>7, <1>8 DEF WalkAt
<1>10. run \in RunSet /\ called \in Seq(Callbacks) /\ Decreasing(called)
    <2>1. run \in RunSet
        BY DEF IInv, RunOK
    <2>2. called \in Seq(Callbacks)
        BY <1>6, <2>1 DEF RunSet
    <2>3. DOMAIN called = 1..Len(called)
        BY <2>2
    <2> QED BY <1>6, <2>1, <2>2, <2>3 DEF IInv, NewestFirstOnce, Decreasing
<1>11. CASE node \notin Nodes(l)
    <2>1. fault' = "freed node" /\ run' = run
        BY <1>1, <1>2, <1>5, <1>11
    <2>2. ~NoneMissed(L, node, ToSet(called), due)
        BY <1>3, <1>4, <1>11 DEF NoneMissed, Nodes
    <2>3. run.shifted
        BY <1>9, <2>2
    <2>4. RunOK' /\ NewestFirstOnce' /\ NonePassedOver' /\ IteratorLostOnlyByShift' /\ DeadByDownload'
        BY <2>1, <2>3 DEF IInv, RunOK, NewestFirstOnce, NonePassedOver, IteratorLostOnlyByShift, DeadByDownload
    <2>5. WalkOK'
        BY <1>1, <1>8, <2>1, WalkOKPrimed
    <2> QED BY <2>4, <2>5 DEF WalkInv
<1>12. CASE node \in Nodes(l)
    <2>1. PICK k \in 1..Len(L) : L[k].node = node
        BY <1>3, <1>4, <1>12 DEF Nodes
    <2>2. Position(l, node) = k
        BY <1>3, <2>1, PositionOfNode
    <2>3. CASE k = Len(L)
        <3>1. run' = Ended(run) /\ fault' = fault
            BY <1>1, <1>2, <1>3, <1>5, <1>12, <2>2, <2>3 DEF Ended
        <3>2. /\ run' \in RunSet /\ run'.called = called
              /\ run'.start \ run'.removed = due
              /\ run'.shifted = run.shifted /\ run'.ended = TRUE
            BY <1>6, <1>7, <1>10, <3>1, EndedFields
        <3>3. ~run.shifted => due \subseteq ToSet(called)
            BY <1>4, <1>9, <2>1, <2>3, WalkEnds
        <3>4. NonePassedOver'
            BY <3>2, <3>3 DEF NonePassedOver
        <3>5. RunOK' /\ WalkOK'
            BY <3>2, WalkOKPrimed DEF RunOK
        <3>6. NewestFirstOnce'
            BY <1>6, <3>2 DEF IInv, NewestFirstOnce
        <3>7. IteratorLostOnlyByShift' /\ DeadByDownload'
            BY <1>1, <3>1 DEF IteratorLostOnlyByShift, DeadByDownload
        <3> QED BY <3>4, <3>5, <3>6, <3>7 DEF WalkInv
    <2>4. CASE k # Len(L)
        <3>1. PICK last : last = called[Len(called)]
            OBVIOUS
        <3>2. OnTrack(L, L[k].node, last)
            BY <1>9, <2>1, <3>1
        <3>3. /\ k + 1 \in 1..Len(L) /\ L[k + 1].cb < last
              /\ OnTrack(L, L[k + 1].node, L[k + 1].cb)
              /\ NoneMissed(L, L[k].node, ToSet(called), due) =>
                    NoneMissed(L, L[k + 1].node, ToSet(called) \cup {L[k + 1].cb}, due)
            BY <1>4, <2>4, <3>2, WalkGoesOn
        <3>4. L[k + 1] \in Node
            BY <1>4, <3>3
        <3>5. PICK n \in Callbacks : n = L[k + 1].node
            BY <3>4, NodeFields
        <3>6. PICK c \in Callbacks : c = L[k + 1].cb
            BY <3>4, NodeFields
        <3>7. n \in Nat
            BY NodeFields
        <3>8. target[c] \notin dead /\ n <= made
            BY <1>3, <3>3, <3>5, <3>6 DEF IInv, ListsAlive, ListsSorted
        <3>9. Call(l, k + 1, run)
            BY <1>1, <1>2, <1>3, <1>5, <1>12, <2>2, <2>4
        <3>10. run' = Advanced(run, n, c) /\ fault' = fault
            BY <1>3, <3>5, <3>6, <3>8, <3>9 DEF Call, Advanced
        <3>11. PICK called2 : called2 = Append(called, c)
            OBVIOUS
        <3>12. /\ run' \in RunSet /\ run'.list = l /\ run'.node = n /\ run'.called = called2
               /\ run'.start \ run'.removed = due
               /\ run'.shifted = run.shifted /\ run'.ended = run.ended
            <4>1. PICK r2 : r2 = Advanced(run, n, c)
                OBVIOUS
            <4>2. /\ r2 \in RunSet /\ r2.list = run.list /\ r2.node = n
                  /\ r2.called = Append(run.called, c)
                  /\ r2.start = run.start /\ r2.removed = run.removed
                  /\ r2.shifted = run.shifted /\ r2.ended = run.ended
                BY <1>10, <3>7, <4>1, AdvancedFields, ZenonT(40)
            <4>3. run' = r2
                BY <3>10, <4>1
            <4> QED BY <1>2, <1>6, <1>7, <3>11, <4>2, <4>3
        <3>13. /\ called2 \in Seq(Callbacks) /\ Len(called2) # 0 /\ called2[Len(called2)] = c
               /\ ToSet(called2) = ToSet(called) \cup {c}
               /\ Decreasing(called2)
            BY <1>10, <3>1, <3>3, <3>6, <3>11, DecreasingAppend
        <3>14. ~run.shifted => NoneMissed(L, n, ToSet(called2), due)
            BY <1>9, <2>1, <3>3, <3>5, <3>6, <3>13
        <3>15. OnTrack(L, n, called2[Len(called2)])
            BY <3>3, <3>5, <3>6, <3>13
        <3>16. WalkAt(lists', made', run')
            BY <1>1, <1>3, <3>8, <3>12, <3>13, <3>14, <3>15 DEF WalkAt
        <3>17. WalkOK'
            BY <3>16, WalkOKPrimed
        <3>18. NewestFirstOnce'
            <4>1. DOMAIN called2 = 1..Len(called2)
                BY <3>13
            <4> QED BY <3>12, <3>13, <4>1 DEF NewestFirstOnce, Decreasing
        <3>19. RunOK' /\ NonePassedOver'
            BY <1>1, <3>12 DEF RunOK, NonePassedOver, Walking
        <3>20. IteratorLostOnlyByShift' /\ DeadByDownload'
            BY <1>1, <3>10 DEF IteratorLostOnlyByShift, DeadByDownload
        <3> QED BY <3>17, <3>18, <3>19, <3>20 DEF WalkInv
    <2> QED BY <2>3, <2>4
<1> QED BY <1>11, <1>12

(* A callback returns an error: the walk is over. *)
LEMMA ReturnErrorStep ==
    ASSUME IInv, ReturnError
    PROVE  WalkInv'
<1>1. fault = "" /\ fault' = fault /\ run' = NoRun
    BY DEF ReturnError, Running
<1>2. RunOK' /\ WalkOK' /\ NonePassedOver'
    BY <1>1, NoRunFields, WalkOKPrimed DEF RunOK, NonePassedOver
<1>3. NewestFirstOnce'
    <2>1. run'.called = <<>>
        BY <1>1, NoRunFields
    <2>2. \A i \in DOMAIN run'.called : FALSE
        BY <2>1
    <2> QED BY <2>2 DEF NewestFirstOnce
<1>4. IteratorLostOnlyByShift' /\ DeadByDownload'
    BY <1>1 DEF IteratorLostOnlyByShift, DeadByDownload
<1> QED BY <1>2, <1>3, <1>4 DEF WalkInv

(* Downloads, and the end of the client, leave walks alone. *)
LEMMA OtherSteps ==
    ASSUME IInv,
           \/ DestroyClient
           \/ \E r \in Requests, o \in Objs : Wget(r, o)
           \/ \E r \in Requests : on_data_read(r)
           \/ \E r \in Requests, status \in {"ok", "error"} : on_complete(r, status)
           \/ UNCHANGED vars
    PROVE  WalkInv'
<1>1. CASE DestroyClient
    <2>1. run' = run /\ made' = made /\ ~Walking /\ fault' = fault /\ fault = ""
        BY <1>1 DEF DestroyClient, Running
    <2>2. DeadByDownload'
        BY <2>1 DEF DeadByDownload
    <2> QED BY <2>1, <2>2, RunUnchanged
<1>2. ASSUME NEW r \in Requests, NEW o \in Objs, Wget(r, o) PROVE WalkInv'
    <2>1. run' = run /\ made' = made /\ lists' = lists /\ fault = "" /\ fault' \in {"", "no request"}
        BY <1>2 DEF Wget, Running, listVars
    <2>2. DeadByDownload'
        BY <2>1 DEF DeadByDownload
    <2> QED BY <2>1, <2>2, RunUnchanged
<1>3. ASSUME NEW r \in Requests, on_data_read(r) PROVE WalkInv'
    <2>1. run' = run /\ made' = made /\ lists' = lists /\ fault = "" /\ fault' = fault
        BY <1>3 DEF on_data_read, Running, listVars
    <2>2. DeadByDownload'
        BY <2>1 DEF DeadByDownload
    <2> QED BY <2>1, <2>2, RunUnchanged
<1>4. ASSUME NEW r \in Requests, NEW status \in {"ok", "error"}, on_complete(r, status) PROVE WalkInv'
    <2>1. /\ run' = run /\ made' = made /\ lists' = lists /\ fault = "" /\ dead' = dead
          /\ http[r].st = "started"
          /\ \/ fault' = "dead object" /\ http' = http /\ http[r].obj \in dead
             \/ fault' = ""
        BY <1>4 DEF on_complete, Running, listVars
    <2>2. DeadByDownload'
        BY <2>1 DEF DeadByDownload
    <2> QED BY <2>1, <2>2, RunUnchanged
<1>5. CASE UNCHANGED vars
    <2>1. run' = run /\ made' = made /\ lists' = lists /\ fault' = fault /\ dead' = dead /\ http' = http
        BY <1>5 DEF vars
    <2>2. DeadByDownload'
        BY <2>1 DEF IInv, DeadByDownload
    <2> QED BY <2>1, <2>2, RunUnchanged
<1> QED BY <1>1, <1>2, <1>3, <1>4, <1>5

-----------------------------------------------------------------------------
(* The downloads.                                                            *)

HttpSet ==
    [st : {"none", "started", "failed", "deleted"}, obj : Objs, result : 0..MaxChunks, calls : {0, 1}]

(* A download's object as a step may leave it. *)
HttpStep(h, h2) ==
    \/ h2 = h
    \/ /\ h.st = "none"
       /\ \E st \in {"started", "failed"}, o \in Objs : h2 = [h EXCEPT !.st = st, !.obj = o]
    \/ h.st = "started" /\ h.result < MaxChunks /\ h2 = [h EXCEPT !.result = @ + 1]
    \/ h.st = "started" /\ h2 = [h EXCEPT !.st = "deleted", !.calls = @ + 1]

(* The callback of a download is called when its object is deleted, and the  *)
(* object is deleted once.                                                   *)
LEMMA HttpStepKeeps ==
    ASSUME NEW h \in HttpSet, h.calls = (IF h.st = "deleted" THEN 1 ELSE 0),
           NEW h2, HttpStep(h, h2)
    PROVE  h2 \in HttpSet /\ h2.calls = (IF h2.st = "deleted" THEN 1 ELSE 0)
<1>1. h.result \in 0..MaxChunks /\ h.calls \in {0, 1} /\ h.obj \in Objs /\ MaxChunks \in Nat
    BY CallbacksAssumption DEF HttpSet
<1>2. ASSUME h.st = "none", NEW st \in {"started", "failed"}, NEW o \in Objs,
             h2 = [h EXCEPT !.st = st, !.obj = o]
      PROVE  h2 \in HttpSet /\ h2.calls = (IF h2.st = "deleted" THEN 1 ELSE 0)
    <2>1. h2.st = st /\ h2.calls = h.calls /\ h2 \in HttpSet
        BY <1>2 DEF HttpSet
    <2> QED BY <1>2, <2>1
<1>3. ASSUME h.st = "started", h.result < MaxChunks, h2 = [h EXCEPT !.result = @ + 1]
      PROVE  h2 \in HttpSet /\ h2.calls = (IF h2.st = "deleted" THEN 1 ELSE 0)
    <2>1. h.result + 1 \in 0..MaxChunks
        BY <1>1, <1>3
    <2>2. h2.st = h.st /\ h2.calls = h.calls /\ h2 \in HttpSet
        BY <1>3, <2>1 DEF HttpSet
    <2> QED BY <1>3, <2>2
<1>4. ASSUME h.st = "started", h2 = [h EXCEPT !.st = "deleted", !.calls = @ + 1]
      PROVE  h2 \in HttpSet /\ h2.calls = (IF h2.st = "deleted" THEN 1 ELSE 0)
    <2>1. h.calls = 0 /\ h.calls + 1 = 1
        BY <1>4
    <2>2. h2.st = "deleted" /\ h2.calls = 1 /\ h2 \in HttpSet
        BY <1>4, <2>1 DEF HttpSet
    <2> QED BY <2>2
<1> QED BY <1>2, <1>3, <1>4 DEF HttpStep

(* What a step does to one download; and the values the rest may take. *)
LEMMA DownloadSteps ==
    ASSUME TypeOK, [Next]_vars
    PROVE  /\ DOMAIN http' = Requests
           /\ http' = [r \in Requests |-> http'[r]]
           /\ \A r \in Requests : HttpStep(http[r], http'[r])
           /\ dead' \subseteq Objs /\ gone' \in BOOLEAN
           /\ fault' \in {"", "freed node", "dead object", "no request"}
<1> DEFINE Goal ==
           /\ DOMAIN http' = Requests
           /\ http' = [r \in Requests |-> http'[r]]
           /\ \A r \in Requests : HttpStep(http[r], http'[r])
<1>0. /\ http \in [Requests -> HttpSet] /\ dead \subseteq Objs /\ gone \in BOOLEAN
      /\ fault \in {"", "freed node", "dead object", "no request"}
    BY DEF TypeOK, HttpSet
<1>1. ASSUME http' = http PROVE Goal
    BY <1>0, <1>1 DEF HttpStep
<1>2. ASSUME NEW l \in Lists, NEW o \in Objs, Add(l, o)
      PROVE  http' = http /\ dead' = dead /\ gone' = gone /\ fault' = fault
    BY <1>2 DEF Add
<1>3. ASSUME NEW o \in Objs, RemoveObjCallbacks(o) \/ DestroyObject(o)
      PROVE  http' = http /\ dead' \subseteq Objs /\ gone' = gone /\ fault' = fault
    BY <1>0, <1>3 DEF RemoveObjCallbacks, DestroyObject, Removal
<1>4. ASSUME DestroyClient
      PROVE  http' = http /\ dead' = dead /\ gone' = TRUE /\ fault' = fault
    BY <1>4 DEF DestroyClient
<1>5. ASSUME NEW l \in Lists, Dispatch(l)
      PROVE  http' = http /\ dead' = dead /\ gone' = gone /\ fault' \in {fault, "dead object"}
    BY <1>5 DEF Dispatch, Call
<1>6. ASSUME ReturnOk
      PROVE  http' = http /\ dead' = dead /\ gone' = gone /\ fault' \in {fault, "freed node", "dead object"}
    BY <1>6 DEF ReturnOk, Call
<1>7. ASSUME ReturnError
      PROVE  http' = http /\ dead' = dead /\ gone' = gone /\ fault' = fault
    BY <1>7 DEF ReturnError
<1>8. ASSUME NEW r \in Requests, NEW o \in Objs, Wget(r, o)
      PROVE  Goal /\ dead' = dead /\ gone' = gone /\ fault' \in {fault, "no request"}
    <2>1. CASE http' = http
        BY <1>1, <1>8, <2>1 DEF Wget
    <2>2. ASSUME NEW st \in {"started", "failed"}, http' = [http EXCEPT ![r].st = st, ![r].obj = o]
          PROVE  Goal
        <3>1. /\ DOMAIN http' = Requests /\ http' = [x \in Requests |-> http'[x]]
              /\ \A x \in Requests : x # r => http'[x] = http[x]
              /\ http'[r] = [http[r] EXCEPT !.st = st, !.obj = o]
            BY <1>0, <2>2
        <3>2. http[r].st = "none"
            BY <1>8 DEF Wget
        <3> QED BY <3>1, <3>2, ZenonT(40) DEF HttpStep
    <2> QED BY <1>8, <2>1, <2>2 DEF Wget
<1>9. ASSUME NEW r \in Requests, on_data_read(r)
      PROVE  Goal /\ dead' = dead /\ gone' = gone /\ fault' = fault
    <2>1. /\ DOMAIN http' = Requests /\ http' = [x \in Requests |-> http'[x]]
          /\ \A x \in Requests : x # r => http'[x] = http[x]
          /\ http'[r] = [http[r] EXCEPT !.result = @ + 1]
        BY <1>0, <1>9 DEF on_data_read
    <2> QED BY <1>9, <2>1 DEF HttpStep, on_data_read
<1>10. ASSUME NEW r \in Requests, NEW status \in {"ok", "error"}, on_complete(r, status)
       PROVE  Goal /\ dead' = dead /\ gone' = gone /\ fault' \in {fault, "dead object"}
    <2>1. CASE http' = http
        BY <1>1, <1>10, <2>1 DEF on_complete
    <2>2. CASE http' = Completed(r, status)
        <3>1. /\ DOMAIN http' = Requests /\ http' = [x \in Requests |-> http'[x]]
              /\ \A x \in Requests : x # r => http'[x] = http[x]
              /\ http'[r] = [http[r] EXCEPT !.st = "deleted", !.calls = @ + 1]
            BY <1>0, <2>2 DEF Completed
        <3>2. http[r].st = "started"
            BY <1>10 DEF on_complete
        <3>3. Goal
            BY <3>1, <3>2 DEF HttpStep
        <3> QED BY <1>10, <3>3 DEF on_complete
    <2> QED BY <1>10, <2>1, <2>2 DEF on_complete
<1>11. ASSUME UNCHANGED vars
       PROVE  http' = http /\ dead' = dead /\ gone' = gone /\ fault' = fault
    BY <1>11 DEF vars
<1>12. Goal
    <2> HIDE DEF Goal
    <2> QED BY <1>1, <1>2, <1>3, <1>4, <1>5, <1>6, <1>7, <1>8, <1>9, <1>10, <1>11 DEF Next
<1> HIDE DEF Goal
<1>13. dead' \subseteq Objs
    BY <1>0, <1>2, <1>3, <1>4, <1>5, <1>6, <1>7, <1>8, <1>9, <1>10, <1>11 DEF Next
<1>14. gone' \in BOOLEAN
    <2>1. gone' = gone \/ gone' = TRUE
        BY <1>2, <1>3, <1>4, <1>5, <1>6, <1>7, <1>8, <1>9, <1>10, <1>11 DEF Next
    <2> QED BY <1>0, <2>1
<1>15. fault' \in {"", "freed node", "dead object", "no request"}
    <2>1. fault' \in {fault, "freed node", "dead object", "no request"}
        BY <1>2, <1>3, <1>4, <1>5, <1>6, <1>7, <1>8, <1>9, <1>10, <1>11 DEF Next
    <2> QED BY <1>0, <2>1
<1> QED BY <1>12, <1>13, <1>14, <1>15 DEF Goal

-----------------------------------------------------------------------------
(* The invariant.                                                            *)

(* No list has a callback, no walk is under way and no download was asked    *)
(* for when the client is new.                                               *)
LEMMA InitInvariant == Init => IInv
<1> SUFFICES ASSUME Init PROVE IInv
    OBVIOUS
<1>1. /\ lists = [l \in Lists |-> <<>>] /\ msgMap = {} /\ target = <<>> /\ made = 0
      /\ run = NoRun /\ dead = {} /\ gone = FALSE /\ http = [r \in Requests |-> NoHttp]
      /\ fault = ""
    BY DEF Init
<1>2. \A l \in Lists : lists[l] = <<>> /\ Len(lists[l]) = 0
    BY <1>1
<1>3. lists \in [Lists -> Seq(Node)]
    <2>1. <<>> \in Seq(Node)
        OBVIOUS
    <2> QED BY <1>1, <2>1
<1>4. MsgTypes \subseteq Lists
    BY DEF Lists
<1>5. ListsSorted /\ ListsApart /\ ListsAlive
    BY <1>2 DEF ListsSorted, ListsApart, ListsAlive, Sorted
<1>6. EntriesInUse
    BY <1>1, <1>2, <1>4 DEF EntriesInUse
<1>7. NoHttp \in HttpSet /\ NoHttp.calls = 0 /\ NoHttp.st = "none"
    <2>1. (CHOOSE o \in Objs : TRUE) \in Objs
        BY CallbacksAssumption
    <2>2. 0 \in 0..MaxChunks
        BY CallbacksAssumption
    <2> QED BY <2>1, <2>2 DEF NoHttp, HttpSet
<1>8. http \in [Requests -> HttpSet] /\ CalledOnce
    BY <1>1, <1>7 DEF CalledOnce
<1>9. RunOK /\ run.list = "none" /\ run.called = <<>> /\ ~run.ended
    BY <1>1, NoRunFields DEF RunOK
<1>10. WalkOK /\ NonePassedOver
    BY <1>9 DEF WalkOK, Walking, NonePassedOver
<1>11. NewestFirstOnce
    <2>1. \A i \in DOMAIN run.called : FALSE
        BY <1>9
    <2> QED BY <2>1 DEF NewestFirstOnce
<1>12. IteratorLostOnlyByShift /\ DeadByDownload
    BY <1>1 DEF IteratorLostOnlyByShift, DeadByDownload
<1>13. TypeOK
    <2>1. target \in Seq(Objs) /\ made = Len(target) /\ made \in 0..MaxCallbacks
        <3>1. <<>> \in Seq(Objs) /\ Len(<<>>) = 0
            OBVIOUS
        <3>2. 0 \in 0..MaxCallbacks
            BY CallbacksAssumption
        <3> QED BY <1>1, <3>1, <3>2
    <2>2. run.list \in Lists \cup {"none"} /\ run.called \in Seq(Callbacks)
        BY <1>9
    <2> QED BY <1>1, <1>3, <1>8, <2>1, <2>2 DEF TypeOK, HttpSet
<1> QED BY <1>5, <1>6, <1>8, <1>9, <1>10, <1>11, <1>12, <1>13 DEF IInv

(* Every step keeps it. *)
LEMMA StepInvariant == IInv /\ [Next]_vars => IInv'
<1> SUFFICES ASSUME IInv, [Next]_vars PROVE IInv'
    OBVIOUS
<1>1. /\ lists' \in [Lists -> Seq(Node)] /\ msgMap' \subseteq MsgTypes
      /\ target' \in Seq(Objs) /\ made' = Len(target') /\ made' \in 0..MaxCallbacks
      /\ ListsSorted' /\ ListsApart' /\ ListsAlive' /\ EntriesInUse'
    BY ListsStep
<1>2. WalkInv'
    <2>1. ASSUME NEW l \in Lists, NEW o \in Objs, Add(l, o) PROVE WalkInv'
        BY <2>1, AddStep
    <2>2. ASSUME NEW o \in Objs, RemoveObjCallbacks(o) PROVE WalkInv'
        BY <2>2, RemovalStep DEF RemoveObjCallbacks
    <2>3. ASSUME NEW o \in Objs, DestroyObject(o) PROVE WalkInv'
        BY <2>3, RemovalStep DEF DestroyObject
    <2>4. ASSUME NEW l \in Lists, Dispatch(l) PROVE WalkInv'
        BY <2>4, DispatchStep
    <2>5. CASE ReturnOk
        BY <2>5, ReturnOkStep
    <2>6. CASE ReturnError
        BY <2>6, ReturnErrorStep
    <2> QED BY <2>1, <2>2, <2>3, <2>4, <2>5, <2>6, OtherSteps DEF Next
<1>3. TypeOK
    BY DEF IInv
<1>4. http \in [Requests -> HttpSet]
    BY <1>3 DEF TypeOK, HttpSet
<1>5. /\ http' = [r \in Requests |-> http'[r]]
      /\ \A r \in Requests : HttpStep(http[r], http'[r])
      /\ dead' \subseteq Objs /\ gone' \in BOOLEAN
      /\ fault' \in {"", "freed node", "dead object", "no request"}
    BY <1>3, DownloadSteps
<1>6. ASSUME NEW r \in Requests
      PROVE  http'[r] \in HttpSet /\ http'[r].calls = (IF http'[r].st = "deleted" THEN 1 ELSE 0)
    <2>1. http[r] \in HttpSet
        BY <1>4
    <2>2. http[r].calls = (IF http[r].st = "deleted" THEN 1 ELSE 0)
        BY DEF IInv, CalledOnce
    <2> QED BY <1>5, <2>1, <2>2, HttpStepKeeps
<1>7. http' \in [Requests -> HttpSet]
    BY <1>5, <1>6
<1>8. CalledOnce'
    BY <1>6 DEF CalledOnce
<1>9. run'.list \in Lists \cup {"none"} /\ run'.called \in Seq(Callbacks)
    BY <1>2 DEF WalkInv, RunOK, RunSet
<1>10. TypeOK'
    BY <1>1, <1>5, <1>7, <1>9 DEF TypeOK, HttpSet, Lists, Node, Callbacks
<1> QED BY <1>1, <1>2, <1>8, <1>10 DEF IInv, WalkInv

(* The invariant holds for any objects, message types and downloads, and any *)
(* number of registrations: the lists stay in the order of registration, and *)
(* a walk stays on its track whatever its callbacks register and remove.     *)
THEOREM CallbacksInvariant == Spec => []IInv
<1>1. Init => IInv
    BY InitInvariant
<1>2. IInv /\ [Next]_vars => IInv'
    BY StepInvariant
<1> QED BY <1>1, <1>2, PTL DEF Spec

(* callList and processMsg call every callback once, newest first, pass over *)
(* none of those registered before the walk unless one already called is     *)
(* removed, and lose their iterator only then.                               *)
THEOREM CallbacksWalkExact == Spec => []WalkExact
<1>1. IInv => WalkExact
    BY DEF IInv, WalkExact
<1> QED BY <1>1, CallbacksInvariant, PTL

(* removeObjCallbacks leaves nothing of an object behind; every callback is  *)
(* held by one node of one list; and msgMap has entries for exactly the      *)
(* types with a callback.                                                    *)
THEOREM CallbacksListsKept == Spec => []ListsKept
<1>1. ASSUME IInv PROVE ListsKept
    <2>1. \A l \in Lists : \A k \in DOMAIN lists[l] : k \in 1..Len(lists[l])
        BY <1>1, ListFacts
    <2>2. DeadNotCalled
        BY <1>1, <2>1 DEF IInv, ListsAlive, DeadByDownload, DeadNotCalled, Held
    <2>3. ASSUME NEW l \in Lists
          PROVE  IsInjective([k \in DOMAIN lists[l] |-> lists[l][k].cb])
        <3>1. PICK ls : ls = lists[l]
            OBVIOUS
        <3>2. ls \in Seq(Node) /\ Sorted(ls) /\ DOMAIN ls = 1..Len(ls)
            BY <1>1, <3>1, ListFacts
        <3>3. \A i, j \in 1..Len(ls) : ls[i].cb = ls[j].cb => i = j
            <4> SUFFICES ASSUME NEW i \in 1..Len(ls), NEW j \in 1..Len(ls), ls[i].cb = ls[j].cb
                         PROVE  i = j
                OBVIOUS
            <4>1. ls[i] \in Node /\ ls[j] \in Node
                BY <3>2
            <4>2. ls[i].cb \in Nat /\ ls[j].cb \in Nat
                BY <4>1, NodeFields
            <4>3. (i < j => ls[j].cb < ls[i].cb) /\ (j < i => ls[i].cb < ls[j].cb)
                BY <3>2 DEF Sorted
            <4> QED BY <4>2, <4>3
        <3>4. IsInjective([k \in DOMAIN ls |-> ls[k].cb])
            BY <3>2, <3>3 DEF IsInjective
        <3> QED BY <3>1, <3>4
    <2>4. \A l1, l2 \in Lists : l1 # l2 => Held(l1) \cap Held(l2) = {}
        BY <1>1, <2>1 DEF IInv, ListsApart, Held
    <2>5. CallbackHeldOnce
        BY <2>3, <2>4 DEF CallbackHeldOnce
    <2> QED BY <1>1, <2>2, <2>5 DEF IInv, ListsKept
<1> QED BY <1>1, CallbacksInvariant, PTL

(* PjHttp calls the callback of a download once, when it deletes itself, and *)
(* never before: the safety half of StartedAnswered.                         *)
THEOREM DownloadsAnsweredOnce == Spec => []CalledOnce
<1>1. IInv => CalledOnce
    BY DEF IInv
<1> QED BY <1>1, CallbacksInvariant, PTL
=============================================================================
