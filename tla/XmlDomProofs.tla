---------------------------- MODULE XmlDomProofs ----------------------------
(* Proofs about XmlDom, for any finite set of addresses, any names, values   *)
(* and attribute names: the nodes of a document form a tree whatever is      *)
(* inserted, deleted and parsed, its readers' loops agree, and the counters  *)
(* of the pools account for every object.                                    *)
EXTENDS XmlDom, FiniteSetTheorems, TLAPS

-----------------------------------------------------------------------------
(* The shape of the pointers L, when V are the objects that exist.           *)

(* Where no object is, no pointer is left. *)
FreeNull(L, V) ==
    \A n \in AllNodes \ V :
        /\ L.parent[n] = Null /\ L.firstChild[n] = Null /\ L.lastChild[n] = Null
        /\ L.prev[n] = Null /\ L.next[n] = Null

(* A node without a parent has no siblings; the document has no parent. *)
Unlinked(L) ==
    /\ L.parent[Doc] = Null
    /\ \A n \in AllNodes : L.parent[n] = Null => L.prev[n] = Null /\ L.next[n] = Null

(* WellLinked, of one node. *)
LinkedAt(L, V, p) ==
    /\ L.firstChild[p] = Null <=> L.lastChild[p] = Null
    /\ L.firstChild[p] # Null =>
          L.parent[L.firstChild[p]] = p /\ L.prev[L.firstChild[p]] = Null
    /\ L.lastChild[p] # Null =>
          L.parent[L.lastChild[p]] = p /\ L.next[L.lastChild[p]] = Null
    /\ L.next[p] # Null =>
          L.prev[L.next[p]] = p /\ L.parent[L.next[p]] = L.parent[p]
    /\ L.prev[p] # Null =>
          L.next[L.prev[p]] = p /\ L.parent[L.prev[p]] = L.parent[p]
    /\ L.parent[p] # Null /\ L.prev[p] = Null => L.firstChild[L.parent[p]] = p
    /\ L.parent[p] # Null /\ L.next[p] = Null => L.lastChild[L.parent[p]] = p
    /\ L.parent[p] \in V \cup {Null} /\ L.firstChild[p] \in V \cup {Null}
    /\ L.lastChild[p] \in V \cup {Null}
    /\ L.prev[p] \in V \cup {Null} /\ L.next[p] \in V \cup {Null}

(* No chain of the pointer goes round: every set of nodes has a member whose *)
(* pointer leads out of it.                                                  *)
Grounded(pointer) ==
    \A S \in SUBSET Nodes : S # {} => \E n \in S : pointer[n] \notin S

Shape(L, V) ==
    /\ L \in Links
    /\ V \in SUBSET AllNodes /\ Doc \in V
    /\ FreeNull(L, V)
    /\ Unlinked(L)
    /\ \A n \in V : LinkedAt(L, V, n)
    /\ Grounded(L.parent)
    /\ Grounded(L.prev)

(* Pointers have their type. *)
LEMMA LinksType ==
    ASSUME NEW L \in Links, NEW n \in AllNodes
    PROVE  /\ L.parent[n] \in Pointer /\ L.firstChild[n] \in Pointer
           /\ L.lastChild[n] \in Pointer /\ L.prev[n] \in Pointer /\ L.next[n] \in Pointer
BY DEF Links

(* A children or sibling pointer never leads to the document. *)
LEMMA NeverToDoc ==
    ASSUME NEW L, NEW V, Shape(L, V), NEW n \in AllNodes
    PROVE  /\ L.firstChild[n] \in (V \cap Nodes) \cup {Null}
           /\ L.lastChild[n] \in (V \cap Nodes) \cup {Null}
           /\ L.prev[n] \in (V \cap Nodes) \cup {Null}
           /\ L.next[n] \in (V \cap Nodes) \cup {Null}
           /\ L.parent[n] \in V \cup {Null}
<1>1. CASE n \notin V
    BY <1>1 DEF Shape, FreeNull
<1>2. CASE n \in V
    <2>1. LinkedAt(L, V, n) /\ V \in SUBSET AllNodes /\ Unlinked(L)
        BY <1>2 DEF Shape
    <2>2. n # Null
        BY DomAssumption DEF AllNodes
    <2>3. Doc # Null
        BY DomAssumption
    <2>4. L.parent[Doc] = Null /\ L.prev[Doc] = Null /\ L.next[Doc] = Null
        BY <2>1 DEF Unlinked, AllNodes
    <2> QED BY <2>1, <2>2, <2>3, <2>4 DEF LinkedAt, AllNodes
<1> QED BY <1>1, <1>2

(* What the loops of DeleteChildren reach from p. *)
LEMMA SubtreeClosed ==
    ASSUME NEW L, NEW V, Shape(L, V), NEW p \in AllNodes
    PROVE  /\ DeleteChildren(L, p) \in SUBSET Nodes
           /\ L.firstChild[p] \in DeleteChildren(L, p) \cup {Null}
           /\ \A n \in DeleteChildren(L, p) :
                 /\ L.firstChild[n] \in DeleteChildren(L, p) \cup {Null}
                 /\ L.next[n] \in DeleteChildren(L, p) \cup {Null}
           /\ \A S \in SUBSET Nodes :
                 /\ L.firstChild[p] \in S \cup {Null}
                 /\ \A m \in S : L.firstChild[m] \in S \cup {Null} /\ L.next[m] \in S \cup {Null}
                 => DeleteChildren(L, p) \subseteq S
<1> DEFINE Good(S) == /\ L.firstChild[p] \in S \cup {Null}
                      /\ \A m \in S : L.firstChild[m] \in S \cup {Null} /\ L.next[m] \in S \cup {Null}
<1>1. DeleteChildren(L, p) = {n \in Nodes : \A S \in SUBSET Nodes : Good(S) => n \in S}
    BY DEF DeleteChildren, Reached
<1>2. \A n \in AllNodes : /\ L.firstChild[n] \in Nodes \cup {Null}
                          /\ L.next[n] \in Nodes \cup {Null}
    BY NeverToDoc
<1>3. PICK T : T = DeleteChildren(L, p)
    OBVIOUS
<1>4. T \in SUBSET Nodes
    BY <1>1, <1>3
<1>5. \A S \in SUBSET Nodes : Good(S) => T \subseteq S
    BY <1>1, <1>3
<1>6. \A n \in Nodes : (\A S \in SUBSET Nodes : Good(S) => n \in S) => n \in T
    BY <1>1, <1>3
<1>7. L.firstChild[p] \in T \cup {Null}
    BY <1>2, <1>6
<1>8. ASSUME NEW n \in T PROVE L.firstChild[n] \in T \cup {Null} /\ L.next[n] \in T \cup {Null}
    <2>1. n \in AllNodes
        BY <1>4 DEF AllNodes
    <2>2. ASSUME NEW S \in SUBSET Nodes, Good(S)
          PROVE  L.firstChild[n] \in S \cup {Null} /\ L.next[n] \in S \cup {Null}
        <3>1. n \in S
            BY <1>5, <2>2
        <3> QED BY <2>2, <3>1
    <2> QED BY <1>2, <1>6, <2>1, <2>2
<1> QED BY <1>3, <1>4, <1>5, <1>7, <1>8

(* They reach p's descendants, all of them and nothing else: what they reach *)
(* has its parent among what they reach, or p; and a child of one of those   *)
(* is reached, because the list of its siblings is walked from its start.    *)
LEMMA SubtreeFacts ==
    ASSUME NEW L, NEW V, Shape(L, V), NEW p \in AllNodes
    PROVE  /\ DeleteChildren(L, p) \in SUBSET (V \cap Nodes)
           /\ \A n \in DeleteChildren(L, p) : L.parent[n] \in DeleteChildren(L, p) \cup {p}
           /\ \A n \in AllNodes : L.parent[n] \in DeleteChildren(L, p) \cup {p}
                                      => n \in DeleteChildren(L, p)
           /\ p \notin DeleteChildren(L, p)
<1>1. PICK T : T = DeleteChildren(L, p)
    OBVIOUS
<1>2. /\ T \in SUBSET Nodes
      /\ L.firstChild[p] \in T \cup {Null}
      /\ \A n \in T : L.firstChild[n] \in T \cup {Null} /\ L.next[n] \in T \cup {Null}
    BY <1>1, SubtreeClosed
<1>3. \A S \in SUBSET Nodes :
          /\ L.firstChild[p] \in S \cup {Null}
          /\ \A m \in S : L.firstChild[m] \in S \cup {Null} /\ L.next[m] \in S \cup {Null}
          => T \subseteq S
    BY <1>1, SubtreeClosed
<1>4. /\ \A n \in AllNodes : L.firstChild[n] \in (V \cap Nodes) \cup {Null}
      /\ \A n \in AllNodes : L.prev[n] \in (V \cap Nodes) \cup {Null}
      /\ \A n \in AllNodes : L.next[n] \in (V \cap Nodes) \cup {Null}
    BY NeverToDoc
<1>5. Null \notin AllNodes /\ Nodes \subseteq AllNodes /\ Doc \in AllNodes
    BY DomAssumption DEF AllNodes
<1>6. /\ \A n \in V : LinkedAt(L, V, n)
      /\ \A n \in AllNodes \ V : L.parent[n] = Null /\ L.firstChild[n] = Null
      /\ V \in SUBSET AllNodes /\ L.parent[Doc] = Null
      /\ Grounded(L.parent) /\ Grounded(L.prev)
    BY DEF Shape, FreeNull, Unlinked
<1>7. \A n \in T : n \in V /\ L.parent[n] \in T \cup {p}
    <2> DEFINE S == {n \in T : n \in V /\ L.parent[n] \in T \cup {p}}
    <2>1. L.firstChild[p] \in S \cup {Null}
        <3>1. CASE p \in V
            BY <1>2, <1>4, <1>6, <3>1 DEF LinkedAt
        <3>2. CASE p \notin V
            BY <1>6, <3>2
        <3> QED BY <3>1, <3>2
    <2>2. ASSUME NEW m \in S
          PROVE  L.firstChild[m] \in S \cup {Null} /\ L.next[m] \in S \cup {Null}
        <3>1. m \in T /\ m \in V /\ m \in AllNodes /\ L.parent[m] \in T \cup {p}
            BY <1>2, <1>5
        <3>2. LinkedAt(L, V, m)
            BY <1>6, <3>1
        <3>3. /\ L.firstChild[m] \in T \cup {Null} /\ L.next[m] \in T \cup {Null}
              /\ L.firstChild[m] \in V \cup {Null} /\ L.next[m] \in V \cup {Null}
            BY <1>2, <1>4, <3>1
        <3> QED BY <3>1, <3>2, <3>3 DEF LinkedAt
    <2>3. T \subseteq S
        <3>1. S \in SUBSET Nodes
            BY <1>2
        <3> HIDE DEF S
        <3> QED BY <1>3, <2>1, <2>2, <3>1
    <2> QED BY <2>3
<1>8. ASSUME NEW n \in AllNodes, L.parent[n] \in T \cup {p} PROVE n \in T
    <2> DEFINE S == {m \in Nodes : L.parent[m] \in T \cup {p} /\ m \notin T}
    <2> SUFFICES ASSUME n \notin T PROVE FALSE
        OBVIOUS
    <2>1. n \in Nodes
        BY <1>2, <1>5, <1>6, <1>8 DEF AllNodes
    <2>2. S \in SUBSET Nodes /\ S # {}
        BY <1>8, <2>1
    <2>3. PICK m \in S : L.prev[m] \notin S
        <3> HIDE DEF S
        <3> QED BY <1>6, <2>2 DEF Grounded
    <2>4. m \in Nodes /\ m \notin T /\ L.parent[m] \in T \cup {p} /\ L.parent[m] \in AllNodes
        BY <1>2, <1>5
    <2>5. m \in V /\ m \in AllNodes /\ L.parent[m] # Null
        BY <1>5, <1>6, <2>4
    <2>6. LinkedAt(L, V, m)
        BY <1>6, <2>5
    <2>7. CASE L.prev[m] = Null
        <3>1. L.firstChild[L.parent[m]] = m
            BY <2>5, <2>6, <2>7 DEF LinkedAt
        <3> QED BY <1>2, <1>5, <2>4, <3>1
    <2>8. CASE L.prev[m] # Null
        <3>1. L.next[L.prev[m]] = m /\ L.parent[L.prev[m]] = L.parent[m]
            BY <2>6, <2>8 DEF LinkedAt
        <3>2. L.prev[m] \in Nodes
            BY <1>4, <2>5, <2>8
        <3>3. L.prev[m] \in T
            BY <2>3, <2>4, <3>1, <3>2
        <3> QED BY <1>2, <1>5, <2>4, <3>1, <3>3
    <2> QED BY <2>7, <2>8
<1>9. p \notin T
    <2> SUFFICES ASSUME p \in T PROVE FALSE
        OBVIOUS
    <2>1. PICK n \in T : L.parent[n] \notin T
        BY <1>2, <1>6 DEF Grounded
    <2> QED BY <1>7, <2>1
<1> QED BY <1>1, <1>2, <1>7, <1>8, <1>9

-----------------------------------------------------------------------------
(* Insertions.                                                               *)

(* b and a, null or not, are neighbours in the list of the children of p. *)
Gap(L, p, b, a) ==
    /\ IF b = Null THEN L.firstChild[p] = a
       ELSE b \in Nodes /\ L.parent[b] = p /\ L.next[b] = a
    /\ IF a = Null THEN L.lastChild[p] = b
       ELSE a \in Nodes /\ L.parent[a] = p /\ L.prev[a] = b

(* M are the pointers when x has been linked between b and a. *)
Linked(L, M, p, x, b, a) ==
    /\ M \in Links
    /\ \A n \in AllNodes :
          /\ M.parent[n] = IF n = x THEN p ELSE L.parent[n]
          /\ M.firstChild[n] = IF n = p /\ b = Null THEN x ELSE L.firstChild[n]
          /\ M.lastChild[n] = IF n = p /\ a = Null THEN x ELSE L.lastChild[n]
          /\ M.next[n] = IF n = x THEN a ELSE IF n = b THEN x ELSE L.next[n]
          /\ M.prev[n] = IF n = x THEN b ELSE IF n = a THEN x ELSE L.prev[n]

(* The contract of the insertions. *)
MayLink(L, V, p, x) ==
    /\ p \in V /\ x \in V \cap Nodes
    /\ L.parent[x] = Null
    /\ p # x /\ p \notin DeleteChildren(L, x)

(* InsertEndChild links behind the last child. *)
LEMMA InsertEndLinks ==
    ASSUME NEW L, NEW V, Shape(L, V), NEW p, NEW x, MayLink(L, V, p, x)
    PROVE  /\ Gap(L, p, L.lastChild[p], Null)
           /\ Linked(L, InsertEndChild(L, p, x), p, x, L.lastChild[p], Null)
<1>1. /\ p \in V /\ V \in SUBSET AllNodes /\ x \in Nodes /\ x \in AllNodes /\ p \in AllNodes
      /\ L.parent[x] = Null /\ L \in Links
    BY DEF MayLink, Shape, AllNodes
<1>2. Null \notin AllNodes
    BY DomAssumption DEF AllNodes
<1>3. PICK b : b = L.lastChild[p]
    OBVIOUS
<1>4. b \in Nodes \cup {Null} /\ LinkedAt(L, V, p)
    BY <1>1, <1>3, NeverToDoc DEF Shape
<1>5. Gap(L, p, b, Null)
    BY <1>2, <1>3, <1>4 DEF Gap, LinkedAt
<1>6. b # x
    BY <1>1, <1>2, <1>3, <1>4 DEF LinkedAt
<1>7. PICK M : M = InsertEndChild(L, p, x)
    OBVIOUS
<1>8. /\ M \in Links
      /\ M.parent = [L.parent EXCEPT ![x] = p]
      /\ M.firstChild = [L.firstChild EXCEPT ![p] = IF b = Null THEN x ELSE @]
      /\ M.lastChild = [L.lastChild EXCEPT ![p] = x]
      /\ M.next = IF b = Null THEN [L.next EXCEPT ![x] = Null]
                  ELSE [L.next EXCEPT ![b] = x, ![x] = Null]
      /\ M.prev = [L.prev EXCEPT ![x] = b]
    <2>1. L \in [{"parent", "firstChild", "lastChild", "prev", "next"} -> [AllNodes -> Pointer]]
        BY <1>1 DEF Links
    <2>2. PICK next : next = IF b = Null THEN [L.next EXCEPT ![x] = Null]
                             ELSE [L.next EXCEPT ![b] = x, ![x] = Null]
        OBVIOUS
    <2>3. next \in [AllNodes -> Pointer]
        BY <1>1, <1>4, <2>1, <2>2 DEF Pointer, AllNodes
    <2>4. M = [L EXCEPT !.firstChild[p] = IF b = Null THEN x ELSE @,
                        !.lastChild[p] = x, !.next = next, !.prev[x] = b, !.parent[x] = p]
        BY <1>3, <1>7, <2>2, Zenon DEF InsertEndChild
    <2>5. M \in [{"parent", "firstChild", "lastChild", "prev", "next"} -> [AllNodes -> Pointer]]
        <3>1. p \in Pointer /\ x \in Pointer /\ b \in Pointer
            BY <1>1, <1>4 DEF Pointer, AllNodes
        <3>2. L.firstChild[p] \in Pointer /\ L.lastChild[p] \in Pointer
            BY <1>1, LinksType
        <3> QED BY <1>1, <2>1, <2>3, <2>4, <3>1, <3>2
    <2> QED BY <2>1, <2>2, <2>4, <2>5 DEF Links
<1>9. Linked(L, M, p, x, b, Null)
    BY <1>1, <1>2, <1>4, <1>6, <1>8 DEF Linked, Links
<1> QED BY <1>3, <1>5, <1>7, <1>9

(* InsertFirstChild links before the first child. *)
LEMMA InsertFirstLinks ==
    ASSUME NEW L, NEW V, Shape(L, V), NEW p, NEW x, MayLink(L, V, p, x)
    PROVE  /\ Gap(L, p, Null, L.firstChild[p])
           /\ Linked(L, InsertFirstChild(L, p, x), p, x, Null, L.firstChild[p])
<1>1. /\ p \in V /\ V \in SUBSET AllNodes /\ x \in Nodes /\ x \in AllNodes /\ p \in AllNodes
      /\ L.parent[x] = Null /\ L \in Links
    BY DEF MayLink, Shape, AllNodes
<1>2. Null \notin AllNodes
    BY DomAssumption DEF AllNodes
<1>3. PICK a : a = L.firstChild[p]
    OBVIOUS
<1>4. a \in Nodes \cup {Null} /\ LinkedAt(L, V, p)
    BY <1>1, <1>3, NeverToDoc DEF Shape
<1>5. Gap(L, p, Null, a)
    BY <1>2, <1>3, <1>4 DEF Gap, LinkedAt
<1>6. a # x
    BY <1>1, <1>2, <1>3, <1>4 DEF LinkedAt
<1>7. PICK M : M = InsertFirstChild(L, p, x)
    OBVIOUS
<1>8. /\ M \in Links
      /\ M.parent = [L.parent EXCEPT ![x] = p]
      /\ M.lastChild = [L.lastChild EXCEPT ![p] = IF a = Null THEN x ELSE @]
      /\ M.firstChild = [L.firstChild EXCEPT ![p] = x]
      /\ M.prev = IF a = Null THEN [L.prev EXCEPT ![x] = Null]
                  ELSE [L.prev EXCEPT ![a] = x, ![x] = Null]
      /\ M.next = [L.next EXCEPT ![x] = a]
    <2>1. L \in [{"parent", "firstChild", "lastChild", "prev", "next"} -> [AllNodes -> Pointer]]
        BY <1>1 DEF Links
    <2>2. PICK prev : prev = IF a = Null THEN [L.prev EXCEPT ![x] = Null]
                             ELSE [L.prev EXCEPT ![a] = x, ![x] = Null]
        OBVIOUS
    <2>3. prev \in [AllNodes -> Pointer]
        BY <1>1, <1>4, <2>1, <2>2 DEF Pointer, AllNodes
    <2>4. M = [L EXCEPT !.lastChild[p] = IF a = Null THEN x ELSE @,
                        !.firstChild[p] = x, !.prev = prev, !.next[x] = a, !.parent[x] = p]
        BY <1>3, <1>7, <2>2, Zenon DEF InsertFirstChild
    <2>5. M \in [{"parent", "firstChild", "lastChild", "prev", "next"} -> [AllNodes -> Pointer]]
        <3>1. p \in Pointer /\ x \in Pointer /\ a \in Pointer
            BY <1>1, <1>4 DEF Pointer, AllNodes
        <3>2. L.firstChild[p] \in Pointer /\ L.lastChild[p] \in Pointer
            BY <1>1, LinksType
        <3> QED BY <1>1, <2>1, <2>3, <2>4, <3>1, <3>2
    <2> QED BY <2>1, <2>2, <2>4, <2>5 DEF Links
<1>9. Linked(L, M, p, x, Null, a)
    BY <1>1, <1>2, <1>4, <1>6, <1>8 DEF Linked, Links
<1> QED BY <1>3, <1>5, <1>7, <1>9

(* InsertAfterChild links behind the child it is given. *)
LEMMA InsertAfterLinks ==
    ASSUME NEW L, NEW V, Shape(L, V), NEW p, NEW x, MayLink(L, V, p, x),
           NEW b \in Nodes, L.parent[b] = p
    PROVE  /\ Gap(L, p, b, L.next[b])
           /\ Linked(L, InsertAfterChild(L, p, b, x), p, x, b, L.next[b])
<1>1. /\ p \in V /\ V \in SUBSET AllNodes /\ x \in Nodes /\ x \in AllNodes /\ p \in AllNodes
      /\ L.parent[x] = Null /\ L \in Links /\ b \in AllNodes
    BY DEF MayLink, Shape, AllNodes
<1>2. Null \notin AllNodes
    BY DomAssumption DEF AllNodes
<1>3. PICK a : a = L.next[b]
    OBVIOUS
<1>4. b \in V
    BY <1>1, <1>2 DEF Shape, FreeNull
<1>5. a \in Nodes \cup {Null} /\ LinkedAt(L, V, b)
    BY <1>1, <1>3, <1>4, NeverToDoc DEF Shape
<1>6. b # Null /\ p # Null
    BY <1>1, <1>2
<1>7. Gap(L, p, b, a)
    BY <1>3, <1>5, <1>6 DEF Gap, LinkedAt
<1>8. a # x /\ b # x
    BY <1>1, <1>2, <1>3, <1>5, <1>6 DEF LinkedAt
<1>9. PICK M : M = InsertAfterChild(L, p, b, x)
    OBVIOUS
<1>10. CASE a = Null
    <2>1. L.lastChild[p] = b
        BY <1>7, <1>10 DEF Gap
    <2>2. M = InsertEndChild(L, p, x)
        BY <1>3, <1>9, <1>10 DEF InsertAfterChild
    <2>3. Linked(L, M, p, x, b, Null)
        BY <2>1, <2>2, InsertEndLinks
    <2> QED BY <1>3, <1>7, <1>9, <1>10, <2>3
<1>11. CASE a # Null
    <2>1. /\ M \in [{"parent", "firstChild", "lastChild", "prev", "next"} -> [AllNodes -> Pointer]]
          /\ M.parent = [L.parent EXCEPT ![x] = p]
          /\ M.lastChild = L.lastChild /\ M.firstChild = L.firstChild
          /\ M.prev = [L.prev EXCEPT ![x] = b, ![a] = x]
          /\ M.next = [L.next EXCEPT ![x] = a, ![b] = x]
        BY <1>1, <1>3, <1>5, <1>9, <1>11 DEF InsertAfterChild, Links, Pointer, AllNodes
    <2>2. Linked(L, M, p, x, b, a)
        BY <1>1, <1>2, <1>5, <1>6, <1>8, <1>11, <2>1 DEF Linked, Links
    <2> QED BY <1>3, <1>7, <1>9, <2>2
<1> QED BY <1>10, <1>11

(* A node without a parent, that is all an insertion can be given, is what   *)
(* no pointer leads to.                                                      *)
LEMMA NothingPointsToRoot ==
    ASSUME NEW L, NEW V, Shape(L, V), NEW x \in Nodes, L.parent[x] = Null, NEW n \in AllNodes
    PROVE  /\ L.firstChild[n] # x /\ L.lastChild[n] # x /\ L.prev[n] # x /\ L.next[n] # x
           /\ L.prev[x] = Null /\ L.next[x] = Null
<1>1. x \in AllNodes /\ n # Null /\ x # Null
    BY DomAssumption DEF AllNodes
<1>2. L.prev[x] = Null /\ L.next[x] = Null
    BY <1>1 DEF Shape, Unlinked
<1>3. CASE n \in V
    <2>1. LinkedAt(L, V, n)
        BY <1>3 DEF Shape
    <2> QED BY <1>1, <1>2, <2>1 DEF LinkedAt
<1>4. CASE n \notin V
    BY <1>1, <1>2, <1>4 DEF Shape, FreeNull
<1> QED BY <1>3, <1>4

(* The nodes on both sides of a gap are children of p, and different. *)
LEMMA GapFacts ==
    ASSUME NEW L, NEW V, Shape(L, V), NEW p \in V, NEW b, NEW a, Gap(L, p, b, a)
    PROVE  /\ b # Null => b \in V \cap Nodes /\ L.parent[b] = p /\ L.next[b] = a
           /\ a # Null => a \in V \cap Nodes /\ L.parent[a] = p /\ L.prev[a] = b
           /\ b = Null => L.firstChild[p] = a
           /\ a = Null => L.lastChild[p] = b
           /\ a # Null => a # b
<1>1. p # Null /\ V \in SUBSET AllNodes /\ Nodes \subseteq AllNodes
    BY DomAssumption DEF Shape, AllNodes
<1>2. \A n \in Nodes : L.parent[n] = p => n \in V
    BY <1>1 DEF Shape, FreeNull
<1>3. /\ b # Null => b \in V \cap Nodes /\ L.parent[b] = p /\ L.next[b] = a
      /\ a # Null => a \in V \cap Nodes /\ L.parent[a] = p /\ L.prev[a] = b
      /\ b = Null => L.firstChild[p] = a
      /\ a = Null => L.lastChild[p] = b
    BY <1>2 DEF Gap
<1>4. ASSUME a # Null, a = b PROVE FALSE
    <2>1. a \in Nodes /\ L.prev[a] = a
        BY <1>3, <1>4
    <2>2. {a} \in SUBSET Nodes /\ {a} # {}
        BY <2>1
    <2>3. \E n \in {a} : L.prev[n] \notin {a}
        BY <2>2 DEF Shape, Grounded
    <2> QED BY <2>1, <2>3
<1> QED BY <1>3, <1>4

(* Linking a node into a gap keeps every list doubly linked. *)
LEMMA LinkKeepsLists ==
    ASSUME NEW L, NEW V, Shape(L, V), NEW p, NEW x, MayLink(L, V, p, x),
           NEW b, NEW a, Gap(L, p, b, a), NEW M, Linked(L, M, p, x, b, a),
           NEW n \in V
    PROVE  LinkedAt(M, V, n)
<1>1. /\ p \in V /\ V \in SUBSET AllNodes /\ x \in Nodes /\ x \in V /\ p # x /\ L.parent[x] = Null
      /\ Null \notin AllNodes /\ Nodes \subseteq AllNodes
    BY DomAssumption DEF MayLink, Shape, AllNodes
<1>2. /\ b # Null => b \in V \cap Nodes /\ L.parent[b] = p /\ L.next[b] = a
      /\ a # Null => a \in V \cap Nodes /\ L.parent[a] = p /\ L.prev[a] = b
      /\ b = Null => L.firstChild[p] = a
      /\ a = Null => L.lastChild[p] = b
      /\ a # Null => a # b
    BY <1>1, GapFacts
<1>3. /\ a # x /\ b # x
      /\ p # Null /\ x # Null /\ n # Null
    BY <1>1, <1>2
<1>4. \A m \in AllNodes :
          L.firstChild[m] # x /\ L.lastChild[m] # x /\ L.prev[m] # x /\ L.next[m] # x
    BY <1>1, NothingPointsToRoot
<1>5. \A m \in AllNodes :
          /\ M.parent[m] = IF m = x THEN p ELSE L.parent[m]
          /\ M.firstChild[m] = IF m = p /\ b = Null THEN x ELSE L.firstChild[m]
          /\ M.lastChild[m] = IF m = p /\ a = Null THEN x ELSE L.lastChild[m]
          /\ M.next[m] = IF m = x THEN a ELSE IF m = b THEN x ELSE L.next[m]
          /\ M.prev[m] = IF m = x THEN b ELSE IF m = a THEN x ELSE L.prev[m]
    BY DEF Linked
<1>6. LinkedAt(L, V, n) /\ LinkedAt(L, V, p) /\ n \in AllNodes /\ p \in AllNodes /\ x \in AllNodes
    BY <1>1 DEF Shape
<1>7. /\ L.parent[n] \in V \cup {Null} /\ L.firstChild[n] \in V \cup {Null}
      /\ L.lastChild[n] \in V \cup {Null}
      /\ L.prev[n] \in V \cup {Null} /\ L.next[n] \in V \cup {Null}
    BY <1>6 DEF LinkedAt
<1>8. M.firstChild[n] = Null <=> M.lastChild[n] = Null
    BY <1>1, <1>2, <1>3, <1>5, <1>6 DEF LinkedAt
<1>9. M.firstChild[n] # Null =>
          M.parent[M.firstChild[n]] = n /\ M.prev[M.firstChild[n]] = Null
    <2>1. CASE n = p /\ b = Null
        BY <1>3, <1>5, <1>6, <2>1
    <2>2. CASE ~(n = p /\ b = Null)
        <3>1. M.firstChild[n] = L.firstChild[n]
            BY <1>5, <1>6, <2>2
        <3> QED BY <1>1, <1>2, <1>3, <1>4, <1>5, <1>6, <1>7, <2>2, <3>1 DEF LinkedAt
    <2> QED BY <2>1, <2>2
<1>10. M.lastChild[n] # Null =>
          M.parent[M.lastChild[n]] = n /\ M.next[M.lastChild[n]] = Null
    <2>1. CASE n = p /\ a = Null
        BY <1>3, <1>5, <1>6, <2>1
    <2>2. CASE ~(n = p /\ a = Null)
        <3>1. M.lastChild[n] = L.lastChild[n]
            BY <1>5, <1>6, <2>2
        <3> QED BY <1>1, <1>2, <1>3, <1>4, <1>5, <1>6, <1>7, <2>2, <3>1 DEF LinkedAt
    <2> QED BY <2>1, <2>2
<1>11. M.next[n] # Null =>
          M.prev[M.next[n]] = n /\ M.parent[M.next[n]] = M.parent[n]
    <2>1. CASE n = x
        BY <1>1, <1>2, <1>3, <1>5, <1>6, <2>1
    <2>2. CASE n = b
        BY <1>2, <1>3, <1>5, <1>6, <2>2
    <2>3. CASE n # x /\ n # b
        <3>1. M.next[n] = L.next[n] /\ M.parent[n] = L.parent[n]
            BY <1>5, <1>6, <2>3
        <3> QED BY <1>1, <1>2, <1>3, <1>4, <1>5, <1>6, <1>7, <2>3, <3>1 DEF LinkedAt
    <2> QED BY <2>1, <2>2, <2>3
<1>12. M.prev[n] # Null =>
          M.next[M.prev[n]] = n /\ M.parent[M.prev[n]] = M.parent[n]
    <2>1. CASE n = x
        BY <1>1, <1>2, <1>3, <1>5, <1>6, <2>1
    <2>2. CASE n = a
        BY <1>2, <1>3, <1>5, <1>6, <2>2
    <2>3. CASE n # x /\ n # a
        <3>1. M.prev[n] = L.prev[n] /\ M.parent[n] = L.parent[n]
            BY <1>5, <1>6, <2>3
        <3> QED BY <1>1, <1>2, <1>3, <1>4, <1>5, <1>6, <1>7, <2>3, <3>1 DEF LinkedAt
    <2> QED BY <2>1, <2>2, <2>3
<1>13. /\ M.parent[n] # Null /\ M.prev[n] = Null => M.firstChild[M.parent[n]] = n
       /\ M.parent[n] # Null /\ M.next[n] = Null => M.lastChild[M.parent[n]] = n
    BY <1>1, <1>2, <1>3, <1>5, <1>6, <1>7 DEF LinkedAt
<1>14. /\ M.parent[n] \in V \cup {Null} /\ M.firstChild[n] \in V \cup {Null}
       /\ M.lastChild[n] \in V \cup {Null}
       /\ M.prev[n] \in V \cup {Null} /\ M.next[n] \in V \cup {Null}
    BY <1>1, <1>2, <1>5, <1>6, <1>7
<1> QED BY <1>8, <1>9, <1>10, <1>11, <1>12, <1>13, <1>14 DEF LinkedAt

(* Linking a node into a gap closes no circle of siblings. *)
LEMMA LinkKeepsSiblings ==
    ASSUME NEW L, NEW V, Shape(L, V), NEW p, NEW x, MayLink(L, V, p, x),
           NEW b, NEW a, Gap(L, p, b, a), NEW M, Linked(L, M, p, x, b, a)
    PROVE  Grounded(M.prev)
<1>1. /\ p \in V /\ V \in SUBSET AllNodes /\ x \in Nodes /\ L.parent[x] = Null
      /\ Null \notin AllNodes /\ Nodes \subseteq AllNodes
    BY DomAssumption DEF MayLink, Shape, AllNodes
<1>2. /\ b # Null => b \in Nodes /\ L.parent[b] = p
      /\ a # Null => a \in Nodes /\ L.parent[a] = p /\ L.prev[a] = b
    BY <1>1, GapFacts
<1>3. b # x /\ a # x
    BY <1>1, <1>2
<1>4. \A m \in Nodes : /\ L.prev[m] # x
                       /\ M.prev[m] = IF m = x THEN b ELSE IF m = a THEN x ELSE L.prev[m]
    BY <1>1, NothingPointsToRoot DEF Linked
<1>5. SUFFICES ASSUME NEW S \in SUBSET Nodes, S # {} PROVE \E n \in S : M.prev[n] \notin S
    BY DEF Grounded
<1>6. CASE S = {x}
    BY <1>1, <1>3, <1>4, <1>6
<1>7. CASE S # {x}
    <2>1. PICK S0 \in SUBSET Nodes : S0 = S \ {x}
        OBVIOUS
    <2>2. S0 # {}
        BY <1>5, <1>7, <2>1
    <2>3. PICK n \in S0 : L.prev[n] \notin S0
        BY <2>1, <2>2 DEF Shape, Grounded
    <2>4. n \in S /\ n \in Nodes /\ n # x /\ L.prev[n] \notin S
        BY <1>4, <2>1, <2>3
    <2>5. CASE n # a
        BY <1>4, <2>4, <2>5
    <2>6. CASE n = a /\ x \notin S
        BY <1>4, <2>4, <2>6
    <2>7. CASE n = a /\ x \in S
        <3>1. M.prev[x] = b /\ b \notin S
            BY <1>1, <1>2, <1>4, <2>4, <2>7
        <3> QED BY <2>7, <3>1
    <2> QED BY <2>5, <2>6, <2>7
<1> QED BY <1>6, <1>7

(* Linking a node into a gap closes no circle of parents: the new parent is  *)
(* not below the node.                                                       *)
LEMMA LinkKeepsParents ==
    ASSUME NEW L, NEW V, Shape(L, V), NEW p, NEW x, MayLink(L, V, p, x),
           NEW b, NEW a, NEW M, Linked(L, M, p, x, b, a)
    PROVE  Grounded(M.parent)
<1>1. x \in Nodes /\ x \in AllNodes /\ p # x /\ p \notin DeleteChildren(L, x)
      /\ Nodes \subseteq AllNodes
    BY DEF MayLink, Shape, AllNodes
<1>2. PICK B : B = DeleteChildren(L, x) \cup {x}
    OBVIOUS
<1>3. \A n \in Nodes : L.parent[n] \in B => n \in B
    BY <1>1, <1>2, SubtreeFacts
<1>4. \A n \in Nodes : M.parent[n] = IF n = x THEN p ELSE L.parent[n]
    BY <1>1 DEF Linked
<1>5. SUFFICES ASSUME NEW S \in SUBSET Nodes, S # {} PROVE \E n \in S : M.parent[n] \notin S
    BY DEF Grounded
<1>6. CASE x \notin S
    <2>1. PICK n \in S : L.parent[n] \notin S
        BY <1>5 DEF Shape, Grounded
    <2> QED BY <1>4, <1>6, <2>1
<1>7. CASE x \in S /\ S \subseteq B
    BY <1>1, <1>2, <1>4, <1>7
<1>8. CASE x \in S /\ ~(S \subseteq B)
    <2>1. PICK S0 \in SUBSET Nodes : S0 = S \ B
        OBVIOUS
    <2>2. S0 # {}
        BY <1>8, <2>1
    <2>3. PICK n \in S0 : L.parent[n] \notin S0
        BY <2>1, <2>2 DEF Shape, Grounded
    <2>4. n \in S /\ n \in Nodes /\ n \notin B
        BY <2>1, <2>3
    <2>5. L.parent[n] \notin B /\ n # x
        BY <1>2, <1>3, <2>4
    <2> QED BY <1>4, <2>1, <2>3, <2>4, <2>5
<1> QED BY <1>6, <1>7, <1>8

(* An insertion within its contract keeps the shape. *)
LEMMA LinkKeepsShape ==
    ASSUME NEW L, NEW V, Shape(L, V), NEW p, NEW x, MayLink(L, V, p, x),
           NEW b, NEW a, Gap(L, p, b, a), NEW M, Linked(L, M, p, x, b, a)
    PROVE  Shape(M, V)
<1>1. /\ p \in V /\ V \in SUBSET AllNodes /\ x \in V \cap Nodes /\ L.parent[x] = Null
      /\ Null \notin AllNodes /\ Nodes \subseteq AllNodes /\ Doc \in V /\ Doc \notin Nodes
    BY DomAssumption DEF MayLink, Shape, AllNodes
<1>2. /\ b # Null => b \in V /\ L.parent[b] = p
      /\ a # Null => a \in V /\ L.parent[a] = p
    BY <1>1, GapFacts
<1>3. \A m \in AllNodes :
          /\ M.parent[m] = IF m = x THEN p ELSE L.parent[m]
          /\ M.firstChild[m] = IF m = p /\ b = Null THEN x ELSE L.firstChild[m]
          /\ M.lastChild[m] = IF m = p /\ a = Null THEN x ELSE L.lastChild[m]
          /\ M.next[m] = IF m = x THEN a ELSE IF m = b THEN x ELSE L.next[m]
          /\ M.prev[m] = IF m = x THEN b ELSE IF m = a THEN x ELSE L.prev[m]
    BY DEF Linked
<1>4. FreeNull(M, V)
    <2> SUFFICES ASSUME NEW n \in AllNodes \ V
                 PROVE  /\ M.parent[n] = Null /\ M.firstChild[n] = Null /\ M.lastChild[n] = Null
                        /\ M.prev[n] = Null /\ M.next[n] = Null
        BY DEF FreeNull
    <2>1. /\ L.parent[n] = Null /\ L.firstChild[n] = Null /\ L.lastChild[n] = Null
          /\ L.prev[n] = Null /\ L.next[n] = Null
        BY DEF Shape, FreeNull
    <2>2. n # x /\ n # p /\ n # b /\ n # a
        BY <1>1, <1>2
    <2> QED BY <1>3, <2>1, <2>2
<1>5. Unlinked(M)
    <2>1. M.parent[Doc] = Null
        BY <1>1, <1>3 DEF Shape, Unlinked
    <2>2. ASSUME NEW n \in AllNodes, M.parent[n] = Null PROVE M.prev[n] = Null /\ M.next[n] = Null
        <3>1. n # x /\ L.parent[n] = Null
            BY <1>1, <1>3, <2>2
        <3>2. n # a /\ n # b
            BY <1>1, <1>2, <3>1
        <3>3. L.prev[n] = Null /\ L.next[n] = Null
            BY <3>1 DEF Shape, Unlinked
        <3> QED BY <1>3, <3>1, <3>2, <3>3
    <2> QED BY <2>1, <2>2 DEF Unlinked
<1>6. \A n \in V : LinkedAt(M, V, n)
    BY LinkKeepsLists
<1>7. Grounded(M.parent) /\ Grounded(M.prev)
    BY LinkKeepsParents, LinkKeepsSiblings
<1> QED BY <1>1, <1>4, <1>5, <1>6, <1>7 DEF Shape, Linked

-----------------------------------------------------------------------------
(* Construction and destruction.                                             *)

(* XMLNode writes null to every pointer of the nodes of D and to no other.   *)
LEMMA XMLNodeFields ==
    ASSUME NEW L \in Links, NEW D
    PROVE  /\ XMLNode(L, D) \in Links
           /\ \A n \in AllNodes :
                 /\ XMLNode(L, D).parent[n] = IF n \in D THEN Null ELSE L.parent[n]
                 /\ XMLNode(L, D).firstChild[n] = IF n \in D THEN Null ELSE L.firstChild[n]
                 /\ XMLNode(L, D).lastChild[n] = IF n \in D THEN Null ELSE L.lastChild[n]
                 /\ XMLNode(L, D).prev[n] = IF n \in D THEN Null ELSE L.prev[n]
                 /\ XMLNode(L, D).next[n] = IF n \in D THEN Null ELSE L.next[n]
BY DEF XMLNode, Links, Pointer

(* Pointers are what they are at every node. *)
LEMMA LinksEqual ==
    ASSUME NEW L \in Links, NEW M \in Links,
           \A n \in AllNodes : /\ M.parent[n] = L.parent[n] /\ M.firstChild[n] = L.firstChild[n]
                               /\ M.lastChild[n] = L.lastChild[n]
                               /\ M.prev[n] = L.prev[n] /\ M.next[n] = L.next[n]
    PROVE  M = L
<1>1. M.parent = L.parent
    BY DEF Links
<1>2. M.firstChild = L.firstChild
    BY DEF Links
<1>3. M.lastChild = L.lastChild
    BY DEF Links
<1>4. M.prev = L.prev
    BY DEF Links
<1>5. M.next = L.next
    BY DEF Links
<1>6. \A f \in {"parent", "firstChild", "lastChild", "prev", "next"} : M[f] = L[f]
    BY <1>1, <1>2, <1>3, <1>4, <1>5
<1> QED BY <1>6 DEF Links

(* A new node is linked nowhere, and nothing changes for the others. *)
LEMMA ConstructKeepsShape ==
    ASSUME NEW L, NEW V, Shape(L, V), NEW x \in Nodes, x \notin V
    PROVE  /\ XMLNode(L, {x}) = L
           /\ Shape(L, V \cup {x})
           /\ \A p \in V : MayLink(L, V \cup {x}, p, x)
<1>1. L \in Links /\ V \in SUBSET AllNodes /\ x \in AllNodes /\ Nodes \subseteq AllNodes
    BY DEF Shape, AllNodes
<1>2. /\ L.parent[x] = Null /\ L.firstChild[x] = Null /\ L.lastChild[x] = Null
      /\ L.prev[x] = Null /\ L.next[x] = Null
    BY <1>1 DEF Shape, FreeNull
<1>3. XMLNode(L, {x}) = L
    <2>1. XMLNode(L, {x}) \in Links
        BY <1>1, XMLNodeFields
    <2>2. \A n \in AllNodes :
              /\ XMLNode(L, {x}).parent[n] = L.parent[n]
              /\ XMLNode(L, {x}).firstChild[n] = L.firstChild[n]
              /\ XMLNode(L, {x}).lastChild[n] = L.lastChild[n]
              /\ XMLNode(L, {x}).prev[n] = L.prev[n]
              /\ XMLNode(L, {x}).next[n] = L.next[n]
        BY <1>1, <1>2, XMLNodeFields
    <2> QED BY <1>1, <2>1, <2>2, LinksEqual
<1>4. Shape(L, V \cup {x})
    <2>1. FreeNull(L, V \cup {x})
        BY DEF Shape, FreeNull
    <2>2. ASSUME NEW n \in V PROVE LinkedAt(L, V \cup {x}, n)
        <3>1. LinkedAt(L, V, n)
            BY DEF Shape
        <3> QED BY <3>1 DEF LinkedAt
    <2>3. LinkedAt(L, V \cup {x}, x)
        BY <1>2 DEF LinkedAt
    <2> QED BY <1>1, <2>1, <2>2, <2>3 DEF Shape
<1>5. DeleteChildren(L, x) = {}
    <2>1. PICK S \in SUBSET Nodes : S = {}
        OBVIOUS
    <2>2. /\ L.firstChild[x] \in S \cup {Null}
          /\ \A m \in S : L.firstChild[m] \in S \cup {Null} /\ L.next[m] \in S \cup {Null}
        BY <1>2, <2>1
    <2>3. DeleteChildren(L, x) \subseteq S
        BY <1>1, <2>2, SubtreeClosed
    <2> QED BY <2>1, <2>3
<1>6. \A p \in V : MayLink(L, V \cup {x}, p, x)
    BY <1>2, <1>5 DEF MayLink
<1> QED BY <1>3, <1>4, <1>6

(* The nodes D are what hangs below some nodes without parent, with them, or *)
(* what hangs below q.                                                       *)
Severable(L, V, D, q) ==
    /\ D \in SUBSET (V \cap Nodes)
    /\ \A n \in D : L.parent[n] \in D \cup {q, Null}
    /\ \A n \in AllNodes : L.parent[n] \in D => n \in D
    /\ \A n \in AllNodes : L.parent[n] = q /\ q # Null => n \in D
    /\ q \notin D

(* M are the pointers when the nodes D are gone, and q has no children. *)
Severed(L, M, D, q) ==
    /\ M \in Links
    /\ \A n \in AllNodes :
          /\ M.parent[n] = IF n \in D THEN Null ELSE L.parent[n]
          /\ M.firstChild[n] = IF n \in D \/ n = q THEN Null ELSE L.firstChild[n]
          /\ M.lastChild[n] = IF n \in D \/ n = q THEN Null ELSE L.lastChild[n]
          /\ M.prev[n] = IF n \in D THEN Null ELSE L.prev[n]
          /\ M.next[n] = IF n \in D THEN Null ELSE L.next[n]

(* Such nodes can go: no pointer of what stays leads to them. *)
LEMMA SeverKeepsShape ==
    ASSUME NEW L, NEW V, Shape(L, V), NEW D, NEW q, Severable(L, V, D, q),
           NEW M, Severed(L, M, D, q)
    PROVE  Shape(M, V \ D)
<1>1. /\ V \in SUBSET AllNodes /\ Null \notin AllNodes /\ Nodes \subseteq AllNodes
      /\ Doc \in V /\ Doc \notin Nodes
    BY DomAssumption DEF Shape, AllNodes
<1>2. /\ D \in SUBSET (V \cap Nodes)
      /\ \A n \in D : L.parent[n] \in D \cup {q, Null}
      /\ \A n \in AllNodes : L.parent[n] \in D => n \in D
      /\ \A n \in AllNodes : L.parent[n] = q /\ q # Null => n \in D
      /\ q \notin D
    BY DEF Severable
<1>3. \A n \in AllNodes :
          /\ M.parent[n] = IF n \in D THEN Null ELSE L.parent[n]
          /\ M.firstChild[n] = IF n \in D \/ n = q THEN Null ELSE L.firstChild[n]
          /\ M.lastChild[n] = IF n \in D \/ n = q THEN Null ELSE L.lastChild[n]
          /\ M.prev[n] = IF n \in D THEN Null ELSE L.prev[n]
          /\ M.next[n] = IF n \in D THEN Null ELSE L.next[n]
    BY DEF Severed
<1>4. FreeNull(M, V \ D)
    <2> SUFFICES ASSUME NEW n \in AllNodes \ (V \ D)
                 PROVE  /\ M.parent[n] = Null /\ M.firstChild[n] = Null /\ M.lastChild[n] = Null
                        /\ M.prev[n] = Null /\ M.next[n] = Null
        BY DEF FreeNull
    <2>1. CASE n \in D
        BY <1>3, <2>1
    <2>2. CASE n \notin D
        <3>1. /\ L.parent[n] = Null /\ L.firstChild[n] = Null /\ L.lastChild[n] = Null
              /\ L.prev[n] = Null /\ L.next[n] = Null
            BY <2>2 DEF Shape, FreeNull
        <3> QED BY <1>3, <2>2, <3>1
    <2> QED BY <2>1, <2>2
<1>5. Unlinked(M)
    BY <1>1, <1>2, <1>3 DEF Shape, Unlinked
<1>6. ASSUME NEW n \in V \ D PROVE LinkedAt(M, V \ D, n)
    <2>1. LinkedAt(L, V, n) /\ n \in AllNodes /\ n # Null
        BY <1>1 DEF Shape
    <2>2. /\ L.parent[n] \in (V \ D) \cup {Null}
          /\ n # q => L.firstChild[n] \in (V \ D) \cup {Null}
          /\ n # q => L.lastChild[n] \in (V \ D) \cup {Null}
        BY <1>2, <2>1 DEF LinkedAt
    <2>3. L.parent[n] = Null => L.prev[n] = Null /\ L.next[n] = Null
        BY <2>1 DEF Shape, Unlinked
    <2>4. /\ L.prev[n] \in (V \ D) \cup {Null}
          /\ L.next[n] \in (V \ D) \cup {Null}
        BY <1>2, <2>1, <2>3 DEF LinkedAt
    <2>5. L.parent[n] # Null => L.parent[n] # q
        BY <1>2, <2>1
    <2>6. M.firstChild[n] = Null <=> M.lastChild[n] = Null
        BY <1>3, <2>1 DEF LinkedAt
    <2>7. /\ M.firstChild[n] # Null =>
                M.parent[M.firstChild[n]] = n /\ M.prev[M.firstChild[n]] = Null
          /\ M.lastChild[n] # Null =>
                M.parent[M.lastChild[n]] = n /\ M.next[M.lastChild[n]] = Null
        BY <1>1, <1>3, <2>1, <2>2 DEF LinkedAt
    <2>8. /\ M.next[n] # Null => M.prev[M.next[n]] = n /\ M.parent[M.next[n]] = M.parent[n]
          /\ M.prev[n] # Null => M.next[M.prev[n]] = n /\ M.parent[M.prev[n]] = M.parent[n]
        BY <1>1, <1>3, <2>1, <2>4 DEF LinkedAt
    <2>9. /\ M.parent[n] # Null /\ M.prev[n] = Null => M.firstChild[M.parent[n]] = n
          /\ M.parent[n] # Null /\ M.next[n] = Null => M.lastChild[M.parent[n]] = n
        BY <1>1, <1>3, <2>1, <2>2, <2>5 DEF LinkedAt
    <2>10. /\ M.parent[n] \in (V \ D) \cup {Null} /\ M.firstChild[n] \in (V \ D) \cup {Null}
           /\ M.lastChild[n] \in (V \ D) \cup {Null}
           /\ M.prev[n] \in (V \ D) \cup {Null} /\ M.next[n] \in (V \ D) \cup {Null}
        BY <1>3, <2>1, <2>2, <2>4
    <2> QED BY <2>6, <2>7, <2>8, <2>9, <2>10 DEF LinkedAt
<1>7. Grounded(M.parent)
    <2> SUFFICES ASSUME NEW S \in SUBSET Nodes, S # {} PROVE \E n \in S : M.parent[n] \notin S
        BY DEF Grounded
    <2>1. PICK n \in S : L.parent[n] \notin S
        BY DEF Shape, Grounded
    <2>2. n \in AllNodes /\ Null \notin S
        BY <1>1
    <2> QED BY <1>3, <2>1, <2>2
<1>8. Grounded(M.prev)
    <2> SUFFICES ASSUME NEW S \in SUBSET Nodes, S # {} PROVE \E n \in S : M.prev[n] \notin S
        BY DEF Grounded
    <2>1. PICK n \in S : L.prev[n] \notin S
        BY DEF Shape, Grounded
    <2>2. n \in AllNodes /\ Null \notin S
        BY <1>1
    <2> QED BY <1>3, <2>1, <2>2
<1> QED BY <1>1, <1>2, <1>4, <1>5, <1>6, <1>7, <1>8 DEF Shape, Severed

(* DeleteChildren: the pointers of the parent and of what goes are null. *)
LEMMA DestroyChildrenKeepsShape ==
    ASSUME NEW L, NEW V, Shape(L, V), NEW p \in V, NEW M,
           M = XMLNode([L EXCEPT !.firstChild[p] = Null, !.lastChild[p] = Null],
                       DeleteChildren(L, p))
    PROVE  /\ Shape(M, V \ DeleteChildren(L, p))
           /\ Severable(L, V, DeleteChildren(L, p), p)
           /\ Severed(L, M, DeleteChildren(L, p), p)
<1>1. L \in Links /\ p \in AllNodes /\ Null \notin AllNodes
    BY DomAssumption DEF Shape, AllNodes
<1>2. PICK E : E = [L EXCEPT !.firstChild[p] = Null, !.lastChild[p] = Null]
    OBVIOUS
<1>3. E \in Links
    BY <1>1, <1>2 DEF Links, Pointer
<1>4. /\ E.parent = L.parent /\ E.prev = L.prev /\ E.next = L.next
      /\ E.firstChild = [L.firstChild EXCEPT ![p] = Null]
      /\ E.lastChild = [L.lastChild EXCEPT ![p] = Null]
    BY <1>1, <1>2 DEF Links
<1>5. \A n \in AllNodes : /\ E.firstChild[n] = IF n = p THEN Null ELSE L.firstChild[n]
                          /\ E.lastChild[n] = IF n = p THEN Null ELSE L.lastChild[n]
    BY <1>1, <1>4 DEF Links
<1>6. PICK T : T = DeleteChildren(L, p)
    OBVIOUS
<1>7. M = XMLNode(E, T)
    BY <1>2, <1>6
<1>8. Severed(L, M, T, p)
    <2>1. M \in Links /\ \A n \in AllNodes :
              /\ M.parent[n] = IF n \in T THEN Null ELSE E.parent[n]
              /\ M.firstChild[n] = IF n \in T THEN Null ELSE E.firstChild[n]
              /\ M.lastChild[n] = IF n \in T THEN Null ELSE E.lastChild[n]
              /\ M.prev[n] = IF n \in T THEN Null ELSE E.prev[n]
              /\ M.next[n] = IF n \in T THEN Null ELSE E.next[n]
        BY <1>3, <1>7, XMLNodeFields
    <2>2. \A n \in AllNodes :
              /\ M.firstChild[n] = IF n \in T \/ n = p THEN Null ELSE L.firstChild[n]
              /\ M.lastChild[n] = IF n \in T \/ n = p THEN Null ELSE L.lastChild[n]
        BY <1>5, <2>1
    <2> QED BY <1>4, <2>1, <2>2 DEF Severed
<1>9. Severable(L, V, T, p)
    <2>1. /\ T \in SUBSET (V \cap Nodes)
          /\ \A n \in T : L.parent[n] \in T \cup {p}
          /\ \A n \in AllNodes : L.parent[n] \in T \cup {p} => n \in T
          /\ p \notin T
        BY <1>1, <1>6, SubtreeFacts
    <2> QED BY <2>1 DEF Severable
<1> QED BY <1>6, <1>8, <1>9, SeverKeepsShape

(* Roots and what hangs below them go together. *)
LEMMA SubtreesSeverable ==
    ASSUME NEW L, NEW V, Shape(L, V), NEW R \in SUBSET (V \cap Nodes),
           \A r \in R : L.parent[r] = Null,
           NEW D, D = UNION {DeleteChildren(L, r) \cup {r} : r \in R}
    PROVE  /\ Severable(L, V, D, Null)
           /\ Shape(XMLNode(L, D), V \ D)
           /\ {n \in D : L.parent[n] = Null} = R
<1>1. /\ L \in Links /\ V \in SUBSET AllNodes /\ Null \notin AllNodes /\ Nodes \subseteq AllNodes
    BY DomAssumption DEF Shape, AllNodes
<1>2. ASSUME NEW r \in R
      PROVE  /\ DeleteChildren(L, r) \in SUBSET (V \cap Nodes)
             /\ \A n \in DeleteChildren(L, r) : L.parent[n] \in DeleteChildren(L, r) \cup {r}
             /\ \A n \in AllNodes : L.parent[n] \in DeleteChildren(L, r) \cup {r}
                                        => n \in DeleteChildren(L, r)
    <2>1. r \in AllNodes
        BY <1>1
    <2> QED BY <2>1, SubtreeFacts
<1>3. \A n : n \in D <=> \E r \in R : n \in DeleteChildren(L, r) \cup {r}
    OBVIOUS
<1>4. D \in SUBSET (V \cap Nodes)
    BY <1>2, <1>3
<1>5. \A n \in D : L.parent[n] \in D \cup {Null}
    BY <1>2, <1>3
<1>6. \A n \in AllNodes : L.parent[n] \in D => n \in D
    BY <1>2, <1>3
<1>7. Null \notin D
    BY <1>1, <1>4
<1>8. Severable(L, V, D, Null)
    BY <1>4, <1>5, <1>6, <1>7 DEF Severable
<1>9. Severed(L, XMLNode(L, D), D, Null)
    BY <1>1, XMLNodeFields DEF Severed
<1>10. {n \in D : L.parent[n] = Null} = R
    <2>1. \A r \in R : r \in D
        BY <1>3
    <2>2. ASSUME NEW n \in D, L.parent[n] = Null PROVE n \in R
        <3>1. PICK r \in R : n \in DeleteChildren(L, r) \cup {r}
            BY <1>3
        <3>2. n \notin DeleteChildren(L, r)
            <4>1. \A m \in DeleteChildren(L, r) : L.parent[m] \in AllNodes
                BY <1>1, <1>2
            <4> QED BY <1>1, <2>2, <4>1
        <3> QED BY <3>1, <3>2
    <2> QED BY <2>1, <2>2
<1> QED BY <1>8, <1>9, <1>10, SeverKeepsShape

(* The pointers when c has left the list of its parent's children. *)
Detached(L, p, c) == [Unlink(L, p, c) EXCEPT !.prev[c] = Null, !.next[c] = Null]

(* What Unlink changes: the pointers of the parent and of the neighbours. *)
LEMMA UnlinkFields ==
    ASSUME NEW L, NEW V, Shape(L, V), NEW c \in Nodes, NEW p, p = L.parent[c], p # Null
    PROVE  /\ Unlink(L, p, c) \in Links
           /\ c \in V /\ p \in V
           /\ \A n \in AllNodes :
                 /\ Unlink(L, p, c).parent[n] = IF n = c THEN Null ELSE L.parent[n]
                 /\ Unlink(L, p, c).firstChild[n] =
                       IF n = p /\ L.prev[c] = Null THEN L.next[c] ELSE L.firstChild[n]
                 /\ Unlink(L, p, c).lastChild[n] =
                       IF n = p /\ L.next[c] = Null THEN L.prev[c] ELSE L.lastChild[n]
                 /\ Unlink(L, p, c).next[n] = IF n = L.prev[c] THEN L.next[c] ELSE L.next[n]
                 /\ Unlink(L, p, c).prev[n] = IF n = L.next[c] THEN L.prev[c] ELSE L.prev[n]
<1>1. /\ L \in Links /\ V \in SUBSET AllNodes /\ c \in AllNodes /\ Null \notin AllNodes
      /\ Nodes \subseteq AllNodes
    BY DomAssumption DEF Shape, AllNodes
<1>2. c \in V
    BY <1>1 DEF Shape, FreeNull
<1>3. p \in V /\ p \in AllNodes
    BY <1>1, NeverToDoc
<1>4. PICK nx : nx = L.next[c]
    OBVIOUS
<1>5. PICK pv : pv = L.prev[c]
    OBVIOUS
<1>6. /\ nx \in Nodes \cup {Null} /\ pv \in Nodes \cup {Null}
      /\ nx \in Pointer /\ pv \in Pointer /\ Null \in Pointer
    BY <1>1, <1>4, <1>5, NeverToDoc DEF Pointer, AllNodes
<1>7. /\ c = L.firstChild[p] <=> pv = Null
      /\ c = L.lastChild[p] <=> nx = Null
    <2>1. LinkedAt(L, V, c) /\ LinkedAt(L, V, p)
        BY <1>2, <1>3 DEF Shape
    <2>2. c # Null
        BY <1>1
    <2> QED BY <1>4, <1>5, <2>1, <2>2 DEF LinkedAt
<1>8. PICK next : next = IF pv = Null THEN L.next ELSE [L.next EXCEPT ![pv] = nx]
    OBVIOUS
<1>9. PICK prev : prev = IF nx = Null THEN L.prev ELSE [L.prev EXCEPT ![nx] = pv]
    OBVIOUS
<1>10. PICK M : M = Unlink(L, p, c)
    OBVIOUS
<1>11. L \in [{"parent", "firstChild", "lastChild", "prev", "next"} -> [AllNodes -> Pointer]]
    BY <1>1 DEF Links
<1>12. next \in [AllNodes -> Pointer] /\ prev \in [AllNodes -> Pointer]
    BY <1>1, <1>6, <1>8, <1>9, <1>11
<1>13. M = [L EXCEPT !.firstChild[p] = IF c = @ THEN nx ELSE @,
                     !.lastChild[p] = IF c = @ THEN pv ELSE @,
                     !.next = next, !.prev = prev, !.parent[c] = Null]
    BY <1>4, <1>5, <1>8, <1>9, <1>10, Zenon DEF Unlink
<1>14. PICK first : first = IF pv = Null THEN nx ELSE L.firstChild[p]
    OBVIOUS
<1>15. PICK last : last = IF nx = Null THEN pv ELSE L.lastChild[p]
    OBVIOUS
<1>16. first \in Pointer /\ last \in Pointer
    <2>1. L.firstChild[p] \in Pointer /\ L.lastChild[p] \in Pointer
        BY <1>1, <1>3, LinksType
    <2> QED BY <1>6, <1>14, <1>15, <2>1
<1>17. M = [L EXCEPT !.firstChild[p] = first, !.lastChild[p] = last,
                     !.next = next, !.prev = prev, !.parent[c] = Null]
    BY <1>7, <1>11, <1>13, <1>14, <1>15
<1>18. M \in Links
    <2>1. M \in [{"parent", "firstChild", "lastChild", "prev", "next"} -> [AllNodes -> Pointer]]
        BY <1>1, <1>3, <1>6, <1>11, <1>12, <1>16, <1>17
    <2> QED BY <2>1 DEF Links
<1>19. /\ M.parent = [L.parent EXCEPT ![c] = Null]
       /\ M.firstChild = [L.firstChild EXCEPT ![p] = first]
       /\ M.lastChild = [L.lastChild EXCEPT ![p] = last]
       /\ M.next = next /\ M.prev = prev
    BY <1>11, <1>17
<1>20. ASSUME NEW n \in AllNodes
       PROVE  /\ M.parent[n] = IF n = c THEN Null ELSE L.parent[n]
              /\ M.firstChild[n] = IF n = p /\ pv = Null THEN nx ELSE L.firstChild[n]
              /\ M.lastChild[n] = IF n = p /\ nx = Null THEN pv ELSE L.lastChild[n]
              /\ M.next[n] = IF n = pv THEN nx ELSE L.next[n]
              /\ M.prev[n] = IF n = nx THEN pv ELSE L.prev[n]
    <2>1. n # Null
        BY <1>1
    <2>2. M.parent[n] = IF n = c THEN Null ELSE L.parent[n]
        BY <1>11, <1>19
    <2>3. /\ M.firstChild[n] = IF n = p /\ pv = Null THEN nx ELSE L.firstChild[n]
          /\ M.lastChild[n] = IF n = p /\ nx = Null THEN pv ELSE L.lastChild[n]
        BY <1>11, <1>14, <1>15, <1>19
    <2>4. M.next[n] = IF n = pv THEN nx ELSE L.next[n]
        BY <1>8, <1>11, <1>19, <2>1
    <2>5. M.prev[n] = IF n = nx THEN pv ELSE L.prev[n]
        BY <1>9, <1>11, <1>19, <2>1
    <2> QED BY <2>2, <2>3, <2>4, <2>5
<1> QED BY <1>2, <1>3, <1>4, <1>5, <1>10, <1>18, <1>20

(* Leaving the list of one's parent keeps every list doubly linked, and makes *)
(* a root of the node.                                                       *)
LEMMA DetachKeepsShape ==
    ASSUME NEW L, NEW V, Shape(L, V), NEW c \in Nodes, NEW p, p = L.parent[c], p # Null
    PROVE  /\ Shape(Detached(L, p, c), V)
           /\ \A n \in AllNodes :
                 Detached(L, p, c).parent[n] = IF n = c THEN Null ELSE L.parent[n]
           /\ \A D : c \in D => XMLNode(Unlink(L, p, c), D) = XMLNode(Detached(L, p, c), D)
<1>1. /\ L \in Links /\ V \in SUBSET AllNodes /\ c \in AllNodes /\ Null \notin AllNodes
      /\ Nodes \subseteq AllNodes /\ Doc \in V /\ Doc \notin Nodes /\ c # Null
    BY DomAssumption DEF Shape, AllNodes
<1>2. PICK U : U = Unlink(L, p, c)
    OBVIOUS
<1>3. PICK M : M = Detached(L, p, c)
    OBVIOUS
<1>4. PICK a : a = L.next[c]
    OBVIOUS
<1>5. PICK b : b = L.prev[c]
    OBVIOUS
<1>6. U \in Links /\ c \in V /\ p \in V
    BY <1>2, UnlinkFields
<1>7. \A n \in AllNodes :
          /\ U.parent[n] = IF n = c THEN Null ELSE L.parent[n]
          /\ U.firstChild[n] = IF n = p /\ b = Null THEN a ELSE L.firstChild[n]
          /\ U.lastChild[n] = IF n = p /\ a = Null THEN b ELSE L.lastChild[n]
          /\ U.next[n] = IF n = b THEN a ELSE L.next[n]
          /\ U.prev[n] = IF n = a THEN b ELSE L.prev[n]
    BY <1>2, <1>4, <1>5, UnlinkFields
<1>8. M = [U EXCEPT !.prev[c] = Null, !.next[c] = Null]
    BY <1>2, <1>3 DEF Detached
<1>9. M \in Links
    BY <1>1, <1>6, <1>8 DEF Links, Pointer
<1>10. \A n \in AllNodes :
          /\ M.parent[n] = U.parent[n]
          /\ M.firstChild[n] = U.firstChild[n]
          /\ M.lastChild[n] = U.lastChild[n]
          /\ M.next[n] = IF n = c THEN Null ELSE U.next[n]
          /\ M.prev[n] = IF n = c THEN Null ELSE U.prev[n]
    BY <1>1, <1>6, <1>8 DEF Links
<1>11. \A n \in AllNodes :
          /\ M.parent[n] = IF n = c THEN Null ELSE L.parent[n]
          /\ M.firstChild[n] = IF n = p /\ b = Null THEN a ELSE L.firstChild[n]
          /\ M.lastChild[n] = IF n = p /\ a = Null THEN b ELSE L.lastChild[n]
          /\ M.next[n] = IF n = c THEN Null ELSE IF n = b THEN a ELSE L.next[n]
          /\ M.prev[n] = IF n = c THEN Null ELSE IF n = a THEN b ELSE L.prev[n]
    BY <1>7, <1>10
<1>12. LinkedAt(L, V, c) /\ LinkedAt(L, V, p)
    BY <1>6 DEF Shape
<1>13. a \in (V \cap Nodes) \cup {Null} /\ b \in (V \cap Nodes) \cup {Null}
    BY <1>1, <1>4, <1>5, NeverToDoc
<1>14. /\ a # Null => L.prev[a] = c /\ L.parent[a] = p
       /\ b # Null => L.next[b] = c /\ L.parent[b] = p
       /\ a = Null => L.lastChild[p] = c
       /\ b = Null => L.firstChild[p] = c
    BY <1>4, <1>5, <1>12 DEF LinkedAt
<1>15. p # c
    <2> SUFFICES ASSUME p = c PROVE FALSE
        OBVIOUS
    <2>1. {c} \in SUBSET Nodes /\ {c} # {}
        OBVIOUS
    <2>2. \E n \in {c} : L.parent[n] \notin {c}
        BY <2>1 DEF Shape, Grounded
    <2> QED BY <2>2
<1>16. b # c
    <2> SUFFICES ASSUME b = c PROVE FALSE
        OBVIOUS
    <2>1. {c} \in SUBSET Nodes /\ {c} # {}
        OBVIOUS
    <2>2. \E n \in {c} : L.prev[n] \notin {c}
        BY <2>1 DEF Shape, Grounded
    <2> QED BY <1>5, <2>2
<1>17. a # c
    BY <1>1, <1>5, <1>14, <1>16
<1>18. FreeNull(M, V)
    <2> SUFFICES ASSUME NEW n \in AllNodes \ V
                 PROVE  /\ M.parent[n] = Null /\ M.firstChild[n] = Null /\ M.lastChild[n] = Null
                        /\ M.prev[n] = Null /\ M.next[n] = Null
        BY DEF FreeNull
    <2>1. /\ L.parent[n] = Null /\ L.firstChild[n] = Null /\ L.lastChild[n] = Null
          /\ L.prev[n] = Null /\ L.next[n] = Null
        BY DEF Shape, FreeNull
    <2>2. n # c /\ n # p /\ n # b /\ n # a
        BY <1>1, <1>6, <1>13
    <2> QED BY <1>11, <2>1, <2>2
<1>19. Unlinked(M)
    <2>1. M.parent[Doc] = Null
        BY <1>1, <1>11 DEF Shape, Unlinked
    <2>2. ASSUME NEW n \in AllNodes, M.parent[n] = Null PROVE M.prev[n] = Null /\ M.next[n] = Null
        <3>1. CASE n = c
            BY <1>11, <3>1
        <3>2. CASE n # c
            <4>1. L.parent[n] = Null
                BY <1>11, <2>2, <3>2
            <4>2. L.prev[n] = Null /\ L.next[n] = Null
                BY <4>1 DEF Shape, Unlinked
            <4>3. n # a /\ n # b
                BY <1>1, <1>14, <4>1
            <4> QED BY <1>11, <3>2, <4>2, <4>3
        <3> QED BY <3>1, <3>2
    <2> QED BY <2>1, <2>2 DEF Unlinked
<1>20. ASSUME NEW n \in V PROVE LinkedAt(M, V, n)
    <2>1. LinkedAt(L, V, n) /\ n \in AllNodes /\ n # Null /\ p \in AllNodes
        BY <1>1, <1>6 DEF Shape
    <2>2. /\ L.parent[n] \in V \cup {Null} /\ L.firstChild[n] \in V \cup {Null}
          /\ L.lastChild[n] \in V \cup {Null}
          /\ L.prev[n] \in V \cup {Null} /\ L.next[n] \in V \cup {Null}
        BY <2>1 DEF LinkedAt
    <2>3. M.firstChild[n] = Null <=> M.lastChild[n] = Null
        <3>1. CASE n # p
            BY <1>11, <2>1, <3>1 DEF LinkedAt
        <3>2. CASE n = p
            <4>1. L.firstChild[p] # Null /\ L.lastChild[p] # Null
                <5>1. L.firstChild[p] # Null
                    <6>1. CASE b = Null
                        BY <1>1, <1>14, <6>1
                    <6>2. CASE a = Null
                        BY <1>1, <1>12, <1>14, <6>2 DEF LinkedAt
                    <6>3. CASE a # Null /\ b # Null
                        <7>1. c \in DeleteChildren(L, p)
                            BY <1>1, <2>1, SubtreeFacts
                        <7>2. PICK S \in SUBSET Nodes : S = {}
                            OBVIOUS
                        <7>3. ASSUME L.firstChild[p] = Null PROVE FALSE
                            <8>1. L.firstChild[p] \in S \cup {Null}
                                BY <7>3
                            <8>2. \A m \in S : L.firstChild[m] \in S \cup {Null}
                                               /\ L.next[m] \in S \cup {Null}
                                BY <7>2
                            <8>3. DeleteChildren(L, p) \subseteq S
                                BY <2>1, <8>1, <8>2, SubtreeClosed
                            <8> QED BY <7>1, <7>2, <8>3
                        <7> QED BY <7>3
                    <6> QED BY <6>1, <6>2, <6>3
                <5> QED BY <1>12, <5>1 DEF LinkedAt
            <4> QED BY <1>11, <2>1, <3>2, <4>1
        <3> QED BY <3>1, <3>2
    <2>4. /\ M.firstChild[n] # Null =>
                M.parent[M.firstChild[n]] = n /\ M.prev[M.firstChild[n]] = Null
          /\ M.lastChild[n] # Null =>
                M.parent[M.lastChild[n]] = n /\ M.next[M.lastChild[n]] = Null
        <3>1. CASE n = p
            <4>1. M.firstChild[n] # Null =>
                      M.parent[M.firstChild[n]] = n /\ M.prev[M.firstChild[n]] = Null
                BY <1>1, <1>5, <1>11, <1>13, <1>14, <1>17, <2>1, <2>2, <3>1 DEF LinkedAt
            <4>2. M.lastChild[n] # Null =>
                      M.parent[M.lastChild[n]] = n /\ M.next[M.lastChild[n]] = Null
                BY <1>1, <1>4, <1>11, <1>13, <1>14, <1>16, <2>1, <2>2, <3>1 DEF LinkedAt
            <4> QED BY <4>1, <4>2
        <3>2. CASE n # p
            <4>1. M.firstChild[n] = L.firstChild[n] /\ M.lastChild[n] = L.lastChild[n]
                BY <1>11, <2>1, <3>2
            <4>2. /\ L.firstChild[n] # Null => L.firstChild[n] # c /\ L.firstChild[n] # a
                  /\ L.lastChild[n] # Null => L.lastChild[n] # c /\ L.lastChild[n] # b
                BY <1>14, <2>1, <3>2 DEF LinkedAt
            <4> QED BY <1>1, <1>11, <2>1, <2>2, <4>1, <4>2 DEF LinkedAt
        <3> QED BY <3>1, <3>2
    <2>5. M.next[n] # Null => M.prev[M.next[n]] = n /\ M.parent[M.next[n]] = M.parent[n]
        <3>1. CASE n = c
            BY <1>11, <2>1, <3>1
        <3>2. CASE n = b /\ n # c
            BY <1>1, <1>11, <1>13, <1>14, <1>17, <2>1, <3>2
        <3>3. CASE n # b /\ n # c
            <4>1. M.next[n] = L.next[n] /\ M.parent[n] = L.parent[n]
                BY <1>11, <2>1, <3>3
            <4>2. L.next[n] # Null => L.next[n] # c /\ L.next[n] # a
                BY <1>1, <1>5, <1>14, <2>1, <3>3 DEF LinkedAt
            <4> QED BY <1>1, <1>11, <2>1, <2>2, <4>1, <4>2 DEF LinkedAt
        <3> QED BY <3>1, <3>2, <3>3
    <2>6. M.prev[n] # Null => M.next[M.prev[n]] = n /\ M.parent[M.prev[n]] = M.parent[n]
        <3>1. CASE n = c
            BY <1>11, <2>1, <3>1
        <3>2. CASE n = a /\ n # c
            BY <1>1, <1>11, <1>13, <1>14, <1>16, <2>1, <3>2
        <3>3. CASE n # a /\ n # c
            <4>1. M.prev[n] = L.prev[n] /\ M.parent[n] = L.parent[n]
                BY <1>11, <2>1, <3>3
            <4>2. L.prev[n] # Null => L.prev[n] # c /\ L.prev[n] # b
                BY <1>1, <1>4, <1>14, <2>1, <3>3 DEF LinkedAt
            <4> QED BY <1>1, <1>11, <2>1, <2>2, <4>1, <4>2 DEF LinkedAt
        <3> QED BY <3>1, <3>2, <3>3
    <2>7. /\ M.parent[n] # Null /\ M.prev[n] = Null => M.firstChild[M.parent[n]] = n
          /\ M.parent[n] # Null /\ M.next[n] = Null => M.lastChild[M.parent[n]] = n
        <3>1. CASE n = c
            BY <1>11, <2>1, <3>1
        <3>2. CASE n # c
            <4>1. M.parent[n] = L.parent[n]
                BY <1>11, <2>1, <3>2
            <4>2. M.parent[n] # Null /\ M.prev[n] = Null => M.firstChild[M.parent[n]] = n
                BY <1>1, <1>11, <1>14, <2>1, <2>2, <3>2, <4>1 DEF LinkedAt
            <4>3. M.parent[n] # Null /\ M.next[n] = Null => M.lastChild[M.parent[n]] = n
                BY <1>1, <1>11, <1>14, <2>1, <2>2, <3>2, <4>1 DEF LinkedAt
            <4> QED BY <4>2, <4>3
        <3> QED BY <3>1, <3>2
    <2>8. /\ M.parent[n] \in V \cup {Null} /\ M.firstChild[n] \in V \cup {Null}
          /\ M.lastChild[n] \in V \cup {Null}
          /\ M.prev[n] \in V \cup {Null} /\ M.next[n] \in V \cup {Null}
        BY <1>11, <1>13, <2>1, <2>2
    <2> QED BY <2>3, <2>4, <2>5, <2>6, <2>7, <2>8 DEF LinkedAt
<1>21. Grounded(M.parent)
    <2> SUFFICES ASSUME NEW S \in SUBSET Nodes, S # {} PROVE \E n \in S : M.parent[n] \notin S
        BY DEF Grounded
    <2>1. PICK n \in S : L.parent[n] \notin S
        BY DEF Shape, Grounded
    <2>2. n \in AllNodes /\ Null \notin S
        BY <1>1
    <2> QED BY <1>11, <2>1, <2>2
<1>22. Grounded(M.prev)
    <2> SUFFICES ASSUME NEW S \in SUBSET Nodes, S # {} PROVE \E n \in S : M.prev[n] \notin S
        BY DEF Grounded
    <2>1. \A n \in S : n \in AllNodes /\ n # Null
        BY <1>1
    <2>2. CASE c \in S
        BY <1>1, <1>11, <2>1, <2>2
    <2>3. CASE c \notin S
        <3>1. PICK S0 \in SUBSET Nodes : S0 = IF a \in S /\ b \in S THEN S \cup {c} ELSE S
            OBVIOUS
        <3>2. PICK n \in S0 : L.prev[n] \notin S0
            BY <3>1 DEF Shape, Grounded
        <3>3. CASE a \in S /\ b \in S
            <4>1. n # c /\ n # a
                BY <1>1, <1>5, <1>14, <2>1, <3>1, <3>2, <3>3
            <4> QED BY <1>11, <2>1, <3>1, <3>2, <3>3, <4>1
        <3>4. CASE ~(a \in S /\ b \in S)
            BY <1>11, <2>1, <2>3, <3>1, <3>2, <3>4
        <3> QED BY <3>3, <3>4
    <2> QED BY <2>2, <2>3
<1>23. Shape(M, V)
    BY <1>1, <1>9, <1>18, <1>19, <1>20, <1>21, <1>22 DEF Shape
<1>24. ASSUME NEW D, c \in D PROVE XMLNode(U, D) = XMLNode(M, D)
    <2>1. XMLNode(U, D) \in Links /\ XMLNode(M, D) \in Links
        BY <1>6, <1>9, XMLNodeFields
    <2>2. \A n \in AllNodes :
              /\ XMLNode(M, D).parent[n] = XMLNode(U, D).parent[n]
              /\ XMLNode(M, D).firstChild[n] = XMLNode(U, D).firstChild[n]
              /\ XMLNode(M, D).lastChild[n] = XMLNode(U, D).lastChild[n]
              /\ XMLNode(M, D).prev[n] = XMLNode(U, D).prev[n]
              /\ XMLNode(M, D).next[n] = XMLNode(U, D).next[n]
        BY <1>6, <1>9, <1>10, <1>24, XMLNodeFields
    <2> QED BY <2>1, <2>2, LinksEqual
<1> QED BY <1>2, <1>3, <1>11, <1>23, <1>24

(* M are the pointers when the nodes D, which are c and what hangs below it, *)
(* are gone.                                                                 *)
Deleted(L, M, V, D, c) ==
    /\ D \in SUBSET (V \cap Nodes)
    /\ Shape(M, V \ D)
    /\ \A n \in AllNodes : M.parent[n] = IF n \in D THEN Null ELSE L.parent[n]
    /\ \A n \in D : L.parent[n] = Null => n = c

(* DELETE_NODE: the node leaves its parent, if it has one, and goes with     *)
(* what hangs below it.                                                      *)
LEMMA DeleteNodeKeepsShape ==
    ASSUME NEW L, NEW V, Shape(L, V), NEW c \in V \cap Nodes,
           NEW D, D = DeleteChildren(L, c) \cup {c}, NEW M, M = XMLNode(DeleteNode(L, c), D)
    PROVE  Deleted(L, M, V, D, c)
<1>1. /\ L \in Links /\ V \in SUBSET AllNodes /\ Null \notin AllNodes /\ Nodes \subseteq AllNodes
      /\ c \in AllNodes
    BY DomAssumption DEF Shape, AllNodes
<1>2. PICK T : T = DeleteChildren(L, c)
    OBVIOUS
<1>3. /\ T \in SUBSET (V \cap Nodes)
      /\ \A n \in T : L.parent[n] \in T \cup {c}
      /\ \A n \in AllNodes : L.parent[n] \in T \cup {c} => n \in T
      /\ c \notin T
    BY <1>1, <1>2, SubtreeFacts
<1>4. D = T \cup {c} /\ D \in SUBSET (V \cap Nodes) /\ Null \notin D
    BY <1>1, <1>2, <1>3
<1>5. \A n \in D : L.parent[n] = Null => n = c
    BY <1>1, <1>3, <1>4
<1>6. PICK M0 : M0 = IF L.parent[c] = Null THEN L ELSE Detached(L, L.parent[c], c)
    OBVIOUS
<1>7. /\ Shape(M0, V)
      /\ \A n \in AllNodes : M0.parent[n] = IF n = c THEN Null ELSE L.parent[n]
      /\ M = XMLNode(M0, D)
    <2>1. CASE L.parent[c] = Null
        BY <1>6, <2>1 DEF DeleteNode
    <2>2. CASE L.parent[c] # Null
        <3>1. c \in D
            BY <1>4
        <3> QED BY <1>6, <2>2, <3>1, DetachKeepsShape DEF DeleteNode
    <2> QED BY <2>1, <2>2
<1>8. M0 \in Links
    BY <1>7 DEF Shape
<1>9. Severable(M0, V, D, Null)
    <2>1. \A n \in D : M0.parent[n] \in D \cup {Null}
        BY <1>1, <1>3, <1>4, <1>7
    <2>2. \A n \in AllNodes : M0.parent[n] \in D => n \in D
        BY <1>3, <1>4, <1>7
    <2> QED BY <1>4, <2>1, <2>2 DEF Severable
<1>10. Severed(M0, M, D, Null)
    <2>1. Severed(M0, XMLNode(M0, D), D, Null)
        BY <1>1, <1>8, XMLNodeFields DEF Severed
    <2> QED BY <1>7, <2>1
<1>11. Shape(M, V \ D)
    BY <1>7, <1>9, <1>10, SeverKeepsShape
<1>12. \A n \in AllNodes : M.parent[n] = IF n \in D THEN Null ELSE L.parent[n]
    BY <1>4, <1>7, <1>10 DEF Severed
<1> QED BY <1>4, <1>5, <1>11, <1>12 DEF Deleted

-----------------------------------------------------------------------------
(* What the readers rely on follows from the shape.                          *)

(* A walk along next or prev, from start. *)
LEMMA WalkClosed ==
    ASSUME NEW L, NEW V, Shape(L, V), NEW f \in {"next", "prev"}, NEW s \in Nodes \cup {Null}
    PROVE  /\ Reached(L, {f}, s) \in SUBSET Nodes
           /\ s \in Reached(L, {f}, s) \cup {Null}
           /\ \A n \in Reached(L, {f}, s) : L[f][n] \in Reached(L, {f}, s) \cup {Null}
           /\ \A S \in SUBSET Nodes :
                 /\ s \in S \cup {Null}
                 /\ \A m \in S : L[f][m] \in S \cup {Null}
                 => Reached(L, {f}, s) \subseteq S
<1> DEFINE Good(S) == s \in S \cup {Null} /\ \A m \in S : L[f][m] \in S \cup {Null}
<1>1. Reached(L, {f}, s) = {n \in Nodes : \A S \in SUBSET Nodes : Good(S) => n \in S}
    BY DEF Reached
<1>2. PICK T : T = Reached(L, {f}, s)
    OBVIOUS
<1>3. \A n \in Nodes : L[f][n] \in Nodes \cup {Null}
    <2>1. \A n \in Nodes : n \in AllNodes
        BY DEF AllNodes
    <2>2. \A n \in Nodes : L.next[n] \in Nodes \cup {Null} /\ L.prev[n] \in Nodes \cup {Null}
        BY <2>1, NeverToDoc
    <2> QED BY <2>2
<1>4. T \in SUBSET Nodes
    BY <1>1, <1>2
<1>5. \A S \in SUBSET Nodes : Good(S) => T \subseteq S
    BY <1>1, <1>2
<1>6. \A n \in Nodes : (\A S \in SUBSET Nodes : Good(S) => n \in S) => n \in T
    BY <1>1, <1>2
<1>7. s \in T \cup {Null}
    BY <1>6
<1>8. ASSUME NEW n \in T PROVE L[f][n] \in T \cup {Null}
    <2>1. ASSUME NEW S \in SUBSET Nodes, Good(S) PROVE L[f][n] \in S \cup {Null}
        <3>1. n \in S
            BY <1>5, <2>1
        <3> QED BY <2>1, <3>1
    <2> QED BY <1>3, <1>4, <1>6, <2>1
<1> QED BY <1>2, <1>4, <1>5, <1>7, <1>8

(* The pointer that leads back. *)
Back(f) == IF f = "next" THEN "prev" ELSE "next"

(* Siblings point at each other and have one parent. *)
LEMMA SiblingsAgree ==
    ASSUME NEW L, NEW V, Shape(L, V), NEW f \in {"next", "prev"}, NEW n \in Nodes, L[f][n] # Null
    PROVE  /\ L[f][n] \in Nodes /\ n \in V
           /\ L[Back(f)][L[f][n]] = n
           /\ L.parent[L[f][n]] = L.parent[n]
<1>1. n \in AllNodes
    BY DEF AllNodes
<1>2. n \in V
    BY <1>1 DEF Shape, FreeNull
<1>3. LinkedAt(L, V, n)
    BY <1>2 DEF Shape
<1>4. L.next[n] \in Nodes \cup {Null} /\ L.prev[n] \in Nodes \cup {Null}
    BY <1>1, NeverToDoc
<1>5. CASE f = "next"
    BY <1>2, <1>3, <1>4, <1>5 DEF LinkedAt, Back
<1>6. CASE f = "prev"
    BY <1>2, <1>3, <1>4, <1>6 DEF LinkedAt, Back
<1> QED BY <1>5, <1>6

(* A list that has a start has an end: a circle of next pointers would be a  *)
(* circle of prev pointers, by counting.                                     *)
LEMMA SiblingsGrounded ==
    ASSUME NEW L, NEW V, Shape(L, V), NEW f \in {"next", "prev"}
    PROVE  Grounded(L[f])
<1>1. CASE f = "prev"
    BY <1>1 DEF Shape
<1>2. CASE f = "next"
    <2> SUFFICES ASSUME NEW S \in SUBSET Nodes, S # {}, \A n \in S : L.next[n] \in S
                 PROVE  FALSE
        BY <1>2 DEF Grounded
    <2>1. Null \notin Nodes
        BY DomAssumption
    <2>2. \A n \in S : L.prev[L.next[n]] = n
        BY <2>1, SiblingsAgree DEF Back
    <2>3. PICK h : h = [n \in S |-> L.next[n]]
        OBVIOUS
    <2>4. h \in Injection(S, S)
        BY <2>2, <2>3 DEF Injection, IsInjective
    <2>5. IsFiniteSet(S)
        BY DomAssumption, FS_Subset
    <2>6. h \in Surjection(S, S)
        BY <2>4, <2>5, FS_Injection
    <2>7. \A n \in S : \E m \in S : h[m] = n
        BY <2>6 DEF Surjection
    <2>8. \A n \in S : L.prev[n] \in S
        BY <2>2, <2>3, <2>7
    <2> QED BY <2>8 DEF Shape, Grounded
<1> QED BY <1>1, <1>2

(* A walk from n meets n, and then what a walk from the next node meets; it  *)
(* never comes back to n.                                                    *)
LEMMA WalkStep ==
    ASSUME NEW L, NEW V, Shape(L, V), NEW f \in {"next", "prev"}, NEW n \in Nodes
    PROVE  /\ n \in Reached(L, {f}, n)
           /\ \A m : m \in Reached(L, {f}, n) <=> m = n \/ m \in Reached(L, {f}, L[f][n])
           /\ n \notin Reached(L, {f}, L[f][n])
           /\ Reached(L, {f}, Null) = {}
<1>1. L[f][n] \in Nodes \cup {Null} /\ Null \notin Nodes
    BY SiblingsAgree, DomAssumption
<1>2. PICK A : A = Reached(L, {f}, n)
    OBVIOUS
<1>3. PICK B : B = Reached(L, {f}, L[f][n])
    OBVIOUS
<1>4. /\ A \in SUBSET Nodes /\ n \in A
      /\ \A m \in A : L[f][m] \in A \cup {Null}
      /\ \A S \in SUBSET Nodes :
            n \in S \cup {Null} /\ (\A m \in S : L[f][m] \in S \cup {Null}) => A \subseteq S
    BY <1>1, <1>2, WalkClosed
<1>5. /\ B \in SUBSET Nodes /\ L[f][n] \in B \cup {Null}
      /\ \A m \in B : L[f][m] \in B \cup {Null}
      /\ \A S \in SUBSET Nodes :
            L[f][n] \in S \cup {Null} /\ (\A m \in S : L[f][m] \in S \cup {Null}) => B \subseteq S
    BY <1>1, <1>3, WalkClosed
<1>6. B \subseteq A
    BY <1>4, <1>5
<1>7. A \subseteq {n} \cup B
    <2>1. PICK S \in SUBSET Nodes : S = {n} \cup B
        BY <1>5
    <2>2. n \in S \cup {Null} /\ \A m \in S : L[f][m] \in S \cup {Null}
        BY <1>5, <2>1
    <2> QED BY <1>4, <2>1, <2>2
<1>8. n \notin B
    <2> SUFFICES ASSUME n \in B PROVE FALSE
        OBVIOUS
    <2>1. PICK S \in SUBSET Nodes : S = {m \in B : L[Back(f)][m] \in B}
        BY <1>5
    <2>2. L[f][n] \in S \cup {Null}
        BY <1>5, <2>1, SiblingsAgree
    <2>3. ASSUME NEW m \in S PROVE L[f][m] \in S \cup {Null}
        <3>1. m \in B /\ m \in Nodes
            BY <2>1
        <3>2. L[f][m] # Null => L[Back(f)][L[f][m]] = m
            BY <3>1, SiblingsAgree
        <3> QED BY <1>5, <2>1, <3>1, <3>2
    <2>4. B \subseteq S
        BY <1>5, <2>2, <2>3
    <2>5. Back(f) \in {"next", "prev"}
        BY DEF Back
    <2>6. PICK m \in B : L[Back(f)][m] \notin B
        BY <1>5, <2>5, SiblingsGrounded DEF Grounded
    <2> QED BY <2>1, <2>4, <2>6
<1>9. Reached(L, {f}, Null) = {}
    <2>1. PICK C : C = Reached(L, {f}, Null)
        OBVIOUS
    <2>2. \A S \in SUBSET Nodes :
              Null \in S \cup {Null} /\ (\A m \in S : L[f][m] \in S \cup {Null}) => C \subseteq S
        BY <2>1, WalkClosed
    <2>3. PICK S \in SUBSET Nodes : S = {}
        OBVIOUS
    <2>4. Null \in S \cup {Null} /\ \A m \in S : L[f][m] \in S \cup {Null}
        BY <2>3
    <2>5. C \subseteq S
        BY <2>2, <2>4
    <2> QED BY <2>1, <2>3, <2>5
<1> QED BY <1>2, <1>3, <1>4, <1>6, <1>7, <1>8, <1>9

(* From a node that a walk meets, the walk goes on; it stays among siblings; *)
(* walking back leads to where it came from.                                 *)
LEMMA WalkFacts ==
    ASSUME NEW L, NEW V, Shape(L, V), NEW f \in {"next", "prev"}, NEW n \in Nodes,
           NEW m \in Reached(L, {f}, n)
    PROVE  /\ m \in Nodes
           /\ Reached(L, {f}, m) \subseteq Reached(L, {f}, n)
           /\ L.parent[m] = L.parent[n]
           /\ n \in Reached(L, {Back(f)}, m)
           /\ n \in Reached(L, {f}, m) => m = n
<1>1. PICK A : A = Reached(L, {f}, n)
    OBVIOUS
<1>2. /\ A \in SUBSET Nodes /\ n \in A
      /\ \A k \in A : L[f][k] \in A \cup {Null}
      /\ \A S \in SUBSET Nodes :
            n \in S \cup {Null} /\ (\A k \in S : L[f][k] \in S \cup {Null}) => A \subseteq S
    BY <1>1, WalkClosed, WalkStep
<1>3. m \in A /\ m \in Nodes
    BY <1>1, <1>2
<1>4. Reached(L, {f}, m) \subseteq A
    <2>1. m \in A \cup {Null}
        BY <1>3
    <2> QED BY <1>2, <1>3, <2>1, WalkClosed
<1>5. L.parent[m] = L.parent[n]
    <2>1. PICK S \in SUBSET Nodes : S = {k \in A : L.parent[k] = L.parent[n]}
        BY <1>2
    <2>2. n \in S \cup {Null}
        BY <1>2, <2>1
    <2>3. ASSUME NEW k \in S PROVE L[f][k] \in S \cup {Null}
        <3>1. k \in A /\ k \in Nodes /\ L.parent[k] = L.parent[n]
            BY <2>1
        <3>2. L[f][k] # Null => L.parent[L[f][k]] = L.parent[k]
            BY <3>1, SiblingsAgree
        <3> QED BY <1>2, <2>1, <3>1, <3>2
    <2>4. A \subseteq S
        BY <1>2, <2>2, <2>3
    <2> QED BY <1>3, <2>1, <2>4
<1>6. n \in Reached(L, {Back(f)}, m)
    <2>0. Back(f) \in {"next", "prev"}
        BY DEF Back
    <2>1. PICK S \in SUBSET Nodes : S = {k \in A : n \in Reached(L, {Back(f)}, k)}
        BY <1>2
    <2>2. n \in S \cup {Null}
        BY <1>2, <2>0, <2>1, WalkStep
    <2>3. ASSUME NEW k \in S, L[f][k] # Null PROVE L[f][k] \in S
        <3>1. k \in A /\ k \in Nodes /\ n \in Reached(L, {Back(f)}, k)
            BY <2>1
        <3>2. L[f][k] \in A /\ L[f][k] \in Nodes /\ L[Back(f)][L[f][k]] = k
            BY <1>2, <2>3, <3>1, SiblingsAgree
        <3>3. n \in Reached(L, {Back(f)}, L[Back(f)][L[f][k]])
                  => n \in Reached(L, {Back(f)}, L[f][k])
            BY <2>0, <3>2, WalkStep
        <3> QED BY <2>1, <3>1, <3>2, <3>3
    <2>4. A \subseteq S
        BY <1>2, <2>2, <2>3
    <2> QED BY <1>3, <2>1, <2>4
<1>7. ASSUME n \in Reached(L, {f}, m), m # n PROVE FALSE
    <2>1. n \notin Reached(L, {f}, L[f][n])
        BY WalkStep
    <2>2. m \in Reached(L, {f}, L[f][n])
        BY <1>7, WalkStep
    <2>3. L[f][n] \in Nodes
        <3>1. L[f][n] \in Nodes \cup {Null}
            BY <1>2
        <3>2. Reached(L, {f}, Null) = {}
            BY WalkStep
        <3> QED BY <2>2, <3>1, <3>2
    <2>4. Reached(L, {f}, m) \subseteq Reached(L, {f}, L[f][n])
        <3>1. PICK B : B = Reached(L, {f}, L[f][n])
            OBVIOUS
        <3>2. B \in SUBSET Nodes /\ \A k \in B : L[f][k] \in B \cup {Null}
            BY <2>3, <3>1, WalkClosed
        <3>3. m \in B \cup {Null}
            BY <2>2, <3>1
        <3>4. Reached(L, {f}, m) \subseteq B
            BY <1>3, <3>2, <3>3, WalkClosed
        <3> QED BY <3>1, <3>4
    <2> QED BY <1>7, <2>1, <2>4
<1> QED BY <1>1, <1>3, <1>4, <1>5, <1>6, <1>7

(* Of two nodes that a walk meets, it meets one first. *)
LEMMA WalkTotal ==
    ASSUME NEW L, NEW V, Shape(L, V), NEW f \in {"next", "prev"}, NEW s \in Nodes,
           NEW x \in Reached(L, {f}, s), NEW y \in Reached(L, {f}, s)
    PROVE  x \in Reached(L, {f}, y) \/ y \in Reached(L, {f}, x)
<1>1. PICK A : A = Reached(L, {f}, s)
    OBVIOUS
<1>2. /\ A \in SUBSET Nodes /\ s \in A
      /\ \A k \in A : L[f][k] \in A \cup {Null}
      /\ \A S \in SUBSET Nodes :
            s \in S \cup {Null} /\ (\A k \in S : L[f][k] \in S \cup {Null}) => A \subseteq S
    BY <1>1, WalkClosed, WalkStep
<1>3. PICK S \in SUBSET Nodes :
          S = {k \in A : x \in Reached(L, {f}, k) \/ k \in Reached(L, {f}, x)}
    BY <1>2
<1>4. s \in S
    BY <1>1, <1>2, <1>3
<1>5. ASSUME NEW k \in S, L[f][k] # Null PROVE L[f][k] \in S
    <2>1. k \in A /\ k \in Nodes /\ x \in Nodes
        BY <1>1, <1>2, <1>3
    <2>2. L[f][k] \in A
        BY <1>2, <1>5, <2>1
    <2>3. CASE x \in Reached(L, {f}, k)
        <3>1. x = k \/ x \in Reached(L, {f}, L[f][k])
            BY <2>1, <2>3, WalkStep
        <3>2. L[f][k] \in Reached(L, {f}, k)
            <4>1. k \in Reached(L, {f}, k)
                BY <2>1, WalkStep
            <4> QED BY <1>5, <2>1, <4>1, WalkClosed
        <3> QED BY <1>3, <2>2, <3>1, <3>2
    <2>4. CASE k \in Reached(L, {f}, x)
        <3>1. L[f][k] \in Reached(L, {f}, x)
            BY <1>5, <2>1, <2>4, WalkClosed
        <3> QED BY <1>3, <2>2, <3>1
    <2> QED BY <1>3, <2>3, <2>4
<1>6. A \subseteq S
    BY <1>2, <1>4, <1>5
<1> QED BY <1>1, <1>3, <1>6

(* Of the nodes of a set that a walk meets, it meets one before the others.  *)
LEMMA WalkFirst ==
    ASSUME NEW L, NEW V, Shape(L, V), NEW f \in {"next", "prev"}, NEW s \in Nodes \cup {Null},
           NEW H, H # {}, \A h \in H : h \in Reached(L, {f}, s)
    PROVE  \E n \in H : \A h \in H : h \in Reached(L, {f}, n)
<1> SUFFICES ASSUME \A n \in H : \E h \in H : h \notin Reached(L, {f}, n) PROVE FALSE
    OBVIOUS
<1>1. PICK A : A = Reached(L, {f}, s)
    OBVIOUS
<1>2. /\ A \in SUBSET Nodes /\ s \in A \cup {Null}
      /\ \A k \in A : L[f][k] \in A \cup {Null}
    BY <1>1, WalkClosed
<1>3. s \in A
    <2>1. PICK h \in H : TRUE
        OBVIOUS
    <2>2. h \in A
        BY <1>1
    <2>3. h \in Nodes
        BY <1>2, <2>2
    <2>4. Reached(L, {f}, Null) = {}
        BY <2>3, WalkStep
    <2> QED BY <1>1, <1>2, <2>2, <2>4
<1>4. PICK S \in SUBSET Nodes : S = {k \in A : H \subseteq Reached(L, {f}, k)}
    BY <1>2
<1>5. s \in S
    BY <1>1, <1>3, <1>4
<1>6. PICK k \in S : L[f][k] \notin S
    BY <1>5, SiblingsGrounded DEF Grounded
<1>7. k \in A /\ k \in Nodes /\ H \subseteq Reached(L, {f}, k) /\ k \notin H
    BY <1>2, <1>4
<1>8. \A h \in H : h \in Reached(L, {f}, L[f][k])
    BY <1>7, WalkStep
<1>9. L[f][k] # Null
    <2>1. Reached(L, {f}, Null) = {}
        BY <1>7, WalkStep
    <2> QED BY <1>8, <2>1
<1> QED BY <1>2, <1>4, <1>6, <1>7, <1>8, <1>9

(* The walks over the children of p, from either end, meet all of them and   *)
(* nothing else.                                                             *)
LEMMA WalkChildren ==
    ASSUME NEW L, NEW V, Shape(L, V), NEW p \in V
    PROVE  /\ Reached(L, {"next"}, L.firstChild[p]) = {n \in Nodes : L.parent[n] = p}
           /\ Reached(L, {"prev"}, L.lastChild[p]) = {n \in Nodes : L.parent[n] = p}
<1>1. /\ V \in SUBSET AllNodes /\ Null \notin AllNodes /\ Nodes \subseteq AllNodes
      /\ LinkedAt(L, V, p) /\ p \in AllNodes /\ p # Null
    BY DomAssumption DEF Shape, AllNodes
<1>2. L.firstChild[p] \in Nodes \cup {Null} /\ L.lastChild[p] \in Nodes \cup {Null}
    BY <1>1, NeverToDoc
<1>3. ASSUME NEW f \in {"next", "prev"}, NEW s \in Nodes \cup {Null},
             s # Null => L.parent[s] = p,
             \A n \in V : L.parent[n] = p /\ L[Back(f)][n] = Null => n = s
      PROVE  Reached(L, {f}, s) = {n \in Nodes : L.parent[n] = p}
    <2>0. Back(f) \in {"next", "prev"} /\ Back(Back(f)) = f
        BY DEF Back
    <2>1. PICK A : A = Reached(L, {f}, s)
        OBVIOUS
    <2>2. /\ A \in SUBSET Nodes /\ s \in A \cup {Null}
          /\ \A k \in A : L[f][k] \in A \cup {Null}
        BY <2>1, WalkClosed
    <2>3. ASSUME NEW n \in A PROVE L.parent[n] = p
        <3>1. s # Null
            <4>1. Reached(L, {f}, Null) = {}
                BY <2>2, WalkStep
            <4> QED BY <2>1, <4>1
        <3> QED BY <1>3, <2>1, <3>1, WalkFacts
    <2>4. ASSUME NEW n \in Nodes, L.parent[n] = p, n \notin A PROVE FALSE
        <3>1. PICK S \in SUBSET Nodes : S = {m \in Nodes : L.parent[m] = p /\ m \notin A}
            OBVIOUS
        <3>2. S # {}
            BY <2>4, <3>1
        <3>3. PICK m \in S : L[Back(f)][m] \notin S
            BY <2>0, <3>2, SiblingsGrounded DEF Grounded
        <3>4. m \in Nodes /\ L.parent[m] = p /\ m \notin A
            BY <3>1
        <3>5. m \in V
            BY <1>1, <3>4 DEF Shape, FreeNull
        <3>6. CASE L[Back(f)][m] = Null
            BY <1>1, <1>3, <2>2, <3>4, <3>5, <3>6
        <3>7. CASE L[Back(f)][m] # Null
            <4>1. /\ L[Back(f)][m] \in Nodes /\ L[f][L[Back(f)][m]] = m
                  /\ L.parent[L[Back(f)][m]] = p
                BY <2>0, <3>4, <3>7, SiblingsAgree
            <4>2. L[Back(f)][m] \in A
                BY <3>1, <3>3, <4>1
            <4> QED BY <1>1, <2>2, <3>4, <4>1, <4>2
        <3> QED BY <3>6, <3>7
    <2> QED BY <2>1, <2>2, <2>3, <2>4
<1>4. ASSUME NEW n \in V, L.parent[n] = p
      PROVE  /\ L.prev[n] = Null => n = L.firstChild[p]
             /\ L.next[n] = Null => n = L.lastChild[p]
    BY <1>1, <1>4 DEF Shape, LinkedAt
<1>5. Reached(L, {"next"}, L.firstChild[p]) = {n \in Nodes : L.parent[n] = p}
    BY <1>1, <1>2, <1>3, <1>4 DEF LinkedAt, Back
<1>6. Reached(L, {"prev"}, L.lastChild[p]) = {n \in Nodes : L.parent[n] = p}
    BY <1>1, <1>2, <1>3, <1>4 DEF LinkedAt, Back
<1> QED BY <1>5, <1>6

(* The nodes whose chain of parents leads to p are those that the destructor *)
(* of p reaches.                                                             *)
LEMMA BelowIsReached ==
    ASSUME NEW L, NEW V, Shape(L, V), NEW p \in V
    PROVE  Below(L, p) = DeleteChildren(L, p)
<1>1. /\ V \in SUBSET AllNodes /\ Null \notin AllNodes /\ Nodes \subseteq AllNodes
      /\ p \in AllNodes
    BY DomAssumption DEF Shape, AllNodes
<1>2. PICK T : T = DeleteChildren(L, p)
    OBVIOUS
<1>3. PICK B : B = Below(L, p)
    OBVIOUS
<1>4. /\ T \in SUBSET Nodes
      /\ \A n \in AllNodes : L.parent[n] \in T \cup {p} => n \in T
    BY <1>1, <1>2, SubtreeFacts
<1>5. /\ \A S \in SUBSET Nodes :
            (\A m \in Nodes : L.parent[m] \in S \cup {p} => m \in S) => B \subseteq S
      /\ B \in SUBSET Nodes
      /\ \A n \in Nodes :
            (\A S \in SUBSET Nodes :
                (\A m \in Nodes : L.parent[m] \in S \cup {p} => m \in S) => n \in S) => n \in B
    BY <1>3 DEF Below
<1>6. B \subseteq T
    BY <1>1, <1>4, <1>5
<1>7. ASSUME NEW m \in Nodes, L.parent[m] \in B \cup {p} PROVE m \in B
    <2>1. ASSUME NEW S \in SUBSET Nodes,
                 \A k \in Nodes : L.parent[k] \in S \cup {p} => k \in S
          PROVE  m \in S
        BY <1>5, <1>7, <2>1
    <2> QED BY <1>5, <2>1
<1>8. \A n \in B : L.parent[n] \in B \cup {p}
    <2>1. PICK S \in SUBSET Nodes : S = {n \in B : L.parent[n] \in B \cup {p}}
        BY <1>5
    <2>2. ASSUME NEW m \in Nodes, L.parent[m] \in S \cup {p} PROVE m \in S
        BY <1>7, <2>1, <2>2
    <2>3. B \subseteq S
        BY <1>5, <2>2
    <2> QED BY <2>1, <2>3
<1>9. T \subseteq B
    <2>1. \A n \in AllNodes : L.firstChild[n] # Null =>
              L.firstChild[n] \in Nodes /\ L.parent[L.firstChild[n]] = n
        <3> SUFFICES ASSUME NEW n \in AllNodes, L.firstChild[n] # Null
                     PROVE  L.firstChild[n] \in Nodes /\ L.parent[L.firstChild[n]] = n
            OBVIOUS
        <3>1. n \in V
            BY DEF Shape, FreeNull
        <3>2. LinkedAt(L, V, n)
            BY <3>1 DEF Shape
        <3> QED BY <3>2, NeverToDoc DEF LinkedAt
    <2>2. L.firstChild[p] \in B \cup {Null}
        BY <1>1, <1>7, <2>1
    <2>3. ASSUME NEW n \in B
          PROVE  L.firstChild[n] \in B \cup {Null} /\ L.next[n] \in B \cup {Null}
        <3>1. n \in Nodes /\ n \in AllNodes
            BY <1>1, <1>5
        <3>2. L.firstChild[n] \in B \cup {Null}
            BY <1>7, <2>1, <3>1
        <3>3. L.next[n] # Null => L.next[n] \in Nodes /\ L.parent[L.next[n]] = L.parent[n]
            BY <3>1, SiblingsAgree
        <3> QED BY <1>7, <1>8, <3>2, <3>3
    <2> QED BY <1>1, <1>2, <1>5, <2>2, <2>3, SubtreeClosed
<1> QED BY <1>2, <1>3, <1>6, <1>9

(* R orders the set K: y is in R[x] when a walk meets y from x on. *)
Ordered(R, K) ==
    /\ \A x \in K : x \in R[x]
    /\ \A x, y \in K : y \in R[x] /\ x \in R[y] => x = y
    /\ \A x, y, z \in K : y \in R[x] /\ z \in R[y] => z \in R[x]
    /\ \A x, y \in K : y \in R[x] \/ x \in R[y]
    /\ \A S \in SUBSET K : S # {} => \E x \in S : S \subseteq R[x]

(* first and last are the ends of K, Su and Pr the neighbours in it. *)
Ends(R, K, first, last) ==
    /\ K = {} => first = Null /\ last = Null
    /\ K # {} => first \in K /\ last \in K /\ \A n \in K : n \in R[first] /\ last \in R[n]

Neighbours(R, K, Su, Pr) ==
    \A n \in K :
        /\ (\A m \in K : m \in R[n] => m = n) => Su[n] = Null
        /\ (\E m \in K : m \in R[n] /\ m # n) =>
              /\ Su[n] \in K /\ Su[n] \in R[n] /\ Su[n] # n
              /\ \A m \in K : m \in R[n] /\ m # n => m \in R[Su[n]]
        /\ (\A m \in K : n \in R[m] => m = n) => Pr[n] = Null
        /\ (\E m \in K : n \in R[m] /\ m # n) =>
              /\ Pr[n] \in K /\ n \in R[Pr[n]] /\ Pr[n] # n
              /\ \A m \in K : n \in R[m] /\ m # n => Pr[n] \in R[m]

(* Loops over the neighbours, from either end, visit every member, in        *)
(* opposite orders.                                                          *)
LEMMA OrderedLoops ==
    ASSUME NEW R, NEW K, Null \notin K, Ordered(R, K),
           NEW first, NEW last, Ends(R, K, first, last),
           NEW Su, NEW Pr, Neighbours(R, K, Su, Pr)
    PROVE  OppositeLoops(K, first, last, Su, Pr)
<1>1. ASSUME NEW n \in K
      PROVE  /\ Su[n] = Null <=> \A m \in K : m \in R[n] => m = n
             /\ Pr[n] = Null <=> \A m \in K : n \in R[m] => m = n
             /\ Su[n] \in K \cup {Null} /\ Pr[n] \in K \cup {Null}
    BY DEF Neighbours
<1>2. ASSUME NEW n \in K PROVE (Pr[n] = Null <=> n = first) /\ (Su[n] = Null <=> n = last)
    <2>1. first \in K /\ last \in K /\ n \in R[first] /\ last \in R[n]
        BY DEF Ends
    <2>2. n = first => \A m \in K : n \in R[m] => m = n
        BY <2>1 DEF Ends, Ordered
    <2>3. n = last => \A m \in K : m \in R[n] => m = n
        BY <2>1 DEF Ends, Ordered
    <2> QED BY <1>1, <2>1, <2>2, <2>3
<1>3. ASSUME NEW m \in K, NEW n \in K, Su[m] = n PROVE Pr[n] = m
    <2>1. n \in R[m] /\ n # m /\ \A k \in K : k \in R[m] /\ k # m => k \in R[n]
        BY <1>3 DEF Neighbours
    <2>2. Pr[n] \in K /\ n \in R[Pr[n]] /\ Pr[n] # n /\ Pr[n] \in R[m]
        BY <2>1 DEF Neighbours
    <2>3. ASSUME Pr[n] # m PROVE FALSE
        <3>1. Pr[n] \in R[n]
            BY <2>1, <2>2, <2>3
        <3> QED BY <2>2, <3>1 DEF Ordered
    <2> QED BY <2>3
<1>4. ASSUME NEW m \in K, NEW n \in K, Pr[n] = m PROVE Su[m] = n
    <2>1. n \in R[m] /\ n # m /\ \A k \in K : n \in R[k] /\ k # n => m \in R[k]
        BY <1>4 DEF Neighbours
    <2>2. Su[m] \in K /\ Su[m] \in R[m] /\ Su[m] # m /\ n \in R[Su[m]]
        BY <2>1 DEF Neighbours
    <2>3. ASSUME Su[m] # n PROVE FALSE
        <3>1. m \in R[Su[m]]
            BY <2>1, <2>2, <2>3
        <3> QED BY <2>2, <3>1 DEF Ordered
    <2> QED BY <2>3
<1>5. ASSUME NEW S \in SUBSET K, first \in S, \A n \in S : Su[n] \in S \cup {Null},
             S # K
      PROVE  FALSE
    <2>1. PICK O \in SUBSET K : O = K \ S
        OBVIOUS
    <2>2. O # {}
        BY <1>5, <2>1
    <2>3. PICK x \in O : O \subseteq R[x]
        BY <2>2 DEF Ordered
    <2>4. x \in K /\ x \notin S /\ x # first
        BY <1>5, <2>1
    <2>5. Pr[x] \in K /\ x \in R[Pr[x]] /\ Pr[x] # x
        BY <1>1, <1>2, <2>4 DEF Neighbours
    <2>6. Pr[x] \in S
        <3>1. Pr[x] \notin R[x]
            BY <2>4, <2>5 DEF Ordered
        <3> QED BY <2>1, <2>3, <2>5, <3>1
    <2>7. Su[Pr[x]] = x
        BY <1>4, <2>4, <2>5
    <2> QED BY <1>5, <2>4, <2>6, <2>7
<1>6. {first, last} \subseteq (IF K = {} THEN {Null} ELSE K)
    BY DEF Ends
<1>7. \A n \in K : /\ Pr[n] = Null <=> n = first
                  /\ Su[n] = Null <=> n = last
                  /\ {Su[n], Pr[n]} \subseteq K \cup {Null}
    BY <1>1, <1>2
<1>8. \A m, n \in K : Su[m] = n <=> Pr[n] = m
    BY <1>3, <1>4
<1>9. \A S \in SUBSET K : first \in S /\ (\A n \in S : Su[n] \in S \cup {Null}) => S = K
    BY <1>5
<1> QED BY <1>6, <1>7, <1>8, <1>9, Zenon DEF OppositeLoops

(* The matches that the loop of an accessor meets, and what it returns. *)
Hits(name, f, s) == {n \in Reached(links, {f}, s) : Matches(name, n)}

(* The loop returns the match before all others, or null. *)
LEMMA FirstMatchFacts ==
    ASSUME NEW V, Shape(links, V), NEW f \in {"next", "prev"}, NEW s \in Nodes \cup {Null},
           NEW name
    PROVE  /\ Hits(name, f, s) = {} => FirstMatch(name, f, s) = Null
           /\ Hits(name, f, s) # {} =>
                 /\ FirstMatch(name, f, s) \in Hits(name, f, s)
                 /\ \A n \in Hits(name, f, s) :
                       n \in Reached(links, {f}, FirstMatch(name, f, s))
<1>1. FirstMatch(name, f, s) =
          IF Hits(name, f, s) = {} THEN Null
          ELSE CHOOSE n \in Hits(name, f, s) : Hits(name, f, s) \subseteq Reached(links, {f}, n)
    BY Zenon DEF FirstMatch, Hits
<1>2. ASSUME Hits(name, f, s) # {}
      PROVE  \E n \in Hits(name, f, s) : Hits(name, f, s) \subseteq Reached(links, {f}, n)
    <2>1. \A h \in Hits(name, f, s) : h \in Reached(links, {f}, s)
        BY DEF Hits
    <2>2. \E n \in Hits(name, f, s) : \A h \in Hits(name, f, s) : h \in Reached(links, {f}, n)
        BY <1>2, <2>1, WalkFirst
    <2> QED BY <2>2
<1> QED BY <1>1, <1>2

-----------------------------------------------------------------------------
(* What a reader of the document sees.                                       *)

Existing == Live \cup {Doc}

(* The children of p that match are ordered by the walk over the children.   *)
LEMMA ChildrenOrdered ==
    ASSUME NEW V, Shape(links, V), NEW p \in V, NEW K,
           K \in SUBSET {n \in Nodes : links.parent[n] = p},
           NEW R, R = [n \in Nodes |-> Reached(links, {"next"}, n)]
    PROVE  Ordered(R, K)
<1>0. V \in SUBSET AllNodes /\ p \in AllNodes
    BY DEF Shape
<1>1. PICK s : s = links.firstChild[p]
    OBVIOUS
<1>2. s \in Nodes \cup {Null}
    BY <1>0, <1>1, NeverToDoc
<1>3. \A n \in K : n \in Nodes /\ n \in Reached(links, {"next"}, s)
    <2>1. Reached(links, {"next"}, s) = {n \in Nodes : links.parent[n] = p}
        BY <1>1, WalkChildren
    <2> QED BY <2>1
<1>4. \A x \in K : \A y : y \in R[x] <=> y \in Reached(links, {"next"}, x)
    BY <1>3
<1>5. \A x \in K : x \in R[x]
    BY <1>3, <1>4, WalkStep
<1>6. \A x, y \in K : y \in R[x] /\ x \in R[y] => x = y
    BY <1>3, <1>4, WalkFacts
<1>7. \A x, y, z \in K : y \in R[x] /\ z \in R[y] => z \in R[x]
    <2> SUFFICES ASSUME NEW x \in K, NEW y \in K, NEW z \in K, y \in R[x], z \in R[y]
                 PROVE  z \in R[x]
        OBVIOUS
    <2>1. y \in Reached(links, {"next"}, x) /\ z \in Reached(links, {"next"}, y)
        BY <1>4
    <2>2. Reached(links, {"next"}, y) \subseteq Reached(links, {"next"}, x)
        BY <1>3, <2>1, WalkFacts
    <2> QED BY <1>4, <2>1, <2>2
<1>8. \A x, y \in K : y \in R[x] \/ x \in R[y]
    <2> SUFFICES ASSUME NEW x \in K, NEW y \in K PROVE y \in R[x] \/ x \in R[y]
        OBVIOUS
    <2>1. s \in Nodes
        <3>1. Reached(links, {"next"}, Null) = {}
            BY <1>3, WalkStep
        <3> QED BY <1>2, <1>3, <3>1
    <2>2. x \in Reached(links, {"next"}, y) \/ y \in Reached(links, {"next"}, x)
        BY <1>3, <2>1, WalkTotal
    <2> QED BY <1>4, <2>2
<1>9. ASSUME NEW S \in SUBSET K, S # {} PROVE \E x \in S : S \subseteq R[x]
    <2>1. \A h \in S : h \in Reached(links, {"next"}, s)
        BY <1>3
    <2>2. PICK x \in S : \A h \in S : h \in Reached(links, {"next"}, x)
        BY <1>2, <1>9, <2>1, WalkFirst
    <2> QED BY <1>4, <2>2
<1> QED BY <1>5, <1>6, <1>7, <1>8, <1>9 DEF Ordered

(* The four accessors are its ends and the neighbours in it. *)
LEMMA AccessorsOrdered ==
    ASSUME NEW V, Shape(links, V), NEW p \in V, NEW name, NEW K,
           K = {n \in Nodes : links.parent[n] = p /\ Matches(name, n)},
           NEW R, R = [n \in Nodes |-> Reached(links, {"next"}, n)],
           NEW Su, Su = [n \in K |-> NextSiblingElement(n, name)],
           NEW Pr, Pr = [n \in K |-> PreviousSiblingElement(n, name)]
    PROVE  /\ Ends(R, K, FirstChildElement(p, name), LastChildElement(p, name))
           /\ Neighbours(R, K, Su, Pr)
<1>0. V \in SUBSET AllNodes /\ p \in AllNodes /\ Null \notin AllNodes /\ Nodes \subseteq AllNodes
    BY DomAssumption DEF Shape, AllNodes
<1>1. \A n \in AllNodes : /\ links.firstChild[n] \in Nodes \cup {Null}
                          /\ links.lastChild[n] \in Nodes \cup {Null}
                          /\ links.next[n] \in Nodes \cup {Null}
                          /\ links.prev[n] \in Nodes \cup {Null}
    BY NeverToDoc
<1>2. \A x \in Nodes : \A y : y \in R[x] <=> y \in Reached(links, {"next"}, x)
    OBVIOUS
<1>3. \A x, y \in Nodes : y \in Reached(links, {"prev"}, x) <=> x \in Reached(links, {"next"}, y)
    <2>1. \A x, y \in Nodes : y \in Reached(links, {"prev"}, x) => x \in Reached(links, {"next"}, y)
        BY WalkFacts DEF Back
    <2>2. \A x, y \in Nodes : x \in Reached(links, {"next"}, y) => y \in Reached(links, {"prev"}, x)
        BY WalkFacts DEF Back
    <2> QED BY <2>1, <2>2
<1>4. Ends(R, K, FirstChildElement(p, name), LastChildElement(p, name))
    <2>1. Hits(name, "next", links.firstChild[p]) = K
        BY WalkChildren DEF Hits
    <2>2. Hits(name, "prev", links.lastChild[p]) = K
        BY WalkChildren DEF Hits
    <2>3. FirstChildElement(p, name) = FirstMatch(name, "next", links.firstChild[p])
        BY <1>0 DEF FirstChildElement, Handle
    <2>4. LastChildElement(p, name) = FirstMatch(name, "prev", links.lastChild[p])
        BY <1>0 DEF LastChildElement, Handle
    <2>5. PICK first : first = FirstChildElement(p, name)
        OBVIOUS
    <2>6. PICK last : last = LastChildElement(p, name)
        OBVIOUS
    <2>7. /\ K = {} => first = Null
          /\ K # {} => first \in K /\ \A n \in K : n \in Reached(links, {"next"}, first)
        BY <1>0, <1>1, <2>1, <2>3, <2>5, FirstMatchFacts
    <2>8. /\ K = {} => last = Null
          /\ K # {} => last \in K /\ \A n \in K : n \in Reached(links, {"prev"}, last)
        BY <1>0, <1>1, <2>2, <2>4, <2>6, FirstMatchFacts
    <2>9. \A n \in K : n \in Nodes
        OBVIOUS
    <2>10. Ends(R, K, first, last)
        BY <1>2, <1>3, <2>7, <2>8, <2>9 DEF Ends
    <2> QED BY <2>5, <2>6, <2>10
<1>5. ASSUME NEW n \in K
      PROVE  /\ (\A m \in K : m \in R[n] => m = n) => Su[n] = Null
             /\ (\E m \in K : m \in R[n] /\ m # n) =>
                   /\ Su[n] \in K /\ Su[n] \in R[n] /\ Su[n] # n
                   /\ \A m \in K : m \in R[n] /\ m # n => m \in R[Su[n]]
    <2>1. n \in Nodes /\ n \in AllNodes /\ n # Null /\ links.parent[n] = p
        BY <1>0
    <2>2. PICK H : H = Hits(name, "next", links.next[n])
        OBVIOUS
    <2>3. \A m : m \in H <=> m \in K /\ m \in R[n] /\ m # n
        <3>1. \A m : m \in Reached(links, {"next"}, links.next[n])
                     <=> m \in Reached(links, {"next"}, n) /\ m # n
            BY <2>1, WalkStep
        <3>2. \A m \in Reached(links, {"next"}, n) : m \in Nodes /\ links.parent[m] = p
            BY <2>1, WalkFacts
        <3>3. \A m : m \in H <=> m \in Reached(links, {"next"}, links.next[n]) /\ Matches(name, m)
            BY <2>2 DEF Hits
        <3> QED BY <1>2, <2>1, <3>1, <3>2, <3>3
    <2>4. Su[n] = FirstMatch(name, "next", links.next[n])
        BY <2>1 DEF NextSiblingElement, Handle
    <2>5. /\ H = {} => Su[n] = Null
          /\ H # {} => Su[n] \in H /\ \A m \in H : m \in Reached(links, {"next"}, Su[n])
        BY <1>1, <2>1, <2>2, <2>4, FirstMatchFacts
    <2>6. \A m \in K : m \in Nodes
        OBVIOUS
    <2> QED BY <1>2, <2>3, <2>5, <2>6
<1>6. ASSUME NEW n \in K
      PROVE  /\ (\A m \in K : n \in R[m] => m = n) => Pr[n] = Null
             /\ (\E m \in K : n \in R[m] /\ m # n) =>
                   /\ Pr[n] \in K /\ n \in R[Pr[n]] /\ Pr[n] # n
                   /\ \A m \in K : n \in R[m] /\ m # n => Pr[n] \in R[m]
    <2>1. n \in Nodes /\ n \in AllNodes /\ n # Null /\ links.parent[n] = p
        BY <1>0
    <2>2. PICK H : H = Hits(name, "prev", links.prev[n])
        OBVIOUS
    <2>3. \A m : m \in H <=> m \in K /\ n \in R[m] /\ m # n
        <3>1. \A m : m \in Reached(links, {"prev"}, links.prev[n])
                     <=> m \in Reached(links, {"prev"}, n) /\ m # n
            BY <2>1, WalkStep
        <3>2. \A m \in Reached(links, {"prev"}, n) : m \in Nodes /\ links.parent[m] = p
            BY <2>1, WalkFacts
        <3>3. \A m : m \in H <=> m \in Reached(links, {"prev"}, links.prev[n]) /\ Matches(name, m)
            BY <2>2 DEF Hits
        <3> QED BY <1>2, <1>3, <2>1, <3>1, <3>2, <3>3
    <2>4. Pr[n] = FirstMatch(name, "prev", links.prev[n])
        BY <2>1 DEF PreviousSiblingElement, Handle
    <2>5. /\ H = {} => Pr[n] = Null
          /\ H # {} => Pr[n] \in H /\ \A m \in H : m \in Reached(links, {"prev"}, Pr[n])
        BY <1>1, <2>1, <2>2, <2>4, FirstMatchFacts, SMTT(30)
    <2>6. \A m \in K : m \in Nodes
        OBVIOUS
    <2> QED BY <1>2, <1>3, <2>3, <2>5, <2>6
<1> QED BY <1>4, <1>5, <1>6 DEF Neighbours

(* The loops over the child elements of a name agree. *)
LEMMA ShapeGivesIterations ==
    ASSUME Shape(links, Existing)
    PROVE  IterationsAgree
<1> SUFFICES ASSUME NEW p \in Existing, NEW name \in Values \cup {Null}, NEW K,
                    K = {n \in Nodes : links.parent[n] = p /\ Matches(name, n)}
             PROVE  OppositeLoops(K, FirstChildElement(p, name), LastChildElement(p, name),
                                  [n \in K |-> NextSiblingElement(n, name)],
                                  [n \in K |-> PreviousSiblingElement(n, name)])
    BY Zenon DEF IterationsAgree, Existing
<1>2. PICK R : R = [n \in Nodes |-> Reached(links, {"next"}, n)]
    OBVIOUS
<1>3. PICK Su : Su = [n \in K |-> NextSiblingElement(n, name)]
    OBVIOUS
<1>4. PICK Pr : Pr = [n \in K |-> PreviousSiblingElement(n, name)]
    OBVIOUS
<1>5. PICK first : first = FirstChildElement(p, name)
    OBVIOUS
<1>6. PICK last : last = LastChildElement(p, name)
    OBVIOUS
<1>7. K \in SUBSET {n \in Nodes : links.parent[n] = p} /\ Null \notin K
    BY DomAssumption
<1>8. Ordered(R, K)
    BY <1>2, <1>7, ChildrenOrdered
<1>9. Ends(R, K, first, last) /\ Neighbours(R, K, Su, Pr)
    BY <1>2, <1>3, <1>4, <1>5, <1>6, AccessorsOrdered
<1>10. OppositeLoops(K, first, last, Su, Pr)
    BY <1>7, <1>8, <1>9, OrderedLoops
<1> QED BY <1>3, <1>4, <1>5, <1>6, <1>10

(* The document is a tree. *)
LEMMA ShapeGivesTree ==
    ASSUME Shape(links, Existing)
    PROVE  WellLinked /\ IsTree
<1>1. WellLinked
    <2> SUFFICES ASSUME NEW p \in Existing
                 PROVE  /\ links.firstChild[p] = Null <=> links.lastChild[p] = Null
                        /\ links.firstChild[p] # Null =>
                              /\ links.parent[links.firstChild[p]] = p
                              /\ links.prev[links.firstChild[p]] = Null
                        /\ links.lastChild[p] # Null =>
                              /\ links.parent[links.lastChild[p]] = p
                              /\ links.next[links.lastChild[p]] = Null
                        /\ links.next[p] # Null =>
                              /\ links.prev[links.next[p]] = p
                              /\ links.parent[links.next[p]] = links.parent[p]
                        /\ links.prev[p] # Null =>
                              /\ links.next[links.prev[p]] = p
                              /\ links.parent[links.prev[p]] = links.parent[p]
                        /\ links.parent[p] # Null /\ links.prev[p] = Null =>
                              links.firstChild[links.parent[p]] = p
                        /\ links.parent[p] # Null /\ links.next[p] = Null =>
                              links.lastChild[links.parent[p]] = p
                        /\ \A f \in DOMAIN links : links[f][p] \in Live \cup {Doc, Null}
        BY Zenon DEF WellLinked, Existing
    <2>1. LinkedAt(links, Existing, p) /\ links \in Links
        BY DEF Shape
    <2>2. \A f \in DOMAIN links : links[f][p] \in Live \cup {Doc, Null}
        <3>1. DOMAIN links = {"parent", "firstChild", "lastChild", "prev", "next"}
            BY <2>1 DEF Links
        <3>2. Existing \cup {Null} = Live \cup {Doc, Null}
            BY DEF Existing
        <3> QED BY <2>1, <3>1, <3>2 DEF LinkedAt
    <2> QED BY <2>1, <2>2 DEF LinkedAt
<1>2. IsTree
    <2> SUFFICES ASSUME NEW p \in Existing
                 PROVE  /\ Below(links, p) = DeleteChildren(links, p)
                        /\ p \notin DeleteChildren(links, p)
                        /\ Reached(links, {"next"}, links.firstChild[p])
                              = {n \in Nodes : links.parent[n] = p}
                        /\ p \notin Reached(links, {"next"}, links.next[p])
        BY Zenon DEF IsTree, Existing
    <2>1. p \in AllNodes
        BY DEF Shape
    <2>2. Below(links, p) = DeleteChildren(links, p)
        BY BelowIsReached
    <2>3. p \notin DeleteChildren(links, p)
        BY <2>1, SubtreeFacts
    <2>4. Reached(links, {"next"}, links.firstChild[p]) = {n \in Nodes : links.parent[n] = p}
        BY WalkChildren
    <2>5. p \notin Reached(links, {"next"}, links.next[p])
        <3>1. CASE p \in Nodes
            BY <3>1, WalkStep
        <3>2. CASE p \notin Nodes
            BY <3>2 DEF Reached
        <3> QED BY <3>1, <3>2
    <2> QED BY <2>2, <2>3, <2>4, <2>5
<1> QED BY <1>1, <1>2

-----------------------------------------------------------------------------
(* Counting what the pools hold.                                             *)

(* The attributes of the nodes D, each as its node and its place. *)
Cells(A, D) == UNION {{n} \X DOMAIN A[n] : n \in D}

(* The nodes of D that pool p holds. *)
OfPool(K, D, p) == {n \in D : Pool(K[n]) = p}

(* Those of D that have no parent. *)
Roots(P, D) == {n \in D : P[n] = Null}

(* PoolBalance, of nodes V of classes K with attributes A and parents P, and *)
(* the counters C, U and G.                                                  *)
Balanced(K, A, P, V, C, U, G) ==
    /\ C["attributePool"] = Cardinality(Cells(A, V))
    /\ U["attributePool"] = G["attributePool"]
    /\ \A p \in Pools \ {"attributePool"} :
          /\ C[p] = Cardinality(OfPool(K, V, p))
          /\ U[p] = G[p] + Cardinality(OfPool(K, Roots(P, V), p))

Attribute == [name : AttrNames, value : Values]

AttributeLists == [Nodes -> Seq(Attribute)]

(* A pair is an attribute when its node is there and has that place. *)
LEMMA CellsMember ==
    ASSUME NEW A, NEW D, NEW c
    PROVE  c \in Cells(A, D) <=> \E n \in D : c \in {n} \X DOMAIN A[n]
BY DEF Cells

(* The attributes of one node. *)
LEMMA CellsOfOne ==
    ASSUME NEW A \in AttributeLists, NEW n \in Nodes
    PROVE  /\ IsFiniteSet({n} \X DOMAIN A[n])
           /\ Cardinality({n} \X DOMAIN A[n]) = Len(A[n])
<1>1. Len(A[n]) \in Nat /\ DOMAIN A[n] = 1..Len(A[n])
    BY DEF AttributeLists
<1>2. IsFiniteSet(1..Len(A[n])) /\ Cardinality(1..Len(A[n])) = Len(A[n])
    BY <1>1, FS_Interval
<1>3. IsFiniteSet({n}) /\ Cardinality({n}) = 1
    BY FS_Singleton
<1>4. PICK I : I = DOMAIN A[n]
    OBVIOUS
<1>5. IsFiniteSet(I) /\ Cardinality(I) = Len(A[n])
    BY <1>1, <1>2, <1>4
<1>6. IsFiniteSet({n} \X I) /\ Cardinality({n} \X I) = Cardinality({n}) * Cardinality(I)
    BY <1>3, <1>5, FS_Product
<1> QED BY <1>1, <1>3, <1>4, <1>5, <1>6

(* There are finitely many. *)
LEMMA CellsFinite ==
    ASSUME NEW A \in AttributeLists, NEW D \in SUBSET Nodes
    PROVE  IsFiniteSet(Cells(A, D)) /\ Cardinality(Cells(A, D)) \in Nat
<1>1. PICK S : S = {{n} \X DOMAIN A[n] : n \in D}
    OBVIOUS
<1>2. PICK f : f = [n \in D |-> {n} \X DOMAIN A[n]]
    OBVIOUS
<1>3. f \in [D -> S] /\ \A s \in S : \E n \in D : f[n] = s
    BY <1>1, <1>2, Zenon
<1>4. f \in Surjection(D, S)
    BY <1>3 DEF Surjection
<1>5. IsFiniteSet(D)
    BY DomAssumption, FS_Subset
<1>6. IsFiniteSet(S)
    BY <1>4, <1>5, FS_Surjection
<1>7. \A T \in S : IsFiniteSet(T)
    <2>1. \A n \in D : IsFiniteSet({n} \X DOMAIN A[n])
        BY CellsOfOne
    <2> QED BY <1>1, <2>1, Zenon
<1>8. IsFiniteSet(UNION S)
    BY <1>6, <1>7, FS_UNION
<1> QED BY <1>1, <1>8, FS_CardinalityType DEF Cells

(* A node more. *)
LEMMA CellsAdd ==
    ASSUME NEW A \in AttributeLists, NEW D \in SUBSET Nodes, NEW x \in Nodes, x \notin D
    PROVE  Cardinality(Cells(A, D \cup {x})) = Cardinality(Cells(A, D)) + Len(A[x])
<1>1. PICK X : X = {x} \X DOMAIN A[x]
    OBVIOUS
<1>2. IsFiniteSet(X) /\ Cardinality(X) = Len(A[x])
    BY <1>1, CellsOfOne
<1>3. PICK E : E = Cells(A, D)
    OBVIOUS
<1>4. IsFiniteSet(E) /\ Cardinality(E) \in Nat
    BY <1>3, CellsFinite
<1>5. Cells(A, D \cup {x}) = E \cup X
    <2>1. ASSUME NEW c PROVE c \in Cells(A, D \cup {x}) <=> c \in E \/ c \in X
        <3>1. c \in Cells(A, D \cup {x}) <=> \E n \in D \cup {x} : c \in {n} \X DOMAIN A[n]
            BY CellsMember, Zenon
        <3>2. c \in E <=> \E n \in D : c \in {n} \X DOMAIN A[n]
            BY <1>3, CellsMember, Zenon
        <3> QED BY <1>1, <3>1, <3>2, Zenon
    <2> QED BY <2>1
<1>6. E \cap X = {}
    <2>1. ASSUME NEW c \in E, c \in X PROVE FALSE
        <3>1. PICK n \in D : c \in {n} \X DOMAIN A[n]
            BY <1>3, <2>1, CellsMember
        <3>2. c[1] = n /\ c[1] = x
            BY <1>1, <2>1, <3>1
        <3> QED BY <3>2
    <2> QED BY <2>1
<1>7. Cardinality(E \cup X) = Cardinality(E) + Cardinality(X) - Cardinality(E \cap X)
    BY <1>2, <1>4, FS_Union
<1>8. Cardinality(E \cap X) = 0
    BY <1>6, FS_EmptySet
<1>9. PICK k \in Nat : k = Len(A[x])
    BY DEF AttributeLists
<1>10. Cardinality(E \cup X) = Cardinality(E) + k
    BY <1>2, <1>4, <1>7, <1>8, <1>9
<1> QED BY <1>3, <1>5, <1>9, <1>10, Zenon

(* Some nodes less. *)
LEMMA CellsRemove ==
    ASSUME NEW A \in AttributeLists, NEW V \in SUBSET Nodes, NEW D \in SUBSET V
    PROVE  Cardinality(Cells(A, V \ D)) = Cardinality(Cells(A, V)) - Cardinality(Cells(A, D))
<1>1. PICK E : E = Cells(A, V)
    OBVIOUS
<1>2. PICK F : F = Cells(A, D)
    OBVIOUS
<1>3. IsFiniteSet(E)
    BY <1>1, CellsFinite
<1>4. F \subseteq E
    BY <1>1, <1>2, CellsMember
<1>5. Cells(A, V \ D) = E \ F
    <2>1. ASSUME NEW c \in Cells(A, V \ D) PROVE c \in E \ F
        <3>1. PICK n \in V \ D : c \in {n} \X DOMAIN A[n]
            BY CellsMember
        <3>2. c \in E
            BY <1>1, <3>1, CellsMember
        <3>3. ASSUME c \in F PROVE FALSE
            <4>1. PICK m \in D : c \in {m} \X DOMAIN A[m]
                BY <1>2, <3>3, CellsMember
            <4>2. c[1] = n /\ c[1] = m
                BY <3>1, <4>1
            <4> QED BY <3>1, <4>2
        <3> QED BY <3>2, <3>3
    <2>2. ASSUME NEW c \in E \ F PROVE c \in Cells(A, V \ D)
        <3>1. PICK n \in V : c \in {n} \X DOMAIN A[n]
            BY <1>1, CellsMember
        <3>2. n \notin D
            BY <1>2, <3>1, CellsMember
        <3> QED BY <3>1, <3>2, CellsMember
    <2> QED BY <2>1, <2>2
<1>6. Cardinality(E \ F) = Cardinality(E) - Cardinality(E \cap F)
    BY <1>3, FS_Difference
<1>7. E \cap F = F
    BY <1>4
<1> QED BY <1>1, <1>2, <1>5, <1>6, <1>7

(* Only the lists of the nodes matter. *)
LEMMA CellsSame ==
    ASSUME NEW A, NEW B, NEW D, \A n \in D : DOMAIN A[n] = DOMAIN B[n]
    PROVE  Cells(A, D) = Cells(B, D)
<1>1. ASSUME NEW c PROVE c \in Cells(A, D) <=> c \in Cells(B, D)
    BY CellsMember
<1> QED BY <1>1

(* Sets of nodes are finite; so are the parts a pool holds. *)
LEMMA NodesFinite ==
    ASSUME NEW D \in SUBSET Nodes
    PROVE  IsFiniteSet(D) /\ Cardinality(D) \in Nat
BY DomAssumption, FS_Subset, FS_CardinalityType

(* The pool of a node is not the pool of the attributes. *)
LEMMA PoolType ==
    ASSUME NEW k
    PROVE  Pool(k) \in Pools \ {"attributePool"}
BY DEF Pool, Pools

(* A node more in a set, of a class k. *)
LEMMA OfPoolAdd ==
    ASSUME NEW D \in SUBSET Nodes, NEW x \in Nodes, x \notin D, NEW K, NEW H,
           \A n \in D : H[n] = K[n], NEW p
    PROVE  Cardinality(OfPool(H, D \cup {x}, p))
              = Cardinality(OfPool(K, D, p)) + (IF p = Pool(H[x]) THEN 1 ELSE 0)
<1>1. PICK E : E = OfPool(K, D, p)
    OBVIOUS
<1>2. E \in SUBSET Nodes /\ x \notin E
    BY <1>1 DEF OfPool
<1>3. IsFiniteSet(E) /\ Cardinality(E) \in Nat
    BY <1>2, NodesFinite
<1>4. CASE p = Pool(H[x])
    <2>1. OfPool(H, D \cup {x}, p) = E \cup {x}
        BY <1>1, <1>4 DEF OfPool
    <2>2. Cardinality(E \cup {x}) = Cardinality(E) + 1
        BY <1>2, <1>3, FS_AddElement
    <2> QED BY <1>1, <1>4, <2>1, <2>2
<1>5. CASE p # Pool(H[x])
    <2>1. OfPool(H, D \cup {x}, p) = E
        BY <1>1, <1>5 DEF OfPool
    <2> QED BY <1>1, <1>3, <1>5, <2>1
<1> QED BY <1>4, <1>5

(* Some nodes less. *)
LEMMA OfPoolRemove ==
    ASSUME NEW D \in SUBSET Nodes, NEW E \in SUBSET D, NEW K, NEW H,
           \A n \in D \ E : H[n] = K[n], NEW p
    PROVE  Cardinality(OfPool(H, D \ E, p))
              = Cardinality(OfPool(K, D, p)) - Cardinality(OfPool(K, E, p))
<1>1. PICK F : F = OfPool(K, D, p)
    OBVIOUS
<1>2. PICK Q : Q = OfPool(K, E, p)
    OBVIOUS
<1>3. F \in SUBSET Nodes /\ Q \subseteq F
    BY <1>1, <1>2 DEF OfPool
<1>4. OfPool(H, D \ E, p) = F \ Q
    BY <1>1, <1>2 DEF OfPool
<1>5. IsFiniteSet(F)
    BY <1>3, NodesFinite
<1>6. Cardinality(F \ Q) = Cardinality(F) - Cardinality(F \cap Q)
    BY <1>5, FS_Difference
<1>7. F \cap Q = Q
    BY <1>3
<1> QED BY <1>1, <1>2, <1>4, <1>6, <1>7

(* One node less, and none. *)
LEMMA OfPoolOne ==
    ASSUME NEW x \in Nodes, NEW K, NEW p
    PROVE  /\ Cardinality(OfPool(K, {x}, p)) = IF p = Pool(K[x]) THEN 1 ELSE 0
           /\ Cardinality(OfPool(K, {}, p)) = 0
<1>1. OfPool(K, {}, p) = {}
    BY DEF OfPool
<1>2. CASE p = Pool(K[x])
    <2>1. OfPool(K, {x}, p) = {x}
        BY <1>2 DEF OfPool
    <2> QED BY <1>1, <1>2, <2>1, FS_Singleton, FS_EmptySet
<1>3. CASE p # Pool(K[x])
    <2>1. OfPool(K, {x}, p) = {}
        BY <1>3 DEF OfPool
    <2> QED BY <1>1, <1>3, <2>1, FS_EmptySet
<1> QED BY <1>2, <1>3

(* How many nodes of a set a pool holds. *)
LEMMA OfPoolNat ==
    ASSUME NEW D \in SUBSET Nodes, NEW K, NEW p
    PROVE  Cardinality(OfPool(K, D, p)) \in Nat
<1>1. OfPool(K, D, p) \in SUBSET Nodes
    BY DEF OfPool
<1> QED BY <1>1, NodesFinite

Counters == [Pools -> Int]

(* A node x is added to V: its class and its attributes are counted, and it  *)
(* is untracked.                                                             *)
Grown(V, x, K, H, A, B, C, CC, U, UU) ==
    /\ \A n \in V : H[n] = K[n]
    /\ \A n \in V : B[n] = A[n]
    /\ CC["attributePool"] = C["attributePool"] + Len(B[x])
    /\ \A p \in Pools \ {"attributePool"} : CC[p] = C[p] + (IF p = Pool(H[x]) THEN 1 ELSE 0)
    /\ \A p \in Pools : UU[p] = U[p] + (IF p = Pool(H[x]) THEN 1 ELSE 0)

(* A node is constructed. *)
LEMMA AddKeepsBalance ==
    ASSUME NEW K, NEW A \in AttributeLists, NEW P, NEW V \in SUBSET Nodes,
           NEW C \in Counters, NEW U \in Counters, NEW G \in Counters,
           Balanced(K, A, P, V, C, U, G),
           NEW x \in Nodes, x \notin V, P[x] = Null,
           NEW H, NEW B \in AttributeLists, NEW CC, NEW UU,
           Grown(V, x, K, H, A, B, C, CC, U, UU)
    PROVE  Balanced(H, B, P, V \cup {x}, CC, UU, G)
<1> USE DEF Grown
<1>1. "attributePool" \in Pools /\ Pool(H[x]) # "attributePool"
    BY PoolType DEF Pools
<1>2. CC["attributePool"] = Cardinality(Cells(B, V \cup {x}))
    <2>1. Cells(B, V) = Cells(A, V)
        BY CellsSame, \A n \in V : DOMAIN A[n] = DOMAIN B[n]
    <2>2. Cardinality(Cells(B, V \cup {x})) = Cardinality(Cells(B, V)) + Len(B[x])
        BY CellsAdd
    <2> QED BY <2>1, <2>2 DEF Balanced
<1>3. UU["attributePool"] = G["attributePool"]
    <2>1. UU["attributePool"] = U["attributePool"] + 0
        BY <1>1
    <2>2. U["attributePool"] \in Int
        BY <1>1 DEF Counters
    <2> QED BY <2>1, <2>2 DEF Balanced
<1>4. ASSUME NEW p \in Pools \ {"attributePool"}
      PROVE  /\ CC[p] = Cardinality(OfPool(H, V \cup {x}, p))
             /\ UU[p] = G[p] + Cardinality(OfPool(H, Roots(P, V \cup {x}), p))
    <2>1. PICK d \in {0, 1} : d = IF p = Pool(H[x]) THEN 1 ELSE 0
        OBVIOUS
    <2>2. CC[p] = C[p] + d /\ UU[p] = U[p] + d
        BY <2>1
    <2>3. Cardinality(OfPool(H, V \cup {x}, p)) = Cardinality(OfPool(K, V, p)) + d
        BY <2>1, OfPoolAdd
    <2>4. PICK R : R = Roots(P, V)
        OBVIOUS
    <2>5. R \in SUBSET Nodes /\ x \notin R /\ R \subseteq V
        BY <2>4 DEF Roots
    <2>6. Roots(P, V \cup {x}) = R \cup {x}
        BY <2>4 DEF Roots
    <2>7. Cardinality(OfPool(H, R \cup {x}, p)) = Cardinality(OfPool(K, R, p)) + d
        BY <2>1, <2>5, OfPoolAdd
    <2>8. /\ C[p] = Cardinality(OfPool(K, V, p))
          /\ U[p] = G[p] + Cardinality(OfPool(K, R, p))
        BY <2>4 DEF Balanced
    <2>9. G[p] \in Int /\ Cardinality(OfPool(K, R, p)) \in Int
        BY <2>5, OfPoolNat DEF Counters
    <2>10. PICK r \in Int : r = Cardinality(OfPool(K, R, p))
        BY <2>9
    <2>11. UU[p] = G[p] + (r + d)
        BY <2>2, <2>8, <2>9, <2>10
    <2>12. CC[p] = Cardinality(OfPool(H, V \cup {x}, p))
        BY <2>2, <2>3, <2>8
    <2>13. Cardinality(OfPool(H, Roots(P, V \cup {x}), p)) = r + d
        BY <2>6, <2>7, <2>10, Zenon
    <2> QED BY <2>11, <2>12, <2>13, Zenon
<1> QED BY <1>2, <1>3, <1>4 DEF Balanced

(* A node is linked. *)
LEMMA LinkKeepsBalance ==
    ASSUME NEW K, NEW A, NEW P, NEW V \in SUBSET Nodes,
           NEW C, NEW U \in Counters, NEW G \in Counters,
           Balanced(K, A, P, V, C, U, G),
           NEW x \in V, P[x] = Null,
           NEW q, q # Null, NEW Q, \A n \in V : Q[n] = IF n = x THEN q ELSE P[n]
    PROVE  Balanced(K, A, Q, V, C, SetTracked(U, K[x]), G)
<1>1. "attributePool" \in Pools /\ Pool(K[x]) \in Pools /\ Pool(K[x]) # "attributePool"
    BY PoolType DEF Pools
<1>2. PICK UU : UU = SetTracked(U, K[x])
    OBVIOUS
<1>3. \A p \in Pools : UU[p] = U[p] - (IF p = Pool(K[x]) THEN 1 ELSE 0)
    <2>1. UU = [U EXCEPT ![Pool(K[x])] = @ - 1]
        BY <1>2 DEF SetTracked
    <2>2. PICK k \in Pools : k = Pool(K[x])
        BY <1>1
    <2> QED BY <2>1, <2>2 DEF Counters
<1>4. UU["attributePool"] = G["attributePool"]
    <2>1. UU["attributePool"] = U["attributePool"] - 0
        BY <1>1, <1>3
    <2>2. U["attributePool"] \in Int
        BY <1>1 DEF Counters
    <2> QED BY <2>1, <2>2 DEF Balanced
<1>5. ASSUME NEW p \in Pools \ {"attributePool"}
      PROVE  UU[p] = G[p] + Cardinality(OfPool(K, Roots(Q, V), p))
    <2>1. PICK d \in {0, 1} : d = IF p = Pool(K[x]) THEN 1 ELSE 0
        OBVIOUS
    <2>2. UU[p] = U[p] - d
        BY <1>3, <2>1
    <2>3. PICK R : R = Roots(P, V)
        OBVIOUS
    <2>4. R \in SUBSET Nodes /\ x \in R
        BY <2>3 DEF Roots
    <2>5. Roots(Q, V) = R \ {x}
        BY <2>3 DEF Roots
    <2>6. Cardinality(OfPool(K, R \ {x}, p))
              = Cardinality(OfPool(K, R, p)) - Cardinality(OfPool(K, {x}, p))
        <3>1. PICK E \in SUBSET R : E = {x}
            BY <2>4
        <3>2. Cardinality(OfPool(K, R \ E, p))
                  = Cardinality(OfPool(K, R, p)) - Cardinality(OfPool(K, E, p))
            BY <2>4, OfPoolRemove
        <3> QED BY <3>1, <3>2
    <2>7. Cardinality(OfPool(K, {x}, p)) = d
        BY <2>1, OfPoolOne
    <2>8. U[p] = G[p] + Cardinality(OfPool(K, R, p))
        BY <2>3 DEF Balanced
    <2>9. G[p] \in Int /\ Cardinality(OfPool(K, R, p)) \in Int
        BY <2>4, OfPoolNat DEF Counters
    <2> QED BY <2>2, <2>5, <2>6, <2>7, <2>8, <2>9
<1> QED BY <1>2, <1>4, <1>5 DEF Balanced

(* The nodes D are taken from V: the pools take back what they hold of them, *)
(* and lose track of those without parent.                                   *)
Shrunk(V, D, K, H, A, B, P, Q, C, CC, U, UU, G, GG) ==
    /\ \A n \in V \ D : H[n] = K[n]
    /\ \A n \in V \ D : B[n] = A[n]
    /\ \A n \in V \ D : Q[n] = P[n]
    /\ CC["attributePool"] = C["attributePool"] - Cardinality(Cells(A, D))
    /\ \A p \in Pools \ {"attributePool"} : CC[p] = C[p] - Cardinality(OfPool(K, D, p))
    /\ UU["attributePool"] = GG["attributePool"]
    /\ \A p \in Pools \ {"attributePool"} :
          /\ UU[p] \in Int /\ GG[p] \in Int
          /\ UU[p] - GG[p] = U[p] - G[p] - Cardinality(OfPool(K, Roots(P, D), p))

(* Nodes are destroyed. *)
LEMMA RemoveKeepsBalance ==
    ASSUME NEW K, NEW A \in AttributeLists, NEW P, NEW V \in SUBSET Nodes,
           NEW C \in Counters, NEW U \in Counters, NEW G \in Counters,
           Balanced(K, A, P, V, C, U, G),
           NEW D \in SUBSET V,
           NEW H, NEW B \in AttributeLists, NEW Q, NEW CC, NEW UU, NEW GG,
           Shrunk(V, D, K, H, A, B, P, Q, C, CC, U, UU, G, GG)
    PROVE  Balanced(H, B, Q, V \ D, CC, UU, GG)
<1> USE DEF Shrunk
<1>1. CC["attributePool"] = Cardinality(Cells(B, V \ D))
    <2>1. Cells(B, V \ D) = Cells(A, V \ D)
        BY CellsSame, \A n \in V \ D : DOMAIN A[n] = DOMAIN B[n]
    <2>2. Cardinality(Cells(A, V \ D)) = Cardinality(Cells(A, V)) - Cardinality(Cells(A, D))
        BY CellsRemove
    <2> QED BY <2>1, <2>2 DEF Balanced
<1>2. ASSUME NEW p \in Pools \ {"attributePool"}
      PROVE  /\ CC[p] = Cardinality(OfPool(H, V \ D, p))
             /\ UU[p] = GG[p] + Cardinality(OfPool(H, Roots(Q, V \ D), p))
    <2>1. Cardinality(OfPool(H, V \ D, p))
              = Cardinality(OfPool(K, V, p)) - Cardinality(OfPool(K, D, p))
        BY OfPoolRemove
    <2>2. PICK R : R = Roots(P, V)
        OBVIOUS
    <2>3. PICK E : E = Roots(P, D)
        OBVIOUS
    <2>4. R \in SUBSET Nodes /\ E \in SUBSET R /\ R \subseteq V /\ E \subseteq D
        BY <2>2, <2>3 DEF Roots
    <2>5. Roots(Q, V \ D) = R \ E /\ R \ E \subseteq V \ D
        BY <2>2, <2>3 DEF Roots
    <2>6. Cardinality(OfPool(H, R \ E, p))
              = Cardinality(OfPool(K, R, p)) - Cardinality(OfPool(K, E, p))
        <3>1. \A n \in R \ E : H[n] = K[n]
            BY <2>5
        <3> QED BY <2>4, <3>1, OfPoolRemove
    <2>7. /\ C[p] = Cardinality(OfPool(K, V, p))
          /\ U[p] = G[p] + Cardinality(OfPool(K, R, p))
        BY <2>2 DEF Balanced
    <2>8. /\ UU[p] \in Int /\ GG[p] \in Int
          /\ UU[p] - GG[p] = U[p] - G[p] - Cardinality(OfPool(K, E, p))
        BY <2>3
    <2>9. /\ G[p] \in Int /\ Cardinality(OfPool(K, R, p)) \in Int
          /\ Cardinality(OfPool(K, E, p)) \in Int
        BY <2>4, OfPoolNat DEF Counters
    <2>10. UU[p] = GG[p] + (Cardinality(OfPool(K, R, p)) - Cardinality(OfPool(K, E, p)))
        BY <2>7, <2>8, <2>9
    <2> QED BY <2>1, <2>5, <2>6, <2>7, <2>10
<1> QED BY <1>1, <1>2 DEF Balanced

-----------------------------------------------------------------------------
(* The inductive invariant: the objects are sound, whatever the parser is    *)
(* doing, and the parser's stack holds what its recursion holds.             *)

InUse(K) == {n \in Nodes : K[n] # "free"}

UniqueNames(s) == \A i, j \in DOMAIN s : s[i].name = s[j].name => i = j

(* Objects of classes K with values X, attributes A and pointers L, and the  *)
(* counters of the pools: the document is the only object of its class,      *)
(* nothing is left where no object is, the pointers have their shape and the *)
(* counters balance.                                                         *)
Sound(K, X, A, L, C, U, G) ==
    /\ K \in [AllNodes -> Leaves \cup {"element", "document", "free"}]
    /\ X \in [Nodes -> Values \cup {Null}]
    /\ A \in AttributeLists
    /\ C \in Counters /\ U \in Counters /\ G \in [Pools -> Nat]
    /\ K[Doc] = "document"
    /\ \A n \in Nodes : K[n] # "document"
    /\ \A n \in Nodes : K[n] = "free" => A[n] = <<>>
    /\ \A n \in Nodes : UniqueNames(A[n])
    /\ Shape(L, InUse(K) \cup {Doc})
    /\ Balanced(K, A, L.parent, InUse(K), C, U, G)

ObjectsOK == Sound(kind, value, attributes, links, currentAllocs, nUntracked, dropped)

(* The open elements of a parse are different elements, linked nowhere yet;  *)
(* a destroyed document has no children.                                     *)
ParserOK ==
    /\ errorID \in BOOLEAN
    /\ open \in Seq(Nodes)
    /\ pc \in {"idle", "parsing", "destroyed"}
    /\ pc # "parsing" => open = <<>>
    /\ \A i \in DOMAIN open : kind[open[i]] = "element" /\ links.parent[open[i]] = Null
    /\ \A i, j \in DOMAIN open : open[i] = open[j] => i = j
    /\ pc = "destroyed" => links.firstChild[Doc] = Null

IInv == ObjectsOK /\ ParserOK

(* Balanced counters are numbers of objects. *)
LEMMA SoundCounters ==
    ASSUME NEW K, NEW X, NEW A, NEW L, NEW C, NEW U, NEW G, Sound(K, X, A, L, C, U, G)
    PROVE  C \in [Pools -> Nat]
<1>1. InUse(K) \in SUBSET Nodes /\ A \in AttributeLists /\ C \in Counters
    BY DEF InUse, Sound
<1>2. Balanced(K, A, L.parent, InUse(K), C, U, G)
    BY DEF Sound
<1>3. C["attributePool"] \in Nat
    BY <1>1, <1>2, CellsFinite DEF Balanced
<1>4. \A p \in Pools \ {"attributePool"} : C[p] \in Nat
    BY <1>1, <1>2, OfPoolNat DEF Balanced
<1> QED BY <1>1, <1>3, <1>4 DEF Counters

(* What balanced counters are is what PoolBalance says. *)
LEMMA BalanceOfPools ==
    ASSUME Balanced(kind, attributes, links.parent, Live, currentAllocs, nUntracked, dropped),
           nUntracked \in Counters, dropped \in Counters
    PROVE  PoolBalance
<1>1. ASSUME NEW p \in Pools, p = "attributePool"
      PROVE  currentAllocs[p] = InPool(Live, p) /\ nUntracked[p] = dropped[p] + 0
    <2>1. currentAllocs[p] = InPool(Live, p)
        BY <1>1, Zenon DEF InPool, Balanced, Cells
    <2>2. nUntracked[p] = dropped[p] /\ dropped[p] \in Int
        BY <1>1 DEF Balanced, Counters
    <2> QED BY <2>1, <2>2
<1>2. ASSUME NEW p \in Pools, p # "attributePool"
      PROVE  /\ currentAllocs[p] = InPool(Live, p)
             /\ nUntracked[p] = dropped[p]
                   + Cardinality({n \in Live : links.parent[n] = Null /\ Pool(kind[n]) = p})
    <2>1. currentAllocs[p] = InPool(Live, p)
        BY <1>2, Zenon DEF InPool, Balanced, OfPool
    <2>2. OfPool(kind, Roots(links.parent, Live), p)
              = {n \in Live : links.parent[n] = Null /\ Pool(kind[n]) = p}
        BY DEF OfPool, Roots
    <2>3. nUntracked[p] = dropped[p] + Cardinality(OfPool(kind, Roots(links.parent, Live), p))
        BY <1>2 DEF Balanced
    <2> QED BY <2>1, <2>2, <2>3
<1> QED BY <1>1, <1>2 DEF PoolBalance

(* What IInv says of a document. *)
LEMMA InvariantFacts ==
    ASSUME IInv
    PROVE  /\ TypeOK /\ AttributesUnique /\ PoolBalance
           /\ Shape(links, Existing) /\ links \in Links
           /\ Live \in SUBSET Nodes
<1>1. Sound(kind, value, attributes, links, currentAllocs, nUntracked, dropped) /\ ParserOK
    BY DEF IInv, ObjectsOK
<1>2. InUse(kind) = Live
    BY DEF InUse, Live
<1>3. Shape(links, Existing) /\ links \in Links
    BY <1>1, <1>2 DEF Sound, Existing, Shape
<1>4. TypeOK
    <2>1. currentAllocs \in [Pools -> Nat]
        BY <1>1, SoundCounters
    <2> QED BY <1>1, <1>3, <2>1 DEF TypeOK, Sound, ParserOK, AttributeLists, Attribute, Counters
<1>5. AttributesUnique
    <2>1. \A n \in Nodes : UniqueNames(attributes[n])
        BY <1>1 DEF Sound
    <2> QED BY <2>1 DEF AttributesUnique, UniqueNames, Live
<1>6. PoolBalance
    <2>1. nUntracked \in Counters /\ dropped \in Counters
        BY <1>1 DEF Sound, Counters
    <2>2. Balanced(kind, attributes, links.parent, Live, currentAllocs, nUntracked, dropped)
        BY <1>1, <1>2 DEF Sound
    <2> QED BY <2>1, <2>2, BalanceOfPools
<1> QED BY <1>3, <1>4, <1>5, <1>6 DEF Live

(* The invariant gives what every reader of the document relies on. *)
LEMMA InvariantGivesTree == IInv => TreeIntact
BY InvariantFacts, ShapeGivesTree, ShapeGivesIterations DEF TreeIntact

-----------------------------------------------------------------------------
(* What each operation does to sound objects.                                *)

(* No class of a node is the document or a free cell. *)
LEMMA LeavesFacts ==
    /\ "document" \notin Leaves \cup {"element"}
    /\ "free" \notin Leaves \cup {"element"}
BY DomAssumption

(* A node x of class k is constructed, with its value and its attributes. *)
Constructed(x, k, v, s, K, H, X, Y, A, B, C, CC, U, UU) ==
    /\ x \in Nodes /\ K[x] = "free"
    /\ k \in Leaves \cup {"element"} /\ v \in Values \cup {Null}
    /\ s \in Seq(Attribute) /\ UniqueNames(s)
    /\ H = [K EXCEPT ![x] = k]
    /\ Y = [X EXCEPT ![x] = v]
    /\ B = [A EXCEPT ![x] = s]
    /\ CC \in Counters
    /\ CC["attributePool"] = C["attributePool"] + Len(s)
    /\ \A p \in Pools \ {"attributePool"} : CC[p] = C[p] + (IF p = Pool(k) THEN 1 ELSE 0)
    /\ UU = [U EXCEPT ![Pool(k)] = @ + 1]

(* It is a new node, not linked anywhere, that may be linked. *)
NewNode(L, V, W, x) ==
    /\ W = V \cup {x} /\ x \notin V
    /\ XMLNode(L, {x}) = L
    /\ L.parent[x] = Null
    /\ \A p \in V \cup {Doc} : MayLink(L, W \cup {Doc}, p, x)

(* The constructors and the clones. *)
LEMMA ConstructSound ==
    ASSUME NEW K, NEW X, NEW A, NEW L, NEW C, NEW U, NEW G, Sound(K, X, A, L, C, U, G),
           NEW x, NEW k, NEW v, NEW s, NEW H, NEW Y, NEW B, NEW CC, NEW UU,
           Constructed(x, k, v, s, K, H, X, Y, A, B, C, CC, U, UU)
    PROVE  Sound(H, Y, B, L, CC, UU, G) /\ NewNode(L, InUse(K), InUse(H), x)
<1>1. /\ K \in [AllNodes -> Leaves \cup {"element", "document", "free"}]
      /\ X \in [Nodes -> Values \cup {Null}]
      /\ A \in AttributeLists /\ C \in Counters /\ U \in Counters /\ G \in [Pools -> Nat]
      /\ K[Doc] = "document"
      /\ \A n \in Nodes : K[n] # "document"
      /\ \A n \in Nodes : K[n] = "free" => A[n] = <<>>
      /\ \A n \in Nodes : UniqueNames(A[n])
      /\ Shape(L, InUse(K) \cup {Doc})
      /\ Balanced(K, A, L.parent, InUse(K), C, U, G)
    BY DEF Sound
<1>0. /\ x \in Nodes /\ K[x] = "free"
      /\ k \in Leaves \cup {"element"} /\ v \in Values \cup {Null}
      /\ s \in Seq(Attribute) /\ UniqueNames(s)
      /\ H = [K EXCEPT ![x] = k] /\ Y = [X EXCEPT ![x] = v] /\ B = [A EXCEPT ![x] = s]
      /\ CC \in Counters /\ CC["attributePool"] = C["attributePool"] + Len(s)
      /\ \A p \in Pools \ {"attributePool"} : CC[p] = C[p] + (IF p = Pool(k) THEN 1 ELSE 0)
      /\ UU = [U EXCEPT ![Pool(k)] = @ + 1]
    BY DEF Constructed
<1>2. x \in AllNodes /\ x # Doc /\ Nodes \subseteq AllNodes /\ Doc \in AllNodes
    BY <1>0, DomAssumption DEF AllNodes
<1>3. k # "document" /\ k # "free"
    BY <1>0, LeavesFacts
<1>4. PICK V : V = InUse(K)
    OBVIOUS
<1>5. V \in SUBSET Nodes /\ x \notin V
    BY <1>0, <1>4 DEF InUse
<1>6. InUse(H) = V \cup {x}
    BY <1>0, <1>1, <1>2, <1>3, <1>4 DEF InUse
<1>7. /\ XMLNode(L, {x}) = L
      /\ Shape(L, (V \cup {Doc}) \cup {x})
      /\ \A p \in V \cup {Doc} : MayLink(L, (V \cup {Doc}) \cup {x}, p, x)
    <2>1. x \notin V \cup {Doc}
        BY <1>2, <1>5
    <2> QED BY <1>0, <1>1, <1>4, <2>1, ConstructKeepsShape
<1>8. (V \cup {Doc}) \cup {x} = InUse(H) \cup {Doc}
    BY <1>6
<1>9. L.parent[x] = Null
    BY <1>7 DEF MayLink
<1>10. \A n \in V : H[n] = K[n] /\ H[x] = k
    BY <1>0, <1>1, <1>2, <1>5
<1>11. B \in AttributeLists /\ B[x] = s /\ \A n \in V : B[n] = A[n]
    BY <1>0, <1>1, <1>5 DEF AttributeLists
<1>12. PICK p0 \in Pools \ {"attributePool"} : p0 = Pool(k)
    BY PoolType
<1>13. Len(s) \in Nat /\ "attributePool" \in Pools
    BY <1>0 DEF Pools
<1>14. UU = [U EXCEPT ![p0] = @ + 1]
    BY <1>0, <1>12
<1>15. CC \in Counters /\ UU \in Counters
    BY <1>0, <1>1, <1>12, <1>14 DEF Counters
<1>16. /\ CC["attributePool"] = C["attributePool"] + Len(B[x])
       /\ \A p \in Pools \ {"attributePool"} : CC[p] = C[p] + (IF p = p0 THEN 1 ELSE 0)
       /\ \A p \in Pools : UU[p] = U[p] + (IF p = p0 THEN 1 ELSE 0)
    BY <1>0, <1>1, <1>11, <1>12, <1>13, <1>14 DEF Counters
<1>17. H[x] = k
    BY <1>0, <1>1, <1>2
<1>18. G \in Counters
    BY <1>1 DEF Counters
<1>19. Balanced(H, B, L.parent, V \cup {x}, CC, UU, G)
    <2>1. \A n \in V : H[n] = K[n]
        BY <1>10
    <2>2. \A n \in V : B[n] = A[n]
        BY <1>11
    <2>3. p0 = Pool(H[x])
        BY <1>12, <1>17
    <2>4. Balanced(K, A, L.parent, V, C, U, G)
        BY <1>1, <1>4
    <2>5. \A p \in Pools \ {"attributePool"} : CC[p] = C[p] + (IF p = Pool(H[x]) THEN 1 ELSE 0)
        BY <1>16, <2>3
    <2>6. \A p \in Pools : UU[p] = U[p] + (IF p = Pool(H[x]) THEN 1 ELSE 0)
        BY <1>16, <2>3
    <2>7. CC["attributePool"] = C["attributePool"] + Len(B[x])
        BY <1>16
    <2>8. Grown(V, x, K, H, A, B, C, CC, U, UU)
        BY <2>1, <2>2, <2>5, <2>6, <2>7 DEF Grown
    <2> QED BY <1>0, <1>1, <1>5, <1>9, <1>11, <1>18, <2>4, <2>8, AddKeepsBalance
<1>20. H \in [AllNodes -> Leaves \cup {"element", "document", "free"}]
    BY <1>0, <1>1, <1>2
<1>21. Y \in [Nodes -> Values \cup {Null}]
    BY <1>0, <1>1
<1>22. /\ H[Doc] = "document"
       /\ \A n \in Nodes : H[n] # "document"
       /\ \A n \in Nodes : H[n] = "free" => B[n] = <<>>
    BY <1>0, <1>1, <1>2, <1>3 DEF AttributeLists
<1>23. \A n \in Nodes : UniqueNames(B[n])
    <2>1. \A n \in Nodes : B[n] = s \/ B[n] = A[n]
        BY <1>0, <1>1 DEF AttributeLists
    <2> QED BY <1>0, <1>1, <2>1
<1>24. Sound(H, Y, B, L, CC, UU, G)
    <2>1. Shape(L, InUse(H) \cup {Doc})
        BY <1>7, <1>8
    <2>2. Balanced(H, B, L.parent, InUse(H), CC, UU, G)
        BY <1>6, <1>19
    <2> QED BY <1>1, <1>11, <1>15, <1>20, <1>21, <1>22, <1>23, <2>1, <2>2 DEF Sound
<1>25. NewNode(L, InUse(K), InUse(H), x)
    BY <1>4, <1>5, <1>6, <1>7, <1>8, <1>9 DEF NewNode
<1> QED BY <1>24, <1>25

(* A node is linked between two neighbours. *)
LEMMA LinkSound ==
    ASSUME NEW K, NEW X, NEW A, NEW L, NEW C, NEW U, NEW G, Sound(K, X, A, L, C, U, G),
           NEW p, NEW x, MayLink(L, InUse(K) \cup {Doc}, p, x),
           NEW b, NEW a, Gap(L, p, b, a), NEW M, Linked(L, M, p, x, b, a)
    PROVE  Sound(K, X, A, M, C, SetTracked(U, K[x]), G)
<1>1. PICK V : V = InUse(K)
    OBVIOUS
<1>2. V \in SUBSET Nodes
    BY <1>1 DEF InUse
<1>3. /\ U \in Counters /\ G \in Counters /\ Shape(L, V \cup {Doc})
      /\ Balanced(K, A, L.parent, V, C, U, G)
    BY <1>1 DEF Sound, Counters
<1>4. /\ p \in V \cup {Doc} /\ x \in V \cup {Doc} /\ x \in Nodes /\ L.parent[x] = Null
    BY <1>1 DEF MayLink
<1>5. x \in V /\ p # Null
    BY <1>2, <1>4, DomAssumption
<1>6. Shape(M, V \cup {Doc})
    BY <1>1, <1>3, LinkKeepsShape
<1>7. \A n \in V : M.parent[n] = IF n = x THEN p ELSE L.parent[n]
    BY <1>2 DEF Linked, AllNodes
<1>8. Balanced(K, A, M.parent, V, C, SetTracked(U, K[x]), G)
    BY <1>2, <1>3, <1>4, <1>5, <1>7, LinkKeepsBalance
<1>9. SetTracked(U, K[x]) \in Counters
    <2>1. Pool(K[x]) \in Pools
        BY PoolType
    <2> QED BY <1>3, <2>1 DEF SetTracked, Counters
<1> QED BY <1>1, <1>6, <1>8, <1>9 DEF Sound

(* The nodes D are destroyed, their memory goes back to the pools. *)
Destroyed(D, K, H, X, Y, A, B, C, CC) ==
    /\ H = [n \in AllNodes |-> IF n \in D THEN "free" ELSE K[n]]
    /\ Y = [n \in Nodes |-> IF n \in D THEN Null ELSE X[n]]
    /\ B = [n \in Nodes |-> IF n \in D THEN <<>> ELSE A[n]]
    /\ CC \in Counters
    /\ CC["attributePool"] = C["attributePool"] - Cardinality(Cells(A, D))
    /\ \A p \in Pools \ {"attributePool"} : CC[p] = C[p] - Cardinality(OfPool(K, D, p))

(* Those of D that were never linked stay counted as untracked: G grows to   *)
(* GG by as many, unless U takes them back.                                  *)
LostTrack(D, K, P, U, UU, G, GG) ==
    /\ UU["attributePool"] - GG["attributePool"] = U["attributePool"] - G["attributePool"]
    /\ \A p \in Pools \ {"attributePool"} :
          UU[p] - GG[p] = U[p] - G[p] - Cardinality(OfPool(K, Roots(P, D), p))

(* The destructors. *)
LEMMA DestroySound ==
    ASSUME NEW K, NEW X, NEW A, NEW L, NEW C, NEW U, NEW G, Sound(K, X, A, L, C, U, G),
           NEW D \in SUBSET InUse(K), NEW M, Shape(M, (InUse(K) \cup {Doc}) \ D),
           \A n \in AllNodes : M.parent[n] = IF n \in D THEN Null ELSE L.parent[n],
           NEW H, NEW Y, NEW B, NEW CC, Destroyed(D, K, H, X, Y, A, B, C, CC),
           NEW UU \in Counters, NEW GG \in [Pools -> Nat], LostTrack(D, K, L.parent, U, UU, G, GG)
    PROVE  Sound(H, Y, B, M, CC, UU, GG) /\ InUse(H) = InUse(K) \ D
<1>1. /\ K \in [AllNodes -> Leaves \cup {"element", "document", "free"}]
      /\ X \in [Nodes -> Values \cup {Null}]
      /\ A \in AttributeLists /\ C \in Counters /\ U \in Counters /\ G \in [Pools -> Nat]
      /\ K[Doc] = "document"
      /\ \A n \in Nodes : K[n] # "document"
      /\ \A n \in Nodes : K[n] = "free" => A[n] = <<>>
      /\ \A n \in Nodes : UniqueNames(A[n])
      /\ Balanced(K, A, L.parent, InUse(K), C, U, G)
    BY DEF Sound
<1>0. /\ H = [n \in AllNodes |-> IF n \in D THEN "free" ELSE K[n]]
      /\ Y = [n \in Nodes |-> IF n \in D THEN Null ELSE X[n]]
      /\ B = [n \in Nodes |-> IF n \in D THEN <<>> ELSE A[n]]
      /\ CC \in Counters
    BY DEF Destroyed
<1>2. PICK V : V = InUse(K)
    OBVIOUS
<1>3. V \in SUBSET Nodes /\ D \in SUBSET V /\ Doc \notin D
    BY <1>2, DomAssumption DEF InUse
<1>4. Nodes \subseteq AllNodes /\ Doc \in AllNodes
    BY DEF AllNodes
<1>5. \A n \in AllNodes : H[n] = IF n \in D THEN "free" ELSE K[n]
    BY <1>0
<1>6. InUse(H) = V \ D
    BY <1>2, <1>4, <1>5 DEF InUse
<1>7. (V \cup {Doc}) \ D = InUse(H) \cup {Doc}
    BY <1>3, <1>6
<1>8. Shape(M, InUse(H) \cup {Doc})
    BY <1>2, <1>7
<1>9. \A n \in Nodes : B[n] = IF n \in D THEN <<>> ELSE A[n]
    BY <1>0
<1>10. B \in AttributeLists
    <2>1. <<>> \in Seq(Attribute)
        OBVIOUS
    <2> QED BY <1>0, <1>1, <2>1 DEF AttributeLists
<1>11. Balanced(H, B, M.parent, V \ D, CC, UU, GG)
    <2>1. \A n \in V \ D : H[n] = K[n]
        BY <1>3, <1>4, <1>5
    <2>2. \A n \in V \ D : B[n] = A[n]
        BY <1>3, <1>9
    <2>3. \A n \in V \ D : M.parent[n] = L.parent[n]
        BY <1>3, <1>4
    <2>4. G \in Counters /\ GG \in Counters
        BY <1>1 DEF Counters
    <2>5. Balanced(K, A, L.parent, V, C, U, G)
        BY <1>1, <1>2
    <2>6. UU["attributePool"] = GG["attributePool"]
        <3>1. "attributePool" \in Pools
            BY DEF Pools
        <3>2. U["attributePool"] = G["attributePool"]
            BY <1>1 DEF Balanced
        <3> QED BY <1>1, <2>4, <3>1, <3>2 DEF Counters, LostTrack
    <2>7. \A p \in Pools \ {"attributePool"} :
              /\ UU[p] \in Int /\ GG[p] \in Int
              /\ UU[p] - GG[p] = U[p] - G[p] - Cardinality(OfPool(K, Roots(L.parent, D), p))
        BY <2>4 DEF Counters, LostTrack
    <2>8. Shrunk(V, D, K, H, A, B, L.parent, M.parent, C, CC, U, UU, G, GG)
        BY <2>1, <2>2, <2>3, <2>6, <2>7 DEF Shrunk, Destroyed
    <2> QED BY <1>1, <1>3, <1>10, <2>4, <2>5, <2>8, RemoveKeepsBalance
<1>12. H \in [AllNodes -> Leaves \cup {"element", "document", "free"}]
    BY <1>0, <1>1
<1>13. Y \in [Nodes -> Values \cup {Null}]
    BY <1>0, <1>1
<1>14. /\ H[Doc] = "document"
       /\ \A n \in Nodes : H[n] # "document"
       /\ \A n \in Nodes : H[n] = "free" => B[n] = <<>>
    BY <1>1, <1>3, <1>4, <1>5, <1>9
<1>15. \A n \in Nodes : UniqueNames(B[n])
    BY <1>1, <1>9 DEF UniqueNames
<1> QED BY <1>0, <1>2, <1>6, <1>8, <1>10, <1>11, <1>12, <1>13, <1>14, <1>15 DEF Sound

(* The attributes of node n become s, d more than they were. *)
Relisted(n, s, d, A, B, C, CC) ==
    /\ s \in Seq(Attribute) /\ UniqueNames(s)
    /\ d \in Int /\ Len(s) = Len(A[n]) + d
    /\ B = [A EXCEPT ![n] = s]
    /\ CC \in Counters
    /\ CC["attributePool"] = C["attributePool"] + d
    /\ \A p \in Pools : p # "attributePool" => CC[p] = C[p]

(* The attributes of one node change. *)
LEMMA AttributesSound ==
    ASSUME NEW K, NEW X, NEW A, NEW L, NEW C, NEW U, NEW G, Sound(K, X, A, L, C, U, G),
           NEW n \in InUse(K), NEW s, NEW d, NEW B, NEW CC, Relisted(n, s, d, A, B, C, CC)
    PROVE  Sound(K, X, B, L, CC, U, G)
<1>0. /\ s \in Seq(Attribute) /\ UniqueNames(s) /\ d \in Int /\ Len(s) = Len(A[n]) + d
      /\ B = [A EXCEPT ![n] = s] /\ CC \in Counters
      /\ CC["attributePool"] = C["attributePool"] + d
      /\ \A p \in Pools : p # "attributePool" => CC[p] = C[p]
    BY DEF Relisted
<1>1. /\ A \in AttributeLists /\ C \in Counters
      /\ \A m \in Nodes : K[m] = "free" => A[m] = <<>>
      /\ \A m \in Nodes : UniqueNames(A[m])
      /\ Balanced(K, A, L.parent, InUse(K), C, U, G)
    BY DEF Sound
<1>2. PICK V : V = InUse(K)
    OBVIOUS
<1>3. V \in SUBSET Nodes /\ n \in V /\ n \in Nodes /\ K[n] # "free"
    BY <1>2 DEF InUse
<1>4. B \in AttributeLists /\ \A m \in Nodes : B[m] = IF m = n THEN s ELSE A[m]
    BY <1>0, <1>1, <1>3 DEF AttributeLists
<1>5. \A m \in Nodes : K[m] = "free" => B[m] = <<>>
    BY <1>1, <1>3, <1>4
<1>6. \A m \in Nodes : UniqueNames(B[m])
    BY <1>0, <1>1, <1>4
<1>7. Balanced(K, B, L.parent, V, CC, U, G)
    <2>1. PICK W \in SUBSET Nodes : W = V \ {n}
        BY <1>3
    <2>2. n \notin W /\ V = W \cup {n}
        BY <1>3, <2>1
    <2>3. Cardinality(Cells(A, W \cup {n})) = Cardinality(Cells(A, W)) + Len(A[n])
        BY <1>1, <1>3, <2>2, CellsAdd
    <2>4. Cardinality(Cells(B, W \cup {n})) = Cardinality(Cells(B, W)) + Len(B[n])
        BY <1>3, <1>4, <2>2, CellsAdd
    <2>5. Cells(B, W) = Cells(A, W)
        <3>1. \A m \in W : DOMAIN A[m] = DOMAIN B[m]
            BY <1>4, <2>2
        <3>2. PICK BB : BB = B
            OBVIOUS
        <3>3. \A m \in W : DOMAIN A[m] = DOMAIN BB[m]
            BY <3>1, <3>2
        <3>4. Cells(A, W) = Cells(BB, W)
            BY <3>3, CellsSame
        <3> QED BY <3>2, <3>4
    <2>6. PICK c \in Int : c = Cardinality(Cells(A, W))
        BY <1>1, CellsFinite
    <2>7. PICK k \in Int : k = Len(A[n])
        BY <1>1, <1>3 DEF AttributeLists
    <2>8. B[n] = s /\ Len(s) = k + d
        BY <1>0, <1>3, <1>4, <2>7
    <2>9. C["attributePool"] = c + k
        BY <1>1, <1>2, <2>2, <2>3, <2>6, <2>7 DEF Balanced
    <2>10. CC["attributePool"] = C["attributePool"] + d /\ \A p \in Pools : p # "attributePool" => CC[p] = C[p]
        BY <1>0
    <2>11. CC["attributePool"] = Cardinality(Cells(B, V))
        <3>1. Cardinality(Cells(B, V)) = c + (k + d)
            BY <1>0, <2>2, <2>4, <2>5, <2>6, <2>8
        <3> QED BY <1>0, <2>9, <2>10, <3>1
    <2> QED BY <1>1, <1>2, <2>10, <2>11 DEF Balanced
<1> QED BY <1>0, <1>2, <1>4, <1>5, <1>6, <1>7 DEF Sound, Counters

(* A text and a CDATA are the same object, of the same pool. *)
LEMMA SetCDataSound ==
    ASSUME NEW K, NEW X, NEW A, NEW L, NEW C, NEW U, NEW G, Sound(K, X, A, L, C, U, G),
           NEW n \in Nodes, K[n] \in {"text", "cdata"},
           NEW k \in {"text", "cdata"}, NEW H, H = [K EXCEPT ![n] = k]
    PROVE  Sound(H, X, A, L, C, U, G) /\ InUse(H) = InUse(K)
<1>1. /\ K \in [AllNodes -> Leaves \cup {"element", "document", "free"}]
      /\ K[Doc] = "document"
      /\ \A m \in Nodes : K[m] # "document"
      /\ \A m \in Nodes : K[m] = "free" => A[m] = <<>>
      /\ Balanced(K, A, L.parent, InUse(K), C, U, G)
    BY DEF Sound
<1>2. n \in AllNodes /\ n # Doc /\ Nodes \subseteq AllNodes /\ Doc \in AllNodes
    BY DomAssumption DEF AllNodes
<1>3. \A m \in AllNodes : H[m] = IF m = n THEN k ELSE K[m]
    BY <1>1
<1>4. k \in Leaves
    <2>1. K[n] \in Leaves
        BY <1>1, <1>2
    <2> QED BY <2>1, DomAssumption
<1>5. H \in [AllNodes -> Leaves \cup {"element", "document", "free"}]
    BY <1>1, <1>4
<1>6. /\ H[Doc] = "document"
      /\ \A m \in Nodes : H[m] # "document"
      /\ \A m \in Nodes : H[m] = "free" => A[m] = <<>>
    BY <1>1, <1>2, <1>3
<1>7. InUse(H) = InUse(K)
    BY <1>2, <1>3 DEF InUse
<1>8. \A m \in Nodes : Pool(H[m]) = Pool(K[m])
    <2>1. Pool(k) = "textPool" /\ Pool(K[n]) = "textPool"
        BY DEF Pool
    <2> QED BY <1>2, <1>3, <2>1
<1>9. Balanced(H, A, L.parent, InUse(K), C, U, G)
    <2>1. ASSUME NEW D \in SUBSET Nodes, NEW p PROVE OfPool(H, D, p) = OfPool(K, D, p)
        BY <1>8 DEF OfPool
    <2>2. InUse(K) \in SUBSET Nodes /\ Roots(L.parent, InUse(K)) \in SUBSET Nodes
        BY DEF InUse, Roots
    <2>3. \A p : /\ OfPool(H, InUse(K), p) = OfPool(K, InUse(K), p)
                 /\ OfPool(H, Roots(L.parent, InUse(K)), p) = OfPool(K, Roots(L.parent, InUse(K)), p)
        BY <2>1, <2>2
    <2> QED BY <1>1, <2>3 DEF Balanced
<1> QED BY <1>5, <1>6, <1>7, <1>9 DEF Sound

(* FindAttribute: the place of the name in the list, if it has one. *)
LEMMA FindAttributeFacts ==
    ASSUME NEW n \in Nodes, attributes[n] \in Seq(Attribute), UniqueNames(attributes[n]),
           NEW a
    PROVE  IF FindAttribute(n, a) = 0 THEN \A i \in DOMAIN attributes[n] : attributes[n][i].name # a
           ELSE FindAttribute(n, a) \in DOMAIN attributes[n]
<1>1. PICK s \in Seq(Attribute) : s = attributes[n]
    OBVIOUS
<1>2. PICK h : h = {i \in DOMAIN attributes[n] : attributes[n][i].name = a}
    OBVIOUS
<1>3. FindAttribute(n, a) = IF h = {} THEN 0 ELSE CHOOSE i \in h : \A j \in h : i <= j
    BY <1>2 DEF FindAttribute
<1>4. CASE h = {}
    BY <1>1, <1>2, <1>3, <1>4
<1>5. CASE h # {}
    <2>1. PICK i \in h : TRUE
        BY <1>5
    <2>2. \A j \in h : j = i
        BY <1>1, <1>2, <2>1 DEF UniqueNames
    <2>3. i \in 1..Len(s)
        BY <1>1, <1>2, <2>1
    <2>4. i \in h /\ \A j \in h : i <= j
        BY <2>1, <2>2, <2>3
    <2>5. (CHOOSE k \in h : \A j \in h : k <= j) \in h
        BY <2>4, Zenon
    <2>6. FindAttribute(n, a) = i
        BY <1>3, <1>5, <2>2, <2>5
    <2> QED BY <1>1, <2>3, <2>6
<1> QED BY <1>4, <1>5

(* RemoveAt closes the gap. *)
LEMMA RemoveAtFacts ==
    ASSUME NEW s \in Seq(Attribute), NEW i \in DOMAIN s
    PROVE  /\ RemoveAt(s, i) \in Seq(Attribute)
           /\ Len(RemoveAt(s, i)) = Len(s) - 1
           /\ UniqueNames(s) => UniqueNames(RemoveAt(s, i))
<1>1. PICK m \in Nat : m = Len(s)
    OBVIOUS
<1>2. i \in 1..m /\ DOMAIN s = 1..m
    BY <1>1
<1>3. PICK f : f = SubSeq(s, 1, i - 1)
    OBVIOUS
<1>4. f \in Seq(Attribute) /\ Len(f) = i - 1 /\ \A j \in 1..(i - 1) : f[j] = s[j]
    BY <1>1, <1>2, <1>3
<1>5. PICK g : g = SubSeq(s, i + 1, m)
    OBVIOUS
<1>6. g \in Seq(Attribute) /\ Len(g) = m - i /\ \A j \in 1..(m - i) : g[j] = s[j + i]
    BY <1>1, <1>2, <1>5
<1>7. PICK r : r = f \o g
    OBVIOUS
<1>8. r \in Seq(Attribute) /\ Len(r) = m - 1
    BY <1>1, <1>2, <1>4, <1>6, <1>7
<1>9. \A j \in 1..(m - 1) : r[j] = IF j < i THEN s[j] ELSE s[j + 1]
    BY <1>1, <1>2, <1>4, <1>6, <1>7, SMTT(30)
<1>10. RemoveAt(s, i) = r
    BY <1>1, <1>3, <1>5, <1>7 DEF RemoveAt
<1>11. ASSUME UniqueNames(s), NEW j \in DOMAIN r, NEW k \in DOMAIN r, r[j].name = r[k].name
       PROVE  j = k
    <2>1. j \in 1..(m - 1) /\ k \in 1..(m - 1)
        BY <1>8
    <2>2. PICK jj \in 1..m : r[j] = s[jj] /\ jj = IF j < i THEN j ELSE j + 1
        BY <1>1, <1>2, <1>9, <2>1
    <2>3. PICK kk \in 1..m : r[k] = s[kk] /\ kk = IF k < i THEN k ELSE k + 1
        BY <1>1, <1>2, <1>9, <2>1
    <2>4. jj = kk
        BY <1>2, <1>11, <2>2, <2>3 DEF UniqueNames
    <2> QED BY <1>2, <2>1, <2>2, <2>3, <2>4
<1> QED BY <1>1, <1>8, <1>10, <1>11 DEF UniqueNames

-----------------------------------------------------------------------------
(* Every step keeps the invariant.                                           *)

(* Outside the parser only the objects change. *)
LEMMA IdleParser ==
    ASSUME IInv, Idle
    PROVE  ParserOK'
BY DEF IInv, ParserOK, Idle

(* Construct makes a sound object, and changes no pointer. *)
LEMMA ConstructNode ==
    ASSUME IInv, NEW n \in Nodes, NEW k \in Leaves \cup {"element"}, NEW v \in Values,
           Construct(n, k, v), UNCHANGED <<attributes, dropped>>
    PROVE  /\ ObjectsOK'
           /\ links' = links /\ links.parent[n] = Null
<1>1. /\ Sound(kind, value, attributes, links, currentAllocs, nUntracked, dropped)
      /\ kind[n] = "free"
    BY DEF IInv, ObjectsOK, Construct
<1>2. PICK s : s = <<>>
    OBVIOUS
<1>3. s \in Seq(Attribute) /\ Len(s) = 0 /\ UniqueNames(s)
    BY <1>2 DEF UniqueNames
<1>4. attributes' = [attributes EXCEPT ![n] = s]
    <2>1. attributes[n] = s /\ attributes \in AttributeLists
        BY <1>1, <1>2 DEF Sound
    <2> QED BY <2>1 DEF AttributeLists
<1>5. /\ currentAllocs' \in Counters
      /\ currentAllocs'["attributePool"] = currentAllocs["attributePool"] + Len(s)
      /\ \A p \in Pools \ {"attributePool"} :
            currentAllocs'[p] = currentAllocs[p] + (IF p = Pool(k) THEN 1 ELSE 0)
    <2>1. PICK p0 \in Pools \ {"attributePool"} : p0 = Pool(k)
        BY PoolType
    <2>2. currentAllocs' = [currentAllocs EXCEPT ![p0] = @ + 1]
        BY <2>1 DEF Construct, Alloc
    <2>3. currentAllocs \in [Pools -> Int]
        BY <1>1 DEF Sound, Counters
    <2> QED BY <1>3, <2>1, <2>2, <2>3 DEF Pools, Counters
<1>6. /\ kind' = [kind EXCEPT ![n] = k] /\ value' = [value EXCEPT ![n] = v]
      /\ nUntracked' = [nUntracked EXCEPT ![Pool(k)] = @ + 1]
      /\ links' = XMLNode(links, {n}) /\ dropped' = dropped
    BY DEF Construct, Alloc
<1>7. v \in Values \cup {Null}
    OBVIOUS
<1>8. Constructed(n, k, v, s, kind, kind', value, value', attributes, attributes',
                  currentAllocs, currentAllocs', nUntracked, nUntracked')
    BY <1>1, <1>3, <1>4, <1>5, <1>6, <1>7 DEF Constructed
<1>9. /\ Sound(kind', value', attributes', links, currentAllocs', nUntracked', dropped)
      /\ NewNode(links, InUse(kind), InUse(kind'), n)
    BY <1>1, <1>8, ConstructSound
<1> QED BY <1>6, <1>9 DEF ObjectsOK, NewNode

(* A clone has the attributes of the node too. *)
LEMMA CloneNode ==
    ASSUME IInv, NEW n \in Nodes, NEW m \in Nodes, ShallowClone(n, m)
    PROVE  ObjectsOK'
<1>1. /\ Sound(kind, value, attributes, links, currentAllocs, nUntracked, dropped)
      /\ kind[m] = "free"
    BY DEF IInv, ObjectsOK, ShallowClone
<1>2. PICK k : k = kind[n]
    OBVIOUS
<1>3. k \in Leaves \cup {"element"}
    <2>1. k # "free"
        BY <1>2 DEF ShallowClone, Live
    <2>2. k \in Leaves \cup {"element", "document", "free"} /\ k # "document"
        BY <1>1, <1>2 DEF Sound, AllNodes
    <2> QED BY <2>1, <2>2
<1>4. PICK v : v = value[n]
    OBVIOUS
<1>5. PICK s : s = attributes[n]
    OBVIOUS
<1>6. v \in Values \cup {Null} /\ s \in Seq(Attribute) /\ UniqueNames(s)
    BY <1>1, <1>4, <1>5 DEF Sound, AttributeLists
<1>7. /\ kind' = [kind EXCEPT ![m] = k] /\ value' = [value EXCEPT ![m] = v]
      /\ attributes' = [attributes EXCEPT ![m] = s]
      /\ currentAllocs' = [currentAllocs EXCEPT ![Pool(k)] = @ + 1, !["attributePool"] = @ + Len(s)]
      /\ nUntracked' = [nUntracked EXCEPT ![Pool(k)] = @ + 1]
      /\ links' = XMLNode(links, {m}) /\ dropped' = dropped
    BY <1>2, <1>4, <1>5 DEF ShallowClone
<1>8. /\ Sound(kind', value', attributes', links, currentAllocs', nUntracked', dropped)
      /\ NewNode(links, InUse(kind), InUse(kind'), m)
    <2>1. PICK p0 \in Pools \ {"attributePool"} : p0 = Pool(k)
        BY PoolType
    <2>2. Len(s) \in Nat /\ currentAllocs \in [Pools -> Int]
        BY <1>1, <1>6 DEF Sound, Counters
    <2>3. currentAllocs' = [currentAllocs EXCEPT ![p0] = @ + 1, !["attributePool"] = @ + Len(s)]
        BY <1>7, <2>1
    <2>4. /\ currentAllocs' \in Counters
          /\ currentAllocs'["attributePool"] = currentAllocs["attributePool"] + Len(s)
          /\ \A p \in Pools \ {"attributePool"} :
                currentAllocs'[p] = currentAllocs[p] + (IF p = Pool(k) THEN 1 ELSE 0)
        BY <2>1, <2>2, <2>3 DEF Pools, Counters
    <2>5. Constructed(m, k, v, s, kind, kind', value, value', attributes, attributes',
                      currentAllocs, currentAllocs', nUntracked, nUntracked')
        BY <1>1, <1>3, <1>6, <1>7, <2>4 DEF Constructed
    <2> QED BY <1>1, <2>5, ConstructSound
<1> QED BY <1>7, <1>8 DEF ObjectsOK, NewNode

(* An insertion within its contract. *)
LEMMA InsertNode ==
    ASSUME IInv, NEW this \in AllNodes, NEW x, Insertable(this, x)
    PROVE  /\ Sound(kind, value, attributes, links, currentAllocs, nUntracked, dropped)
           /\ Shape(links, InUse(kind) \cup {Doc})
           /\ MayLink(links, InUse(kind) \cup {Doc}, this, x)
<1>1. Sound(kind, value, attributes, links, currentAllocs, nUntracked, dropped)
    BY DEF IInv, ObjectsOK
<1>2. this \in InUse(kind) \cup {Doc}
    BY DEF Insertable, InUse, AllNodes
<1>3. x \in InUse(kind) /\ x \in Nodes /\ links.parent[x] = Null /\ this # x
      /\ this \notin DeleteChildren(links, x)
    BY DEF Insertable, Live, InUse
<1> QED BY <1>1, <1>2, <1>3 DEF Sound, MayLink

(* InsertEndChild, InsertFirstChild and InsertAfterChild. *)
LEMMA InsertsKeepObjects ==
    ASSUME IInv, NEW this \in AllNodes, NEW x \in Nodes,
           \/ AddEndChild(this, x)
           \/ AddFirstChild(this, x)
           \/ \E m \in Nodes : AddAfterChild(this, m, x)
    PROVE  ObjectsOK'
<1>1. Insertable(this, x) /\ Insert(x)
    BY DEF AddEndChild, AddFirstChild, AddAfterChild
<1>2. /\ Sound(kind, value, attributes, links, currentAllocs, nUntracked, dropped)
      /\ Shape(links, InUse(kind) \cup {Doc})
      /\ MayLink(links, InUse(kind) \cup {Doc}, this, x)
    BY <1>1, InsertNode
<1>3. \E b, a : Gap(links, this, b, a) /\ Linked(links, links', this, x, b, a)
    <2>1. CASE AddEndChild(this, x)
        BY <1>2, <2>1, InsertEndLinks DEF AddEndChild
    <2>2. CASE AddFirstChild(this, x)
        BY <1>2, <2>2, InsertFirstLinks DEF AddFirstChild
    <2>3. ASSUME NEW m \in Nodes, AddAfterChild(this, m, x)
          PROVE  \E b, a : Gap(links, this, b, a) /\ Linked(links, links', this, x, b, a)
        <3>1. links.parent[m] = this /\ links' = InsertAfterChild(links, this, m, x)
            BY <2>3 DEF AddAfterChild
        <3> QED BY <1>2, <3>1, InsertAfterLinks
    <2> QED BY <2>1, <2>2, <2>3
<1>4. PICK b, a : Gap(links, this, b, a) /\ Linked(links, links', this, x, b, a)
    BY <1>3
<1>5. Sound(kind, value, attributes, links', currentAllocs, SetTracked(nUntracked, kind[x]), dropped)
    BY <1>2, <1>4, LinkSound
<1> QED BY <1>1, <1>5 DEF Insert, ObjectsOK

(* What DELETE_NODE and DELETE_ATTRIBUTE take from the counters. *)
LEMMA FreeCounts ==
    ASSUME NEW D \in SUBSET Nodes, currentAllocs \in Counters, attributes \in AttributeLists
    PROVE  /\ Free(D) \in [Pools -> Int]
           /\ Free(D)["attributePool"]
                 = currentAllocs["attributePool"] - Cardinality(Cells(attributes, D))
           /\ \A p \in Pools \ {"attributePool"} :
                 Free(D)[p] = currentAllocs[p] - Cardinality(OfPool(kind, D, p))
<1>1. "attributePool" \in Pools
    BY DEF Pools
<1>2. InPool(D, "attributePool") = Cardinality(Cells(attributes, D))
    BY Zenon DEF InPool, Cells
<1>3. \A p \in Pools \ {"attributePool"} : InPool(D, p) = Cardinality(OfPool(kind, D, p))
    BY Zenon DEF InPool, OfPool
<1>4. \A p \in Pools : InPool(D, p) \in Int
    BY <1>1, <1>2, <1>3, CellsFinite, OfPoolNat
<1>5. Free(D) = [p \in Pools |-> currentAllocs[p] - InPool(D, p)]
    BY DEF Free
<1> QED BY <1>1, <1>2, <1>3, <1>4, <1>5 DEF Counters

(* DeleteChildren: none of the nodes it destroys was untracked. *)
LEMMA DestroyChildrenObjects ==
    ASSUME IInv, NEW this \in InUse(kind) \cup {Doc}, DestroyChildren(this),
           UNCHANGED <<nUntracked, dropped>>
    PROVE  ObjectsOK' /\ links'.firstChild[this] = Null
<1>1. Sound(kind, value, attributes, links, currentAllocs, nUntracked, dropped)
    BY DEF IInv, ObjectsOK
<1>2. PICK D : D = DeleteChildren(links, this)
    OBVIOUS
<1>3. PICK V : V = InUse(kind)
    OBVIOUS
<1>4. Shape(links, V \cup {Doc}) /\ V \in SUBSET Nodes
    BY <1>1, <1>3 DEF Sound, InUse
<1>5. links' = XMLNode([links EXCEPT !.firstChild[this] = Null, !.lastChild[this] = Null], D)
    BY <1>2 DEF DestroyChildren, Destroy
<1>6. /\ Shape(links', (V \cup {Doc}) \ D)
      /\ Severable(links, V \cup {Doc}, D, this)
      /\ Severed(links, links', D, this)
    BY <1>2, <1>3, <1>4, <1>5, DestroyChildrenKeepsShape
<1>7. D \in SUBSET V /\ D \in SUBSET Nodes
    BY <1>6, <1>4, DomAssumption DEF Severable
<1>8. \A n \in AllNodes : links'.parent[n] = IF n \in D THEN Null ELSE links.parent[n]
    BY <1>6 DEF Severed
<1>9. links'.firstChild[this] = Null
    <2>1. this \in AllNodes
        BY <1>3, <1>4 DEF AllNodes
    <2> QED BY <1>6, <2>1 DEF Severed
<1>10. Roots(links.parent, D) = {}
    <2>1. Null \notin D \cup {this}
        BY <1>3, <1>4, <1>7, DomAssumption
    <2>2. \A n \in D : links.parent[n] # Null
        <3>1. \A n \in D : links.parent[n] \in D \cup {this}
            BY <1>2, <1>3, <1>4, SubtreeFacts DEF Shape
        <3> QED BY <2>1, <3>1
    <2> QED BY <2>2 DEF Roots
<1>11. \A p : Cardinality(OfPool(kind, Roots(links.parent, D), p)) = 0
    <2>1. \A p : OfPool(kind, Roots(links.parent, D), p) = {}
        BY <1>10 DEF OfPool
    <2> QED BY <2>1, FS_EmptySet
<1>12. /\ kind' = [n \in AllNodes |-> IF n \in D THEN "free" ELSE kind[n]]
       /\ value' = [n \in Nodes |-> IF n \in D THEN Null ELSE value[n]]
       /\ attributes' = [n \in Nodes |-> IF n \in D THEN <<>> ELSE attributes[n]]
       /\ currentAllocs' = Free(D)
       /\ nUntracked' = nUntracked /\ dropped' = dropped
    BY <1>2 DEF DestroyChildren, Destroy
<1>13. Destroyed(D, kind, kind', value, value', attributes, attributes',
                 currentAllocs, currentAllocs')
    BY <1>1, <1>7, <1>12, FreeCounts DEF Sound, Destroyed, Counters
<1>14. nUntracked \in Counters /\ dropped \in [Pools -> Nat]
    BY <1>1 DEF Sound
<1>15. LostTrack(D, kind, links.parent, nUntracked, nUntracked, dropped, dropped)
    <2>1. \A p \in Pools : nUntracked[p] \in Int /\ dropped[p] \in Int
        BY <1>14 DEF Counters
    <2> QED BY <1>11, <2>1 DEF LostTrack
<1>16. Sound(kind', value', attributes', links', currentAllocs', nUntracked, dropped)
    BY <1>1, <1>3, <1>6, <1>7, <1>8, <1>13, <1>14, <1>15, DestroySound
<1> QED BY <1>9, <1>12, <1>16 DEF ObjectsOK

(* The stack of open elements without its last one. *)
LEMMA StackFacts ==
    ASSUME NEW s \in Seq(Nodes), s # <<>>
    PROVE  /\ Front(s) \in Seq(Nodes) /\ DOMAIN Front(s) \subseteq DOMAIN s
           /\ \A i \in DOMAIN Front(s) : Front(s)[i] = s[i] /\ i # Len(s)
           /\ Len(s) \in DOMAIN s /\ Last(s) = s[Len(s)]
<1>1. PICK m \in Nat : m = Len(s)
    OBVIOUS
<1>2. m # 0 /\ DOMAIN s = 1..m
    BY <1>1
<1>3. PICK f : f = SubSeq(s, 1, m - 1)
    OBVIOUS
<1>4. f \in Seq(Nodes) /\ Len(f) = m - 1 /\ \A i \in 1..(m - 1) : f[i] = s[i]
    BY <1>1, <1>2, <1>3
<1>5. Front(s) = f
    BY <1>1, <1>3 DEF Front
<1>6. DOMAIN f = 1..(m - 1)
    BY <1>4
<1> QED BY <1>1, <1>2, <1>4, <1>5, <1>6 DEF Last

(* The element on top of the stack, or the document. *)
Top(s) == IF s = <<>> THEN Doc ELSE Last(s)

(* It exists, and is linked nowhere. *)
LEMMA TopFacts ==
    ASSUME IInv, NEW s \in Seq(Nodes), DOMAIN s \subseteq DOMAIN open,
           \A i \in DOMAIN s : s[i] = open[i]
    PROVE  Top(s) \in InUse(kind) \cup {Doc} /\ links.parent[Top(s)] = Null
<1>1. CASE s = <<>>
    <2>1. Shape(links, InUse(kind) \cup {Doc})
        BY DEF IInv, ObjectsOK, Sound
    <2> QED BY <1>1, <2>1 DEF Top, Shape, Unlinked
<1>2. CASE s # <<>>
    <2>1. Len(s) \in DOMAIN s /\ Last(s) = s[Len(s)]
        BY <1>2, StackFacts
    <2>2. PICK i \in DOMAIN open : Last(s) = open[i] /\ Last(s) \in Nodes
        BY <2>1
    <2>3. kind[open[i]] = "element" /\ links.parent[open[i]] = Null
        BY DEF IInv, ParserOK
    <2> QED BY <1>2, <2>2, <2>3 DEF Top, InUse
<1> QED BY <1>1, <1>2

(* A start tag. *)
LEMMA ParseOpenTagKeeps ==
    ASSUME IInv, NEW n \in Nodes, NEW v \in Values, ParseOpenTag(n, v)
    PROVE  IInv'
<1>1. /\ Parsing /\ Construct(n, "element", v) /\ open' = Append(open, n)
      /\ UNCHANGED <<attributes, dropped>>
    BY DEF ParseOpenTag, Parsing
<1>2. "element" \in Leaves \cup {"element"}
    OBVIOUS
<1>3. ObjectsOK' /\ links' = links /\ links.parent[n] = Null
    BY <1>1, <1>2, ConstructNode
<1>4. /\ open \in Seq(Nodes) /\ pc = "parsing" /\ pc' = pc /\ errorID' = errorID
      /\ errorID \in BOOLEAN
      /\ \A i \in DOMAIN open : kind[open[i]] = "element" /\ links.parent[open[i]] = Null
      /\ \A i, j \in DOMAIN open : open[i] = open[j] => i = j
    BY <1>1 DEF IInv, ParserOK, Parsing
<1>5. /\ kind[n] = "free" /\ kind' = [kind EXCEPT ![n] = "element"]
      /\ kind \in [AllNodes -> Leaves \cup {"element", "document", "free"}]
    BY <1>1 DEF Construct, IInv, ObjectsOK, Sound
<1>6. PICK m \in Nat : m = Len(open)
    BY <1>4
<1>7. PICK s : s = open'
    OBVIOUS
<1>8. s \in Seq(Nodes) /\ DOMAIN s = 1..(m + 1) /\ s[m + 1] = n
      /\ \A i \in 1..m : s[i] = open[i] /\ i \in DOMAIN open
    BY <1>1, <1>4, <1>6, <1>7
<1>9. \A i \in 1..m : s[i] \in Nodes /\ kind[s[i]] = "element" /\ s[i] # n /\ links.parent[s[i]] = Null
    BY <1>4, <1>5, <1>8
<1>10. \A i \in DOMAIN s : kind'[s[i]] = "element" /\ links'.parent[s[i]] = Null
    <2>1. \A i \in 1..m : kind'[s[i]] = "element" /\ links.parent[s[i]] = Null
        BY <1>5, <1>9 DEF AllNodes
    <2>2. kind'[n] = "element"
        BY <1>5 DEF AllNodes
    <2> QED BY <1>3, <1>8, <2>1, <2>2
<1>11. \A i, j \in DOMAIN s : s[i] = s[j] => i = j
    BY <1>4, <1>8, <1>9
<1>12. ParserOK'
    BY <1>4, <1>7, <1>8, <1>10, <1>11 DEF ParserOK
<1> QED BY <1>3, <1>12 DEF IInv

(* A text, comment, declaration, unknown or sealed element: constructed and  *)
(* linked behind the last child of the element being parsed.                 *)
LEMMA ParseLeafKeeps ==
    ASSUME IInv, NEW n \in Nodes, NEW v \in Values, NEW k \in Leaves \cup {"element"},
           NEW attr \in Attrs(v), ParseLeaf(n, k, v, attr)
    PROVE  IInv'
<1>1. /\ Sound(kind, value, attributes, links, currentAllocs, nUntracked, dropped)
      /\ kind[n] = "free"
    BY DEF IInv, ObjectsOK, ParseLeaf
<1>2. attr \in Seq(Attribute) /\ UniqueNames(attr)
    <2>1. CASE attr = <<>>
        BY <2>1 DEF UniqueNames
    <2>2. CASE attr # <<>>
        <3>1. PICK a \in AttrNames : attr = <<[name |-> a, value |-> v]>>
            BY <2>2 DEF Attrs
        <3>2. [name |-> a, value |-> v] \in Attribute
            BY DEF Attribute
        <3>3. DOMAIN attr = {1}
            BY <3>1
        <3> QED BY <3>1, <3>2, <3>3 DEF UniqueNames
    <2> QED BY <2>1, <2>2
<1>3. PICK p0 \in Pools \ {"attributePool"} : p0 = Pool(k)
    BY PoolType
<1>4. PICK UU : UU = [nUntracked EXCEPT ![Pool(k)] = @ + 1]
    OBVIOUS
<1>5. /\ kind' = [kind EXCEPT ![n] = k] /\ value' = [value EXCEPT ![n] = v]
      /\ attributes' = [attributes EXCEPT ![n] = attr]
      /\ links' = InsertEndChild(XMLNode(links, {n}), This, n)
      /\ currentAllocs' = [currentAllocs EXCEPT ![p0] = @ + 1, !["attributePool"] = @ + Len(attr)]
      /\ nUntracked' = nUntracked /\ open' = open /\ dropped' = dropped
      /\ errorID' = errorID /\ pc' = pc /\ pc = "parsing"
    BY <1>3 DEF ParseLeaf, Parsing
<1>6. Constructed(n, k, v, attr, kind, kind', value, value', attributes, attributes',
                  currentAllocs, currentAllocs', nUntracked, UU)
    <2>1. Len(attr) \in Nat /\ currentAllocs \in [Pools -> Int]
        BY <1>1, <1>2 DEF Sound, Counters
    <2>2. /\ currentAllocs' \in Counters
          /\ currentAllocs'["attributePool"] = currentAllocs["attributePool"] + Len(attr)
          /\ \A p \in Pools \ {"attributePool"} :
                currentAllocs'[p] = currentAllocs[p] + (IF p = Pool(k) THEN 1 ELSE 0)
        BY <1>3, <1>5, <2>1 DEF Pools, Counters
    <2>3. v \in Values \cup {Null}
        OBVIOUS
    <2> QED BY <1>1, <1>2, <1>4, <1>5, <2>2, <2>3 DEF Constructed
<1>7. /\ Sound(kind', value', attributes', links, currentAllocs', UU, dropped)
      /\ NewNode(links, InUse(kind), InUse(kind'), n)
    BY <1>1, <1>6, ConstructSound
<1>8. PICK q : q = This
    OBVIOUS
<1>9. q \in InUse(kind) \cup {Doc}
    <2>1. open \in Seq(Nodes)
        BY DEF IInv, ParserOK
    <2>2. This = Top(open)
        BY DEF This, Top
    <2> QED BY <1>8, <2>1, <2>2, TopFacts
<1>10. /\ XMLNode(links, {n}) = links
       /\ MayLink(links, InUse(kind') \cup {Doc}, q, n)
    BY <1>7, <1>9 DEF NewNode
<1>11. Shape(links, InUse(kind') \cup {Doc})
    BY <1>7 DEF Sound
<1>12. PICK b : b = links.lastChild[q]
    OBVIOUS
<1>13. Gap(links, q, b, Null) /\ Linked(links, links', q, n, b, Null)
    BY <1>5, <1>8, <1>10, <1>11, <1>12, InsertEndLinks
<1>14. Sound(kind', value', attributes', links', currentAllocs', SetTracked(UU, kind'[n]), dropped)
    BY <1>7, <1>10, <1>13, LinkSound
<1>15. kind'[n] = k /\ \A m \in Nodes : m # n => kind'[m] = kind[m]
    BY <1>1, <1>5 DEF Sound, AllNodes
<1>16. SetTracked(UU, kind'[n]) = nUntracked
    <2>1. nUntracked \in [Pools -> Int]
        BY <1>1 DEF Sound, Counters
    <2>2. UU = [nUntracked EXCEPT ![p0] = @ + 1] /\ SetTracked(UU, kind'[n]) = [UU EXCEPT ![p0] = @ - 1]
        BY <1>3, <1>4, <1>15 DEF SetTracked
    <2>3. PICK W : W = [UU EXCEPT ![p0] = @ - 1]
        OBVIOUS
    <2>4. UU \in [Pools -> Int] /\ UU[p0] = nUntracked[p0] + 1
          /\ \A p \in Pools : p # p0 => UU[p] = nUntracked[p]
        BY <1>3, <2>1, <2>2
    <2>5. W \in [Pools -> Int] /\ W[p0] = nUntracked[p0]
          /\ \A p \in Pools : p # p0 => W[p] = nUntracked[p]
        BY <1>3, <2>1, <2>3, <2>4
    <2>6. W = nUntracked
        BY <2>1, <2>5
    <2> QED BY <2>2, <2>3, <2>6
<1>17. ObjectsOK'
    BY <1>5, <1>14, <1>16 DEF ObjectsOK
<1>18. ParserOK'
    <2>1. /\ open \in Seq(Nodes) /\ errorID \in BOOLEAN
          /\ \A i \in DOMAIN open : kind[open[i]] = "element" /\ links.parent[open[i]] = Null
          /\ \A i, j \in DOMAIN open : open[i] = open[j] => i = j
        BY DEF IInv, ParserOK
    <2>2. \A i \in DOMAIN open : kind'[open[i]] = "element" /\ links'.parent[open[i]] = Null
        <3>1. \A i \in DOMAIN open : open[i] \in Nodes /\ open[i] # n
            BY <1>1, <2>1
        <3>2. \A m \in Nodes : m # n => links'.parent[m] = links.parent[m]
            BY <1>13 DEF Linked, AllNodes
        <3> QED BY <1>15, <2>1, <3>1, <3>2
    <2> QED BY <1>5, <2>1, <2>2 DEF ParserOK
<1> QED BY <1>17, <1>18 DEF IInv

(* An end tag: the open element, with what it holds, is linked behind the    *)
(* last child of the one below it on the stack, which is not part of it.     *)
LEMMA ParseEndTagKeeps ==
    ASSUME IInv, ParseEndTag
    PROVE  IInv'
<1>1. Sound(kind, value, attributes, links, currentAllocs, nUntracked, dropped)
    BY DEF IInv, ObjectsOK
<1>2. /\ open \in Seq(Nodes) /\ errorID \in BOOLEAN
      /\ \A i \in DOMAIN open : kind[open[i]] = "element" /\ links.parent[open[i]] = Null
      /\ \A i, j \in DOMAIN open : open[i] = open[j] => i = j
    BY DEF IInv, ParserOK
<1>3. PICK x : x = Last(open)
    OBVIOUS
<1>4. PICK s : s = Front(open)
    OBVIOUS
<1>5. PICK q : q = Top(s)
    OBVIOUS
<1>6. /\ open # <<>> /\ open' = s /\ links' = InsertEndChild(links, q, x)
      /\ nUntracked' = SetTracked(nUntracked, kind[x])
      /\ kind' = kind /\ value' = value /\ attributes' = attributes
      /\ currentAllocs' = currentAllocs /\ dropped' = dropped
      /\ errorID' = errorID /\ pc' = pc /\ pc = "parsing"
    BY <1>3, <1>4, <1>5 DEF ParseEndTag, Parsing, Top
<1>7. /\ s \in Seq(Nodes) /\ DOMAIN s \subseteq DOMAIN open
      /\ \A i \in DOMAIN s : s[i] = open[i] /\ i # Len(open)
      /\ Len(open) \in DOMAIN open /\ x = open[Len(open)]
    BY <1>2, <1>3, <1>4, <1>6, StackFacts
<1>8. x \in Nodes /\ kind[x] = "element" /\ links.parent[x] = Null
    BY <1>2, <1>7
<1>9. \A i \in DOMAIN s : s[i] \in Nodes /\ s[i] # x
    BY <1>2, <1>7
<1>10. q \in InUse(kind) \cup {Doc} /\ links.parent[q] = Null
    BY <1>5, <1>7, TopFacts
<1>11. q # x
    <2>1. CASE s = <<>>
        BY <1>5, <1>8, <2>1, DomAssumption DEF Top
    <2>2. CASE s # <<>>
        <3>1. Len(s) \in DOMAIN s /\ Last(s) = s[Len(s)]
            BY <1>7, <2>2, StackFacts
        <3> QED BY <1>5, <1>9, <2>2, <3>1 DEF Top
    <2> QED BY <2>1, <2>2
<1>12. Shape(links, InUse(kind) \cup {Doc}) /\ x \in InUse(kind) /\ x \in AllNodes
    BY <1>1, <1>8 DEF Sound, InUse, AllNodes
<1>13. q \notin DeleteChildren(links, x)
    <2>1. /\ \A n \in DeleteChildren(links, x) : links.parent[n] \in DeleteChildren(links, x) \cup {x}
          /\ DeleteChildren(links, x) \in SUBSET ((InUse(kind) \cup {Doc}) \cap Nodes)
        BY <1>12, SubtreeFacts
    <2>2. Null \notin DeleteChildren(links, x) \cup {x}
        BY <1>8, <2>1, DomAssumption
    <2> QED BY <1>10, <2>1, <2>2
<1>14. MayLink(links, InUse(kind) \cup {Doc}, q, x)
    BY <1>8, <1>10, <1>11, <1>12, <1>13 DEF MayLink
<1>15. PICK b : b = links.lastChild[q]
    OBVIOUS
<1>16. Gap(links, q, b, Null) /\ Linked(links, links', q, x, b, Null)
    BY <1>6, <1>12, <1>14, <1>15, InsertEndLinks
<1>17. Sound(kind, value, attributes, links', currentAllocs, SetTracked(nUntracked, kind[x]), dropped)
    BY <1>1, <1>14, <1>16, LinkSound
<1>18. ObjectsOK'
    BY <1>6, <1>17 DEF ObjectsOK
<1>19. \A i \in DOMAIN s : kind[s[i]] = "element" /\ links'.parent[s[i]] = Null
    <2>1. \A m \in Nodes : m # x => links'.parent[m] = links.parent[m]
        BY <1>16 DEF Linked, AllNodes
    <2> QED BY <1>2, <1>7, <1>9, <2>1
<1>20. \A i, j \in DOMAIN s : s[i] = s[j] => i = j
    BY <1>2, <1>7
<1>21. ParserOK'
    BY <1>2, <1>6, <1>7, <1>19, <1>20 DEF ParserOK
<1> QED BY <1>18, <1>21 DEF IInv

(* What is left of a node's subtree without parent: the node, if it has none. *)
LEMMA RootsOfSubtree ==
    ASSUME NEW D, NEW c \in D, NEW P, \A n \in D : P[n] = Null => n = c
    PROVE  Roots(P, D) = IF P[c] = Null THEN {c} ELSE {}
BY DEF Roots

(* DeleteChild: a node that was never linked stays counted as untracked. *)
LEMMA DeleteChildKeeps ==
    ASSUME IInv, NEW x \in Nodes, DeleteChild(x)
    PROVE  ObjectsOK'
<1>1. Sound(kind, value, attributes, links, currentAllocs, nUntracked, dropped)
    BY DEF IInv, ObjectsOK
<1>2. PICK D : D = DeleteChildren(links, x) \cup {x}
    OBVIOUS
<1>3. PICK V : V = InUse(kind)
    OBVIOUS
<1>4. Shape(links, V \cup {Doc}) /\ V \in SUBSET Nodes /\ x \in V
    BY <1>1, <1>3 DEF Sound, InUse, DeleteChild, Live
<1>5. /\ links' = XMLNode(DeleteNode(links, x), D)
      /\ kind' = [n \in AllNodes |-> IF n \in D THEN "free" ELSE kind[n]]
      /\ value' = [n \in Nodes |-> IF n \in D THEN Null ELSE value[n]]
      /\ attributes' = [n \in Nodes |-> IF n \in D THEN <<>> ELSE attributes[n]]
      /\ currentAllocs' = Free(D)
      /\ nUntracked' = nUntracked
      /\ dropped' = IF links.parent[x] # Null THEN dropped
                    ELSE [dropped EXCEPT ![Pool(kind[x])] = @ + 1]
    BY <1>2 DEF DeleteChild, Destroy
<1>6. /\ D \in SUBSET ((V \cup {Doc}) \cap Nodes)
      /\ Shape(links', (V \cup {Doc}) \ D)
      /\ \A n \in AllNodes : links'.parent[n] = IF n \in D THEN Null ELSE links.parent[n]
      /\ \A n \in D : links.parent[n] = Null => n = x
    <2>1. x \in (V \cup {Doc}) \cap Nodes
        BY <1>4
    <2>2. links' = XMLNode(DeleteNode(links, x), D)
        BY <1>5
    <2>3. PICK W : W = V \cup {Doc}
        OBVIOUS
    <2>4. Shape(links, W) /\ x \in W \cap Nodes
        BY <1>4, <2>1, <2>3
    <2>5. Deleted(links, links', W, D, x)
        BY <1>2, <2>2, <2>4, DeleteNodeKeepsShape
    <2> QED BY <2>3, <2>5 DEF Deleted
<1>7. D \in SUBSET V /\ D \in SUBSET Nodes /\ x \in D
    BY <1>2, <1>6, DomAssumption
<1>8. Destroyed(D, kind, kind', value, value', attributes, attributes',
                currentAllocs, currentAllocs')
    BY <1>1, <1>5, <1>7, FreeCounts DEF Sound, Destroyed, Counters
<1>9. PICK P : P = links.parent
    OBVIOUS
<1>10. Roots(P, D) = IF P[x] = Null THEN {x} ELSE {}
    BY <1>6, <1>7, <1>9, RootsOfSubtree
<1>11. nUntracked \in [Pools -> Int] /\ dropped \in [Pools -> Nat]
    BY <1>1 DEF Sound, Counters
<1>12. PICK p0 \in Pools \ {"attributePool"} : p0 = Pool(kind[x])
    BY PoolType
<1>13. /\ dropped' \in [Pools -> Nat]
       /\ \A p \in Pools : dropped'[p] = dropped[p] + (IF P[x] = Null /\ p = p0 THEN 1 ELSE 0)
    <2>1. CASE P[x] = Null
        <3>1. dropped' = [dropped EXCEPT ![p0] = @ + 1]
            BY <1>5, <1>9, <1>12, <2>1
        <3> QED BY <1>11, <1>12, <2>1, <3>1
    <2>2. CASE P[x] # Null
        BY <1>5, <1>9, <1>11, <2>2
    <2> QED BY <2>1, <2>2
<1>14. \A p : Cardinality(OfPool(kind, Roots(P, D), p)) = IF P[x] = Null /\ p = p0 THEN 1 ELSE 0
    BY <1>10, <1>12, OfPoolOne
<1>15. LostTrack(D, kind, P, nUntracked, nUntracked, dropped, dropped')
    <2>1. "attributePool" \in Pools
        BY DEF Pools
    <2>2. dropped'["attributePool"] = dropped["attributePool"] + 0
        BY <1>12, <1>13, <2>1
    <2>3. nUntracked["attributePool"] - dropped'["attributePool"]
              = nUntracked["attributePool"] - dropped["attributePool"]
        BY <1>11, <2>1, <2>2
    <2>4. ASSUME NEW p \in Pools \ {"attributePool"}
          PROVE  nUntracked[p] - dropped'[p] = nUntracked[p] - dropped[p]
                     - Cardinality(OfPool(kind, Roots(P, D), p))
        <3>1. PICK d \in {0, 1} : d = IF P[x] = Null /\ p = p0 THEN 1 ELSE 0
            OBVIOUS
        <3>2. dropped'[p] = dropped[p] + d /\ Cardinality(OfPool(kind, Roots(P, D), p)) = d
            BY <1>13, <1>14, <3>1
        <3> QED BY <1>11, <3>2
    <2> QED BY <2>3, <2>4 DEF LostTrack
<1>16. Sound(kind', value', attributes', links', currentAllocs', nUntracked, dropped')
    <2>1. nUntracked \in Counters
        BY <1>11 DEF Counters
    <2>2. LostTrack(D, kind, links.parent, nUntracked, nUntracked, dropped, dropped')
        BY <1>9, <1>15
    <2> QED BY <1>1, <1>3, <1>6, <1>7, <1>8, <1>13, <2>1, <2>2, DestroySound
<1> QED BY <1>5, <1>16 DEF ObjectsOK

(* There are as many open elements as the stack is high. *)
LEMMA StackCount ==
    ASSUME NEW s \in Seq(Nodes), \A i, j \in DOMAIN s : s[i] = s[j] => i = j,
           NEW R, R = {s[i] : i \in DOMAIN s}
    PROVE  R \in SUBSET Nodes /\ Cardinality(R) = Len(s)
<1>1. PICK m \in Nat : m = Len(s)
    OBVIOUS
<1>2. DOMAIN s = 1..m
    BY <1>1
<1>3. IsFiniteSet(1..m) /\ Cardinality(1..m) = m
    BY FS_Interval, SMTT(30)
<1>4. s \in [1..m -> R] /\ \A r \in R : \E i \in 1..m : s[i] = r
    BY <1>2
<1>5. s \in Surjection(1..m, R)
    BY <1>4 DEF Surjection
<1>6. s \in Injection(1..m, R)
    BY <1>2, <1>4 DEF Injection, IsInjective
<1>7. Cardinality(R) = Cardinality(1..m)
    BY <1>3, <1>5, <1>6, FS_Surjection
<1>8. R \in SUBSET Nodes
    OBVIOUS
<1> QED BY <1>1, <1>3, <1>7, <1>8

(* A parse error: every open element goes with what it holds, and the pools  *)
(* lose track of the open elements and of the node being parsed.             *)
LEMMA ParseErrorKeeps ==
    ASSUME IInv, NEW k \in Leaves \cup {"element", Null}, ParseError(k)
    PROVE  IInv'
<1>1. Sound(kind, value, attributes, links, currentAllocs, nUntracked, dropped)
    BY DEF IInv, ObjectsOK
<1>2. /\ open \in Seq(Nodes)
      /\ \A i \in DOMAIN open : kind[open[i]] = "element" /\ links.parent[open[i]] = Null
      /\ \A i, j \in DOMAIN open : open[i] = open[j] => i = j
    BY DEF IInv, ParserOK
<1>3. PICK D : D = UNION {DeleteChildren(links, open[i]) \cup {open[i]} : i \in DOMAIN open}
    OBVIOUS
<1>4. PICK R : R = {open[i] : i \in DOMAIN open}
    OBVIOUS
<1>5. PICK V : V = InUse(kind)
    OBVIOUS
<1>6. R \in SUBSET Nodes /\ Cardinality(R) = Len(open)
    BY <1>2, <1>4, StackCount
<1>7. \A r \in R : kind[r] = "element" /\ links.parent[r] = Null
    BY <1>2, <1>4
<1>8. Shape(links, V \cup {Doc}) /\ V \in SUBSET Nodes /\ R \in SUBSET V
    BY <1>1, <1>5, <1>6, <1>7 DEF Sound, InUse
<1>9. D = UNION {DeleteChildren(links, r) \cup {r} : r \in R}
    BY <1>3, <1>4
<1>10. /\ Severable(links, V \cup {Doc}, D, Null)
       /\ Shape(XMLNode(links, D), (V \cup {Doc}) \ D)
       /\ {n \in D : links.parent[n] = Null} = R
    <2>1. R \in SUBSET ((V \cup {Doc}) \cap Nodes)
        BY <1>8
    <2> QED BY <1>7, <1>8, <1>9, <2>1, SubtreesSeverable, SMTT(30)
<1>11. D \in SUBSET V /\ D \in SUBSET Nodes
    BY <1>8, <1>10, DomAssumption DEF Severable
<1>12. PICK e \in {0, 1} : e = IF k = Null THEN 0 ELSE 1
    OBVIOUS
<1>13. PICK p0 \in Pools \ {"attributePool"} : p0 = IF k = Null THEN "elementPool" ELSE Pool(k)
    BY PoolType DEF Pools
<1>14. PICK lost : lost = [p \in Pools |-> (IF p = "elementPool" THEN Len(open) ELSE 0)
                                         + (IF k # Null /\ p = Pool(k) THEN 1 ELSE 0)]
    OBVIOUS
<1>15. /\ Destroy(D, links)
       /\ nUntracked' = [nUntracked EXCEPT ![p0] = IF k = Null THEN @ ELSE @ + 1]
       /\ dropped' = [p \in Pools |-> dropped[p] + lost[p]]
       /\ errorID' = TRUE /\ open' = <<>> /\ pc' = "idle"
    BY <1>3, <1>13, <1>14 DEF ParseError
<1>16. /\ links' = XMLNode(links, D)
       /\ kind' = [n \in AllNodes |-> IF n \in D THEN "free" ELSE kind[n]]
       /\ value' = [n \in Nodes |-> IF n \in D THEN Null ELSE value[n]]
       /\ attributes' = [n \in Nodes |-> IF n \in D THEN <<>> ELSE attributes[n]]
       /\ currentAllocs' = Free(D)
    BY <1>15 DEF Destroy
<1>17. \A n \in AllNodes : links'.parent[n] = IF n \in D THEN Null ELSE links.parent[n]
    <2>1. links \in Links
        BY <1>8 DEF Shape
    <2> QED BY <1>16, <2>1, XMLNodeFields
<1>18. Destroyed(D, kind, kind', value, value', attributes, attributes',
                 currentAllocs, currentAllocs')
    BY <1>1, <1>11, <1>16, FreeCounts DEF Sound, Destroyed, Counters
<1>19. nUntracked \in [Pools -> Int] /\ dropped \in [Pools -> Nat] /\ Len(open) \in Nat
    BY <1>1, <1>2 DEF Sound, Counters
<1>20. \A p \in Pools : /\ nUntracked'[p] = nUntracked[p] + (IF p = p0 THEN e ELSE 0)
                        /\ lost[p] = (IF p = "elementPool" THEN Len(open) ELSE 0)
                                     + (IF p = p0 THEN e ELSE 0)
                        /\ lost[p] \in Nat
                        /\ dropped'[p] = dropped[p] + lost[p]
    <2>1. PICK d0 \in {0, 1} : d0 = IF k = Null THEN 0 ELSE 1
        OBVIOUS
    <2>2. nUntracked[p0] \in Int /\ e = d0
        BY <1>12, <1>19, <2>1
    <2>3. (IF k = Null THEN nUntracked[p0] ELSE nUntracked[p0] + 1) = nUntracked[p0] + e
        BY <2>1, <2>2
    <2>4. nUntracked' = [nUntracked EXCEPT ![p0] = nUntracked[p0] + e]
        BY <1>15, <2>3
    <2>5. ASSUME NEW p \in Pools
          PROVE  nUntracked'[p] = nUntracked[p] + (IF p = p0 THEN e ELSE 0)
        BY <1>19, <2>4
    <2>6. ASSUME NEW p \in Pools
          PROVE  (IF k # Null /\ p = Pool(k) THEN 1 ELSE 0) = (IF p = p0 THEN e ELSE 0)
        <3>1. CASE k = Null
            BY <1>12, <3>1
        <3>2. CASE k # Null
            BY <1>12, <1>13, <3>2
        <3> QED BY <3>1, <3>2
    <2>7. ASSUME NEW p \in Pools
          PROVE  /\ lost[p] = (IF p = "elementPool" THEN Len(open) ELSE 0)
                              + (IF p = p0 THEN e ELSE 0)
                 /\ dropped'[p] = dropped[p] + lost[p]
        BY <1>14, <1>15, <2>6
    <2>8. ASSUME NEW p \in Pools PROVE lost[p] \in Nat
        <3>1. PICK l \in Nat : l = IF p = "elementPool" THEN Len(open) ELSE 0
            BY <1>19
        <3>2. PICK d \in Nat : d = IF p = p0 THEN e ELSE 0
            OBVIOUS
        <3>3. lost[p] = l + d
            BY <2>7, <3>1, <3>2
        <3> QED BY <3>3
    <2> QED BY <2>5, <2>7, <2>8
<1>21. nUntracked' \in Counters /\ dropped' \in [Pools -> Nat]
    <2>1. ASSUME NEW p \in Pools PROVE dropped[p] + lost[p] \in Nat
        <3>1. dropped[p] \in Nat /\ lost[p] \in Nat
            BY <1>19, <1>20
        <3> QED BY <3>1
    <2>2. dropped' \in [Pools -> Nat]
        BY <1>15, <2>1
    <2>3. DOMAIN nUntracked' = Pools /\ nUntracked' = [p \in DOMAIN nUntracked' |-> nUntracked'[p]]
        BY <1>15, <1>19
    <2>4. ASSUME NEW p \in Pools PROVE nUntracked'[p] \in Int
        <3>1. PICK d \in Int : d = IF p = p0 THEN e ELSE 0
            OBVIOUS
        <3>2. nUntracked'[p] = nUntracked[p] + d /\ nUntracked[p] \in Int
            BY <1>19, <1>20, <3>1
        <3> QED BY <3>2
    <2> QED BY <2>2, <2>3, <2>4 DEF Counters
<1>22. \A p : Cardinality(OfPool(kind, Roots(links.parent, D), p))
                  = IF p = "elementPool" THEN Len(open) ELSE 0
    <2>1. Roots(links.parent, D) = R
        BY <1>10 DEF Roots
    <2>2. Pool("element") = "elementPool"
        BY DEF Pool
    <2>3. \A p : OfPool(kind, R, p) = IF p = "elementPool" THEN R ELSE {}
        BY <1>7, <2>2 DEF OfPool
    <2> QED BY <1>6, <2>1, <2>3, FS_EmptySet
<1>23. LostTrack(D, kind, links.parent, nUntracked, nUntracked', dropped, dropped')
    <2>1. ASSUME NEW p \in Pools
          PROVE  nUntracked'[p] - dropped'[p] = nUntracked[p] - dropped[p]
                     - (IF p = "elementPool" THEN Len(open) ELSE 0)
        <3>1. PICK d \in {0, 1} : d = IF p = p0 THEN e ELSE 0
            BY <1>12
        <3>2. PICK l \in Nat : l = IF p = "elementPool" THEN Len(open) ELSE 0
            BY <1>19
        <3>3. nUntracked'[p] = nUntracked[p] + d /\ dropped'[p] = dropped[p] + (l + d)
            BY <1>20, <3>1, <3>2
        <3>4. nUntracked[p] \in Int /\ dropped[p] \in Int
            BY <1>19
        <3>5. nUntracked'[p] - dropped'[p] = nUntracked[p] - dropped[p] - l
            BY <3>3, <3>4
        <3> QED BY <3>2, <3>5
    <2>2. /\ "attributePool" \in Pools /\ "attributePool" # "elementPool"
        BY DEF Pools
    <2>3. nUntracked'["attributePool"] - dropped'["attributePool"]
              = nUntracked["attributePool"] - dropped["attributePool"]
        BY <1>19, <2>1, <2>2
    <2> QED BY <1>22, <2>1, <2>3 DEF LostTrack
<1>24. Sound(kind', value', attributes', links', currentAllocs', nUntracked', dropped')
    <2>1. Shape(links', (V \cup {Doc}) \ D)
        BY <1>10, <1>16
    <2> QED BY <1>1, <1>5, <1>11, <1>17, <1>18, <1>21, <1>23, <2>1, DestroySound
<1>25. ParserOK'
    BY <1>15 DEF ParserOK
<1> QED BY <1>24, <1>25 DEF IInv, ObjectsOK

(* SetValue. *)
LEMMA SetValueKeeps ==
    ASSUME IInv, NEW n \in Nodes, NEW v \in Values, SetValue(n, v)
    PROVE  ObjectsOK'
<1>1. Sound(kind, value, attributes, links, currentAllocs, nUntracked, dropped)
    BY DEF IInv, ObjectsOK
<1>2. value' = [value EXCEPT ![n] = v] /\ value \in [Nodes -> Values \cup {Null}]
    BY <1>1 DEF SetValue, Sound
<1>3. value' \in [Nodes -> Values \cup {Null}]
    BY <1>2
<1>4. Sound(kind, value', attributes, links, currentAllocs, nUntracked, dropped)
    BY <1>1, <1>3 DEF Sound
<1> QED BY <1>4 DEF SetValue, ObjectsOK

(* SetCData. *)
LEMMA SetCDataKeeps ==
    ASSUME IInv, NEW n \in Nodes, SetCData(n)
    PROVE  ObjectsOK'
<1>1. Sound(kind, value, attributes, links, currentAllocs, nUntracked, dropped)
    BY DEF IInv, ObjectsOK
<1>2. PICK k : k = IF kind[n] = "text" THEN "cdata" ELSE "text"
    OBVIOUS
<1>3. k \in {"text", "cdata"} /\ kind[n] \in {"text", "cdata"}
    BY <1>2 DEF SetCData
<1>4. kind' = [kind EXCEPT ![n] = k]
    BY <1>2 DEF SetCData
<1>5. Sound(kind', value, attributes, links, currentAllocs, nUntracked, dropped)
    BY <1>1, <1>3, <1>4, SetCDataSound
<1> QED BY <1>5 DEF SetCData, ObjectsOK

(* FindOrCreateAttribute: a name that is not found is appended, otherwise    *)
(* the value of the one attribute of that name changes.                      *)
LEMMA SetAttributeKeeps ==
    ASSUME IInv, NEW n \in Nodes, NEW v \in Values, NEW a \in AttrNames, SetAttribute(n, a, v)
    PROVE  ObjectsOK'
<1>1. Sound(kind, value, attributes, links, currentAllocs, nUntracked, dropped)
    BY DEF IInv, ObjectsOK
<1>2. /\ attributes \in AttributeLists /\ currentAllocs \in Counters
      /\ attributes[n] \in Seq(Attribute) /\ UniqueNames(attributes[n])
    BY <1>1 DEF Sound, AttributeLists
<1>3. PICK i : i = FindAttribute(n, a)
    OBVIOUS
<1>4. IF i = 0 THEN \A j \in DOMAIN attributes[n] : attributes[n][j].name # a
      ELSE i \in DOMAIN attributes[n]
    BY <1>2, <1>3, FindAttributeFacts
<1>5. PICK s \in Seq(Attribute) : s = attributes[n] /\ UniqueNames(s)
    BY <1>2
<1>6. CASE i = 0
    <2>1. n \in InUse(kind)
        BY <1>6 DEF SetAttribute, InUse
    <2>2. PICK e \in Attribute : e = [name |-> a, value |-> v]
        BY DEF Attribute
    <2>3. e.name = a
        BY <2>2
    <2>4. PICK r : r = Append(s, e)
        OBVIOUS
    <2>5. PICK m \in Nat : m = Len(s)
        OBVIOUS
    <2>6. /\ r \in Seq(Attribute) /\ Len(r) = m + 1 /\ DOMAIN r = 1..(m + 1)
          /\ r[m + 1] = e /\ \A j \in 1..m : r[j] = s[j] /\ j \in DOMAIN s
        BY <2>2, <2>4, <2>5
    <2>7. UniqueNames(r)
        <3>1. \A j \in 1..m : r[j].name # a
            BY <1>4, <1>5, <1>6, <2>6
        <3>2. \A j, k \in 1..m : r[j].name = r[k].name => j = k
            BY <1>5, <2>6 DEF UniqueNames
        <3>3. r[m + 1].name = a
            BY <2>3, <2>6
        <3> QED BY <2>6, <3>1, <3>2, <3>3 DEF UniqueNames
    <2>8. /\ attributes' = [attributes EXCEPT ![n] = r]
          /\ currentAllocs' = [currentAllocs EXCEPT !["attributePool"] = @ + 1]
        BY <1>3, <1>5, <1>6, <2>2, <2>4 DEF SetAttribute
    <2>9. /\ currentAllocs' \in Counters
          /\ currentAllocs'["attributePool"] = currentAllocs["attributePool"] + 1
          /\ \A p \in Pools : p # "attributePool" => currentAllocs'[p] = currentAllocs[p]
        BY <1>2, <2>8 DEF Counters, Pools
    <2>10. Len(r) = Len(attributes[n]) + 1
        BY <1>5, <2>5, <2>6
    <2>11. Relisted(n, r, 1, attributes, attributes', currentAllocs, currentAllocs')
        BY <2>6, <2>7, <2>8, <2>9, <2>10 DEF Relisted
    <2>12. Sound(kind, value, attributes', links, currentAllocs', nUntracked, dropped)
        BY <1>1, <2>1, <2>11, AttributesSound
    <2> QED BY <1>6, <2>12 DEF SetAttribute, ObjectsOK
<1>7. CASE i # 0
    <2>1. n \in InUse(kind) /\ i \in DOMAIN s
        BY <1>4, <1>5, <1>7 DEF SetAttribute, InUse
    <2>2. PICK e : e = [s[i] EXCEPT !.value = v]
        OBVIOUS
    <2>3. e \in Attribute /\ e.name = s[i].name
        <3>1. PICK c \in Attribute : c = s[i]
            BY <2>1
        <3>2. c \in [name : AttrNames, value : Values]
            BY DEF Attribute
        <3>3. e = [c EXCEPT !.value = v]
            BY <2>2, <3>1
        <3>4. e \in [name : AttrNames, value : Values] /\ e.name = c.name
            BY <3>2, <3>3
        <3> QED BY <3>1, <3>4 DEF Attribute
    <2>4. PICK r : r = [s EXCEPT ![i] = e]
        OBVIOUS
    <2>5. /\ r \in Seq(Attribute) /\ Len(r) = Len(s) /\ DOMAIN r = DOMAIN s
          /\ \A j \in DOMAIN s : r[j] = IF j = i THEN e ELSE s[j]
        BY <2>1, <2>3, <2>4
    <2>6. UniqueNames(r)
        <3>1. \A j \in DOMAIN s : r[j].name = s[j].name
            BY <2>3, <2>5
        <3> QED BY <1>5, <2>5, <3>1 DEF UniqueNames
    <2>7. attributes' = [attributes EXCEPT ![n] = r] /\ currentAllocs' = currentAllocs
        BY <1>3, <1>5, <1>7, <2>2, <2>4 DEF SetAttribute
    <2>8. Len(r) = Len(attributes[n]) + 0
        BY <1>5, <2>5
    <2>9. currentAllocs'["attributePool"] = currentAllocs["attributePool"] + 0
        BY <1>2, <2>7 DEF Counters, Pools
    <2>10. Relisted(n, r, 0, attributes, attributes', currentAllocs, currentAllocs')
        BY <1>2, <2>5, <2>6, <2>7, <2>8, <2>9 DEF Relisted
    <2>11. Sound(kind, value, attributes', links, currentAllocs', nUntracked, dropped)
        BY <1>1, <2>1, <2>10, AttributesSound
    <2> QED BY <1>7, <2>11 DEF SetAttribute, ObjectsOK
<1> QED BY <1>6, <1>7

(* DeleteAttribute. *)
LEMMA DeleteAttributeKeeps ==
    ASSUME IInv, NEW n \in Nodes, NEW a \in AttrNames, DeleteAttribute(n, a)
    PROVE  ObjectsOK'
<1>1. Sound(kind, value, attributes, links, currentAllocs, nUntracked, dropped)
    BY DEF IInv, ObjectsOK
<1>2. /\ attributes \in AttributeLists /\ currentAllocs \in Counters
      /\ attributes[n] \in Seq(Attribute) /\ UniqueNames(attributes[n])
    BY <1>1 DEF Sound, AttributeLists
<1>3. PICK i : i = FindAttribute(n, a)
    OBVIOUS
<1>4. IF i = 0 THEN \A j \in DOMAIN attributes[n] : attributes[n][j].name # a
      ELSE i \in DOMAIN attributes[n]
    BY <1>2, <1>3, FindAttributeFacts
<1>5. PICK s \in Seq(Attribute) : s = attributes[n] /\ UniqueNames(s)
    BY <1>2
<1>6. n \in InUse(kind) /\ i \in DOMAIN s
    BY <1>3, <1>4, <1>5 DEF DeleteAttribute, InUse
<1>7. PICK r : r = RemoveAt(s, i)
    OBVIOUS
<1>8. r \in Seq(Attribute) /\ Len(r) = Len(s) - 1 /\ UniqueNames(r)
    BY <1>5, <1>6, <1>7, RemoveAtFacts
<1>9. /\ attributes' = [attributes EXCEPT ![n] = r]
      /\ currentAllocs' = [currentAllocs EXCEPT !["attributePool"] = @ - 1]
    BY <1>3, <1>5, <1>7 DEF DeleteAttribute
<1>10. PICK d \in Int : d = -1
    OBVIOUS
<1>11. /\ currentAllocs' \in Counters
       /\ currentAllocs'["attributePool"] = currentAllocs["attributePool"] + d
       /\ \A p \in Pools : p # "attributePool" => currentAllocs'[p] = currentAllocs[p]
    BY <1>2, <1>9, <1>10 DEF Counters, Pools
<1>12. Len(r) = Len(attributes[n]) + d
    <2>1. Len(s) \in Nat
        BY <1>5
    <2> QED BY <1>5, <1>8, <1>10, <2>1
<1>13. Relisted(n, r, d, attributes, attributes', currentAllocs, currentAllocs')
    BY <1>8, <1>9, <1>11, <1>12 DEF Relisted
<1>14. Sound(kind, value, attributes', links, currentAllocs', nUntracked, dropped)
    BY <1>1, <1>6, <1>13, AttributesSound
<1> QED BY <1>14 DEF DeleteAttribute, ObjectsOK

(* DeleteChildren, Clear and the destructor of the document. *)
LEMMA ClearsKeep ==
    ASSUME IInv,
           \/ \E this \in AllNodes : RemoveChildren(this)
           \/ ClearDocument \/ Parse \/ DeleteDocument
    PROVE  IInv'
<1>1. CASE \E this \in AllNodes : RemoveChildren(this)
    <2>1. PICK this \in AllNodes : RemoveChildren(this)
        BY <1>1
    <2>2. this \in InUse(kind) \cup {Doc}
        BY <2>1 DEF RemoveChildren, InUse, AllNodes
    <2>3. DestroyChildren(this) /\ UNCHANGED <<nUntracked, dropped>> /\ Idle
        BY <2>1 DEF RemoveChildren
    <2> QED BY <2>2, <2>3, DestroyChildrenObjects, IdleParser DEF IInv
<1>2. CASE ClearDocument \/ Parse \/ DeleteDocument
    <2>1. DestroyChildren(Doc) /\ UNCHANGED <<nUntracked, dropped>>
        BY <1>2 DEF ClearDocument, Parse, DeleteDocument, Clear
    <2>2. ObjectsOK' /\ links'.firstChild[Doc] = Null
        BY <2>1, DestroyChildrenObjects
    <2>3. /\ pc = "idle" /\ pc' \in {"idle", "parsing", "destroyed"}
          /\ errorID' \in {FALSE, errorID} /\ open' = open
        BY <1>2 DEF ClearDocument, Parse, DeleteDocument, Clear
    <2>4. ParserOK'
        <3>1. open = <<>> /\ errorID \in BOOLEAN /\ open \in Seq(Nodes)
            BY <2>3 DEF IInv, ParserOK
        <3>2. errorID' \in BOOLEAN
            BY <2>3, <3>1, Zenon
        <3>3. DOMAIN open = {}
            BY <3>1
        <3> QED BY <2>2, <2>3, <3>1, <3>2, <3>3 DEF ParserOK
    <2> QED BY <2>2, <2>4 DEF IInv
<1> QED BY <1>1, <1>2

(* The constructor of the document. *)
LEMMA XMLDocumentSound ==
    ASSUME XMLDocument
    PROVE  IInv
<1>1. Null \notin AllNodes /\ Doc \in AllNodes /\ Doc \notin Nodes
    BY DomAssumption DEF AllNodes
<1>2. /\ kind = [n \in AllNodes |-> IF n = Doc THEN "document" ELSE "free"]
      /\ value = [n \in Nodes |-> Null] /\ attributes = [n \in Nodes |-> <<>>]
      /\ links = [f \in {"parent", "firstChild", "lastChild", "prev", "next"} |->
                     [n \in AllNodes |-> Null]]
      /\ currentAllocs = [p \in Pools |-> 0] /\ nUntracked = [p \in Pools |-> 0]
      /\ dropped = [p \in Pools |-> 0] /\ errorID = FALSE /\ open = <<>> /\ pc = "idle"
    BY DEF XMLDocument
<1>3. PICK V \in SUBSET Nodes : V = {}
    OBVIOUS
<1>4. InUse(kind) = V
    BY <1>1, <1>2, <1>3 DEF InUse, AllNodes
<1>5. /\ links \in Links
      /\ \A n \in AllNodes : /\ links.parent[n] = Null /\ links.firstChild[n] = Null
                             /\ links.lastChild[n] = Null /\ links.prev[n] = Null
                             /\ links.next[n] = Null
    BY <1>2 DEF Links, Pointer
<1>6. Shape(links, V \cup {Doc})
    <2>1. FreeNull(links, V \cup {Doc}) /\ Unlinked(links)
        BY <1>1, <1>5 DEF FreeNull, Unlinked
    <2>2. \A n \in V \cup {Doc} : LinkedAt(links, V \cup {Doc}, n)
        BY <1>1, <1>3, <1>5 DEF LinkedAt
    <2>3. Grounded(links.parent) /\ Grounded(links.prev)
        BY <1>1, <1>5 DEF Grounded, AllNodes
    <2> QED BY <1>1, <1>3, <1>5, <2>1, <2>2, <2>3 DEF Shape
<1>7. attributes \in AttributeLists
    <2>1. <<>> \in Seq(Attribute)
        OBVIOUS
    <2> QED BY <1>2, <2>1 DEF AttributeLists
<1>8. Balanced(kind, attributes, links.parent, V, currentAllocs, nUntracked, dropped)
    <2>1. Cells(attributes, V) = {}
        BY <1>3 DEF Cells
    <2>2. \A p : OfPool(kind, V, p) = {} /\ OfPool(kind, Roots(links.parent, V), p) = {}
        BY <1>3 DEF OfPool, Roots
    <2>3. Cardinality({}) = 0
        BY FS_EmptySet
    <2>4. \A p \in Pools : currentAllocs[p] = 0 /\ nUntracked[p] = 0 /\ dropped[p] = 0
        BY <1>2
    <2>5. "attributePool" \in Pools
        BY DEF Pools
    <2> QED BY <2>1, <2>2, <2>3, <2>4, <2>5 DEF Balanced
<1>9. \A n \in Nodes : UniqueNames(attributes[n]) /\ attributes[n] = <<>>
    BY <1>2 DEF UniqueNames
<1>10. kind[Doc] = "document" /\ \A n \in Nodes : kind[n] # "document"
    BY <1>1, <1>2 DEF AllNodes
<1>11. /\ kind \in [AllNodes -> Leaves \cup {"element", "document", "free"}]
       /\ value \in [Nodes -> Values \cup {Null}]
       /\ currentAllocs \in Counters /\ nUntracked \in Counters /\ dropped \in [Pools -> Nat]
    BY <1>2 DEF Counters
<1>12. ObjectsOK
    BY <1>4, <1>6, <1>7, <1>8, <1>9, <1>10, <1>11 DEF ObjectsOK, Sound
<1>13. ParserOK
    <2>1. errorID \in BOOLEAN
        BY <1>2
    <2>2. open \in Seq(Nodes) /\ DOMAIN open = {} /\ open = <<>> /\ pc = "idle"
        BY <1>2
    <2> QED BY <2>1, <2>2 DEF ParserOK
<1> QED BY <1>12, <1>13 DEF IInv

(* Every step of the application and of the parser keeps the invariant. *)
LEMMA StepKeepsInvariant ==
    ASSUME IInv, [Next]_vars
    PROVE  IInv'
<1>1. CASE \E n \in Nodes, v \in Values :
              \/ NewElement(n, v) \/ SetValue(n, v) \/ ParseOpenTag(n, v)
              \/ \E k \in Leaves : NewLeaf(n, k, v)
              \/ \E a \in AttrNames : SetAttribute(n, a, v)
              \/ \E k \in Leaves \cup {"element"}, attr \in Attrs(v) : ParseLeaf(n, k, v, attr)
    <2>1. PICK n \in Nodes, v \in Values :
              \/ NewElement(n, v) \/ SetValue(n, v) \/ ParseOpenTag(n, v)
              \/ \E k \in Leaves : NewLeaf(n, k, v)
              \/ \E a \in AttrNames : SetAttribute(n, a, v)
              \/ \E k \in Leaves \cup {"element"}, attr \in Attrs(v) : ParseLeaf(n, k, v, attr)
        BY <1>1
    <2>2. CASE NewElement(n, v)
        <3>1. Idle /\ Construct(n, "element", v) /\ UNCHANGED <<attributes, dropped>>
            BY <2>2 DEF NewElement
        <3>2. "element" \in Leaves \cup {"element"}
            OBVIOUS
        <3> QED BY <3>1, <3>2, ConstructNode, IdleParser DEF IInv
    <2>3. CASE SetValue(n, v)
        <3>1. Idle
            BY <2>3 DEF SetValue
        <3> QED BY <2>3, <3>1, SetValueKeeps, IdleParser DEF IInv
    <2>4. CASE ParseOpenTag(n, v)
        BY <2>4, ParseOpenTagKeeps
    <2>5. CASE \E k \in Leaves : NewLeaf(n, k, v)
        <3>1. PICK k \in Leaves \cup {"element"} : NewLeaf(n, k, v)
            BY <2>5
        <3>2. Idle /\ Construct(n, k, v) /\ UNCHANGED <<attributes, dropped>>
            BY <3>1 DEF NewLeaf
        <3> QED BY <3>2, ConstructNode, IdleParser DEF IInv
    <2>6. CASE \E a \in AttrNames : SetAttribute(n, a, v)
        <3>1. PICK a \in AttrNames : SetAttribute(n, a, v)
            BY <2>6
        <3>2. Idle
            BY <3>1 DEF SetAttribute
        <3>3. ObjectsOK'
            BY <3>1, SetAttributeKeeps
        <3> QED BY <3>2, <3>3, IdleParser DEF IInv
    <2>7. CASE \E k \in Leaves \cup {"element"}, attr \in Attrs(v) : ParseLeaf(n, k, v, attr)
        BY <2>7, ParseLeafKeeps
    <2> QED BY <2>1, <2>2, <2>3, <2>4, <2>5, <2>6, <2>7
<1>2. CASE \E n \in Nodes :
              \/ DeleteChild(n) \/ SetCData(n)
              \/ \E a \in AttrNames : DeleteAttribute(n, a)
              \/ \E m \in Nodes : ShallowClone(n, m)
    <2>1. PICK n \in Nodes :
              \/ DeleteChild(n) \/ SetCData(n)
              \/ \E a \in AttrNames : DeleteAttribute(n, a)
              \/ \E m \in Nodes : ShallowClone(n, m)
        BY <1>2
    <2>2. CASE DeleteChild(n)
        <3>1. Idle
            BY <2>2 DEF DeleteChild
        <3> QED BY <2>2, <3>1, DeleteChildKeeps, IdleParser DEF IInv
    <2>3. CASE SetCData(n)
        <3>1. Idle
            BY <2>3 DEF SetCData
        <3> QED BY <2>3, <3>1, SetCDataKeeps, IdleParser DEF IInv
    <2>4. CASE \E a \in AttrNames : DeleteAttribute(n, a)
        <3>1. PICK a \in AttrNames : DeleteAttribute(n, a)
            BY <2>4
        <3>2. Idle
            BY <3>1 DEF DeleteAttribute
        <3> QED BY <3>1, <3>2, DeleteAttributeKeeps, IdleParser DEF IInv
    <2>5. CASE \E m \in Nodes : ShallowClone(n, m)
        <3>1. PICK m \in Nodes : ShallowClone(n, m)
            BY <2>5
        <3>2. Idle
            BY <3>1 DEF ShallowClone
        <3> QED BY <3>1, <3>2, CloneNode, IdleParser DEF IInv
    <2> QED BY <2>1, <2>2, <2>3, <2>4, <2>5
<1>3. CASE \E this \in AllNodes : RemoveChildren(this)
    BY <1>3, ClearsKeep
<1>4. CASE \E this \in AllNodes :
              \/ \E n \in Nodes : AddEndChild(this, n) \/ AddFirstChild(this, n)
              \/ \E m, n \in Nodes : AddAfterChild(this, m, n)
    <2>1. PICK this \in AllNodes, n \in Nodes :
              \/ AddEndChild(this, n) \/ AddFirstChild(this, n)
              \/ \E m \in Nodes : AddAfterChild(this, m, n)
        BY <1>4
    <2>2. Idle
        BY <2>1 DEF AddEndChild, AddFirstChild, AddAfterChild
    <2>3. ObjectsOK'
        BY <2>1, InsertsKeepObjects
    <2> QED BY <2>2, <2>3, IdleParser DEF IInv
<1>5. CASE \E k \in Leaves \cup {"element", Null} : ParseError(k)
    BY <1>5, ParseErrorKeeps
<1>6. CASE ClearDocument \/ Parse \/ DeleteDocument
    BY <1>6, ClearsKeep
<1>7. CASE ParseEndTag
    BY <1>7, ParseEndTagKeeps
<1>8. CASE ParseDone
    <2>1. ObjectsOK'
        BY <1>8 DEF IInv, ObjectsOK, ParseDone
    <2>2. ParserOK'
        BY <1>8 DEF IInv, ParserOK, ParseDone
    <2> QED BY <2>1, <2>2 DEF IInv
<1>9. CASE UNCHANGED vars
    <2>1. ObjectsOK'
        BY <1>9 DEF IInv, ObjectsOK, vars
    <2>2. ParserOK'
        BY <1>9 DEF IInv, ParserOK, vars
    <2> QED BY <2>1, <2>2 DEF IInv
<1> QED BY <1>1, <1>2, <1>3, <1>4, <1>5, <1>6, <1>7, <1>8, <1>9, Zenon DEF Next

(* IInv is an invariant of every document. *)
THEOREM DomInvariant == Spec => []IInv
<1>1. XMLDocument => IInv
    BY XMLDocumentSound
<1>2. IInv /\ [Next]_vars => IInv'
    BY StepKeepsInvariant
<1> QED BY <1>1, <1>2, PTL DEF Spec

(* The document is a tree and stays one, for every reader of it: whatever is *)
(* inserted, deleted, cloned and parsed, no pointer dangles, no node is in   *)
(* two places, the loops of the readers agree and no attribute is twice.     *)
THEOREM DomTreeIntact == Spec => []TreeIntact
BY DomInvariant, InvariantGivesTree, PTL

(* A node whose first child is null is the parent of none. *)
LEMMA NoFirstChild ==
    ASSUME NEW L, NEW V, Shape(L, V), NEW q \in AllNodes, L.firstChild[q] = Null,
           NEW n \in AllNodes, L.parent[n] = q
    PROVE  FALSE
<1>1. n \in DeleteChildren(L, q)
    BY SubtreeFacts
<1>2. PICK S \in SUBSET Nodes : S = {}
    OBVIOUS
<1>3. /\ L.firstChild[q] \in S \cup {Null}
      /\ \A m \in S : L.firstChild[m] \in S \cup {Null} /\ L.next[m] \in S \cup {Null}
    BY <1>2
<1>4. DeleteChildren(L, q) \subseteq S
    BY <1>3, SubtreeClosed
<1> QED BY <1>1, <1>2, <1>4

(* A document without children, whose unlinked nodes have none either, holds *)
(* unlinked nodes only: a chain of parents would have to end somewhere.      *)
LEMMA OnlyRootsLeft ==
    ASSUME NEW L, NEW V \in SUBSET Nodes, Shape(L, V \cup {Doc}), L.firstChild[Doc] = Null,
           \A n \in V : L.parent[n] = Null => L.firstChild[n] = Null
    PROVE  \A n \in V : L.parent[n] = Null
<1>1. PICK S \in SUBSET Nodes : S = {n \in V : L.parent[n] # Null}
    OBVIOUS
<1>2. SUFFICES ASSUME S # {} PROVE FALSE
    BY <1>1
<1>3. PICK n \in S : L.parent[n] \notin S
    BY <1>2 DEF Shape, Grounded
<1>4. n \in AllNodes /\ n \in V /\ L.parent[n] # Null
    BY <1>1 DEF AllNodes
<1>5. PICK q : q = L.parent[n]
    OBVIOUS
<1>6. q \in V \cup {Doc} /\ q \in AllNodes
    BY <1>4, <1>5, NeverToDoc DEF AllNodes
<1>7. L.firstChild[q] = Null
    BY <1>1, <1>3, <1>5, <1>6
<1> QED BY <1>4, <1>5, <1>6, <1>7, NoFirstChild

(* The assertions of the destructor, within their contract. *)
LEMMA InvariantGivesAssertion == IInv => AssertionWithinContract
<1> SUFFICES ASSUME IInv, \A p \in Pools : dropped[p] = 0,
                    \A n \in Live : links.parent[n] = Null =>
                        links.firstChild[n] = Null /\ attributes[n] = <<>>,
                    pc = "destroyed", NEW p \in Pools
             PROVE  currentAllocs[p] = nUntracked[p]
    BY Zenon DEF AssertionWithinContract, DestructorAssertion
<1>1. /\ Sound(kind, value, attributes, links, currentAllocs, nUntracked, dropped)
      /\ links.firstChild[Doc] = Null
    BY DEF IInv, ObjectsOK, ParserOK
<1>2. InUse(kind) = Live /\ Live \in SUBSET Nodes
    BY DEF InUse, Live
<1>3. /\ Shape(links, Live \cup {Doc}) /\ attributes \in AttributeLists
      /\ Balanced(kind, attributes, links.parent, Live, currentAllocs, nUntracked, dropped)
    BY <1>1, <1>2 DEF Sound
<1>4. \A n \in Live : links.parent[n] = Null
    BY <1>1, <1>2, <1>3, OnlyRootsLeft
<1>5. CASE p = "attributePool"
    <2>1. \A n \in Live : DOMAIN attributes[n] = {}
        BY <1>4
    <2>2. ASSUME NEW c \in Cells(attributes, Live) PROVE FALSE
        <3>1. PICK n \in Live : c \in {n} \X DOMAIN attributes[n]
            BY CellsMember
        <3> QED BY <2>1, <3>1
    <2>3. Cells(attributes, Live) = {}
        BY <2>2
    <2>4. currentAllocs[p] = 0 /\ nUntracked[p] = dropped[p]
        BY <1>3, <1>5, <2>3, FS_EmptySet DEF Balanced
    <2> QED BY <2>4
<1>6. CASE p # "attributePool"
    <2>1. Roots(links.parent, Live) = Live
        BY <1>4 DEF Roots
    <2>2. /\ currentAllocs[p] = Cardinality(OfPool(kind, Live, p))
          /\ nUntracked[p] = dropped[p] + Cardinality(OfPool(kind, Live, p))
        BY <1>3, <1>6, <2>1 DEF Balanced
    <2>3. Cardinality(OfPool(kind, Live, p)) \in Nat
        BY <1>2, OfPoolNat
    <2> QED BY <2>2, <2>3
<1> QED BY <1>5, <1>6

(* The counters of the pools account for every object: what is allocated is  *)
(* what exists, what is untracked was never linked, and the assertions of    *)
(* the destructor hold within their contract.                                *)
THEOREM DomPoolsAccounted == Spec => []PoolsAccounted
<1>1. IInv => PoolsAccounted
    BY InvariantFacts, InvariantGivesAssertion DEF PoolsAccounted
<1> QED BY <1>1, DomInvariant, PTL
=============================================================================
