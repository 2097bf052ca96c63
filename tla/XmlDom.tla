------------------------------- MODULE XmlDom -------------------------------
(* The document object model of tinyxml2: nodes allocated from the pools of  *)
(* one XMLDocument, linked into a tree by parent, child and sibling          *)
(* pointers, built through the New/Insert/Delete calls or by ParseDeep,      *)
(* which here works on the events the text produces (XmlText models the      *)
(* text).  A call that the documentation excludes is not made: a node is     *)
(* inserted once, into an element or the document, never below itself.       *)
EXTENDS Integers, Sequences, SequencesExt, FiniteSets

CONSTANTS
    Nodes,             \* addresses the pools hand out
    Doc,               \* the XMLDocument itself
    Null,
    Values,            \* names of elements, contents of the other nodes
    AttrNames,
    Leaves,            \* classes of the nodes without children
    MaxDropped         \* bound: nodes destroyed that were never linked

ASSUME DomAssumption ==
    /\ IsFiniteSet(Nodes)
    /\ Doc \notin Nodes
    /\ Null \notin Nodes \cup {Doc}
    /\ Leaves \subseteq {"text", "cdata", "comment", "declaration", "unknown"}
    /\ "text" \in Leaves <=> "cdata" \in Leaves    \* one class, XMLText, with a flag
    /\ MaxDropped \in Nat

Pools == {"elementPool", "attributePool", "textPool", "commentPool"}

VARIABLES
    kind,              \* the class of the object at an address, or "free"
    value,             \* _value
    attributes,        \* the list from _rootAttribute, as a sequence
    links,             \* the pointers of every node
    currentAllocs, nUntracked,  \* the counters of the four pools
    dropped,           \* history: objects destroyed without SetTracked
    errorID,           \* TRUE when the document holds an error
    open,              \* ParseDeep: the elements whose end tag is not read yet
    pc                 \* "idle", "parsing", "destroyed"

vars == <<kind, value, attributes, links, currentAllocs, nUntracked,
          dropped, errorID, open, pc>>

AllNodes == Nodes \cup {Doc}
Live == {n \in Nodes : kind[n] # "free"}
Pointer == AllNodes \cup {Null}
Links == [{"parent", "firstChild", "lastChild", "prev", "next"} -> [AllNodes -> Pointer]]

(* The constructor of XMLNode sets every pointer to null; so do the memory   *)
(* cells given back to a pool here, whose contents nobody reads.             *)
XMLNode(L, D) ==
    [f \in DOMAIN L |-> [n \in AllNodes |-> IF n \in D THEN Null ELSE L[f][n]]]

XMLDocument ==
    /\ kind = [n \in AllNodes |-> IF n = Doc THEN "document" ELSE "free"]
    /\ value = [n \in Nodes |-> Null]
    /\ attributes = [n \in Nodes |-> <<>>]
    /\ links = [f \in {"parent", "firstChild", "lastChild", "prev", "next"} |->
                   [n \in AllNodes |-> Null]]
    /\ currentAllocs = [p \in Pools |-> 0]
    /\ nUntracked = [p \in Pools |-> 0]
    /\ dropped = [p \in Pools |-> 0]
    /\ errorID = FALSE
    /\ open = <<>>
    /\ pc = "idle"

-----------------------------------------------------------------------------
(* The memory pools.  A pool is its two counters: Alloc adds one to both,    *)
(* Free and SetTracked take one from one of them.                            *)
Pool(k) ==
    CASE k = "element" -> "elementPool"
      [] k \in {"text", "cdata"} -> "textPool"
      [] OTHER -> "commentPool"

Alloc(k) ==
    /\ currentAllocs' = [currentAllocs EXCEPT ![Pool(k)] = @ + 1]
    /\ nUntracked' = [nUntracked EXCEPT ![Pool(k)] = @ + 1]

(* Mutant: a node that is linked stays untracked. *)
SetTrackedNever(count, k) == count

SetTracked(count, k) == [count EXCEPT ![Pool(k)] = @ - 1]

(* DELETE_NODE on every node of D and DELETE_ATTRIBUTE on their attributes.  *)
InPool(D, p) ==
    IF p = "attributePool"
    THEN Cardinality(UNION {{n} \X DOMAIN attributes[n] : n \in D})
    ELSE Cardinality({n \in D : Pool(kind[n]) = p})

Free(D) == [p \in Pools |-> currentAllocs[p] - InPool(D, p)]

-----------------------------------------------------------------------------
(* The pointer operations, on a value L of links.                            *)
Unlink(L, this, child) ==
    LET nx == L.next[child]
        pv == L.prev[child]
    IN  [L EXCEPT !.firstChild[this] = IF child = @ THEN nx ELSE @,
                  !.lastChild[this] = IF child = @ THEN pv ELSE @,
                  !.next = IF pv = Null THEN @ ELSE [@ EXCEPT ![pv] = nx],
                  !.prev = IF nx = Null THEN @ ELSE [@ EXCEPT ![nx] = pv],
                  !.parent[child] = Null]

InsertEndChild(L, this, addThis) ==
    LET last == L.lastChild[this]
    IN  [L EXCEPT !.firstChild[this] = IF last = Null THEN addThis ELSE @,
                  !.lastChild[this] = addThis,
                  !.next = IF last = Null THEN [@ EXCEPT ![addThis] = Null]
                           ELSE [@ EXCEPT ![last] = addThis, ![addThis] = Null],
                  !.prev[addThis] = last,
                  !.parent[addThis] = this]

InsertFirstChild(L, this, addThis) ==
    LET first == L.firstChild[this]
    IN  [L EXCEPT !.lastChild[this] = IF first = Null THEN addThis ELSE @,
                  !.firstChild[this] = addThis,
                  !.prev = IF first = Null THEN [@ EXCEPT ![addThis] = Null]
                           ELSE [@ EXCEPT ![first] = addThis, ![addThis] = Null],
                  !.next[addThis] = first,
                  !.parent[addThis] = this]

InsertAfterChild(L, this, afterThis, addThis) ==
    LET nx == L.next[afterThis]
    IN  IF nx = Null THEN InsertEndChild(L, this, addThis)
        ELSE [L EXCEPT !.prev[addThis] = afterThis,
                       !.next[addThis] = nx,
                       !.prev[nx] = addThis,
                       !.next[afterThis] = addThis,
                       !.parent[addThis] = this]

(* The nodes that a loop along the pointers `fields' meets, from start: the  *)
(* least set that holds start and what the pointers of its members lead to.  *)
Reached(L, fields, start) ==
    {n \in Nodes : \A S \in SUBSET Nodes :
        /\ start \in S \cup {Null}
        /\ \A f \in fields : \A m \in S : L[f][m] \in S \cup {Null}
        => n \in S}

(* What DeleteChildren destroys: everything its loop and the destructors it  *)
(* runs reach through _firstChild and _next.                                 *)
DeleteChildren(L, this) == Reached(L, {"firstChild", "next"}, L.firstChild[this])

(* DELETE_NODE: the destructor deletes the children, then leaves its parent. *)
DeleteNodeKeepLinks(L, node) == L   \* mutant: the destructor does not unlink

DeleteNode(L, node) ==
    IF L.parent[node] = Null THEN L ELSE Unlink(L, L.parent[node], node)

-----------------------------------------------------------------------------
(* Navigation: XMLNode's accessors, null-safe as in XMLHandle.  The element  *)
(* variants skip the nodes that are no elements or have another name.        *)
Handle(pointer, node) == IF node = Null THEN Null ELSE pointer[node]

ToElement(node) == IF node # Null /\ kind[node] = "element" THEN node ELSE Null

Matches(name, n) == ToElement(n) # Null /\ (name = Null \/ value[n] = name)

(* The loop of an accessor, along one pointer: the match it meets before the *)
(* others.                                                                   *)
FirstMatch(name, field, start) ==
    LET hits == {n \in Reached(links, {field}, start) : Matches(name, n)}
    IN  IF hits = {} THEN Null
        ELSE CHOOSE n \in hits : hits \subseteq Reached(links, {field}, n)

FirstChildElement(node, name) ==
    FirstMatch(name, "next", Handle(links.firstChild, node))
LastChildElement(node, name) ==
    FirstMatch(name, "prev", Handle(links.lastChild, node))
NextSiblingElement(node, name) ==
    FirstMatch(name, "next", Handle(links.next, node))
PreviousSiblingElement(node, name) ==
    FirstMatch(name, "prev", Handle(links.prev, node))

(* The place of the attribute in the list, 0 for null. *)
FindAttribute(node, name) ==
    LET hits == {i \in DOMAIN attributes[node] : attributes[node][i].name = name}
    IN  IF hits = {} THEN 0 ELSE CHOOSE i \in hits : \A j \in hits : i <= j

-----------------------------------------------------------------------------
(* The calls of the application.                                             *)
Idle == pc = "idle" /\ UNCHANGED <<open, pc, errorID>>

(* new (pool.Alloc()) X( doc ), with its value. *)
Construct(n, k, v) ==
    /\ kind[n] = "free"
    /\ Alloc(k)
    /\ kind' = [kind EXCEPT ![n] = k]
    /\ value' = [value EXCEPT ![n] = v]
    /\ links' = XMLNode(links, {n})

NewElement(n, v) == Idle /\ Construct(n, "element", v) /\ UNCHANGED <<attributes, dropped>>

(* NewText, NewComment, NewDeclaration and NewUnknown; a text becomes CDATA  *)
(* only by SetCData.                                                         *)
NewLeaf(n, k, v) ==
    /\ Idle
    /\ k # "cdata"
    /\ Construct(n, k, v)
    /\ UNCHANGED <<attributes, dropped>>

(* A clone is a new node with the same value, attributes and CDATA flag, not *)
(* linked anywhere.                                                          *)
ShallowClone(n, m) ==
    /\ Idle
    /\ n \in Live
    /\ kind[m] = "free"
    /\ currentAllocs' = [currentAllocs EXCEPT ![Pool(kind[n])] = @ + 1,
                                              !["attributePool"] = @ + Len(attributes[n])]
    /\ nUntracked' = [nUntracked EXCEPT ![Pool(kind[n])] = @ + 1]
    /\ kind' = [kind EXCEPT ![m] = kind[n]]
    /\ value' = [value EXCEPT ![m] = value[n]]
    /\ attributes' = [attributes EXCEPT ![m] = attributes[n]]
    /\ links' = XMLNode(links, {m})
    /\ UNCHANGED dropped

(* The contract of the insertions. *)
Insertable(this, addThis) ==
    /\ kind[this] \in {"element", "document"}
    /\ addThis \in Live
    /\ links.parent[addThis] = Null
    /\ this # addThis
    /\ this \notin DeleteChildren(links, addThis)

Insert(addThis) ==
    /\ nUntracked' = SetTracked(nUntracked, kind[addThis])
    /\ UNCHANGED <<kind, value, attributes, currentAllocs, dropped>>

AddEndChild(this, addThis) ==
    /\ Idle
    /\ Insertable(this, addThis)
    /\ links' = InsertEndChild(links, this, addThis)
    /\ Insert(addThis)

AddFirstChild(this, addThis) ==
    /\ Idle
    /\ Insertable(this, addThis)
    /\ links' = InsertFirstChild(links, this, addThis)
    /\ Insert(addThis)

(* With an afterThis of another parent the call returns null and does nothing. *)
AddAfterChild(this, afterThis, addThis) ==
    /\ Idle
    /\ Insertable(this, addThis)
    /\ links.parent[afterThis] = this
    /\ links' = InsertAfterChild(links, this, afterThis, addThis)
    /\ Insert(addThis)

Destroy(D, L) ==
    /\ links' = XMLNode(L, D)
    /\ kind' = [n \in AllNodes |-> IF n \in D THEN "free" ELSE kind[n]]
    /\ attributes' = [n \in Nodes |-> IF n \in D THEN <<>> ELSE attributes[n]]
    /\ value' = [n \in Nodes |-> IF n \in D THEN Null ELSE value[n]]
    /\ currentAllocs' = Free(D)

DestroyChildren(this) ==
    Destroy(DeleteChildren(links, this),
            [links EXCEPT !.firstChild[this] = Null, !.lastChild[this] = Null])

RemoveChildren(this) ==
    /\ Idle
    /\ kind[this] \in {"element", "document"}
    /\ links.firstChild[this] # Null
    /\ DestroyChildren(this)
    /\ UNCHANGED <<nUntracked, dropped>>

(* DeleteChild, and XMLDocument::DeleteNode which calls it on the parent.    *)
(* The node leaves the parent it has; DeleteChild also destroys a node that  *)
(* was never linked, whose pool then counts it as untracked for ever.        *)
DeleteChild(node) ==
    /\ Idle
    /\ node \in Live
    /\ Destroy(DeleteChildren(links, node) \cup {node}, DeleteNode(links, node))
    /\ dropped' = IF links.parent[node] # Null THEN dropped
                  ELSE [dropped EXCEPT ![Pool(kind[node])] = @ + 1]
    /\ dropped'[Pool(kind[node])] <= MaxDropped
    /\ UNCHANGED nUntracked

SetValue(n, v) ==
    /\ Idle
    /\ n \in Live
    /\ value' = [value EXCEPT ![n] = v]
    /\ UNCHANGED <<kind, attributes, links, currentAllocs, nUntracked, dropped>>

SetCData(n) ==
    /\ Idle
    /\ kind[n] \in {"text", "cdata"}
    /\ kind' = [kind EXCEPT ![n] = IF @ = "text" THEN "cdata" ELSE "text"]
    /\ UNCHANGED <<value, attributes, links, currentAllocs, nUntracked, dropped>>

(* FindOrCreateAttribute appends an attribute it does not find, tracked at once. *)
SetAttribute(n, name, v) ==
    /\ Idle
    /\ kind[n] = "element"
    /\ IF FindAttribute(n, name) = 0
       THEN /\ attributes' = [attributes EXCEPT ![n] = Append(@, [name |-> name, value |-> v])]
            /\ currentAllocs' = [currentAllocs EXCEPT !["attributePool"] = @ + 1]
       ELSE /\ attributes' = [attributes EXCEPT ![n][FindAttribute(n, name)].value = v]
            /\ UNCHANGED currentAllocs
    /\ UNCHANGED <<kind, value, links, nUntracked, dropped>>

DeleteAttribute(n, name) ==
    /\ Idle
    /\ kind[n] = "element"
    /\ FindAttribute(n, name) # 0
    /\ attributes' = [attributes EXCEPT ![n] = RemoveAt(@, FindAttribute(n, name))]
    /\ currentAllocs' = [currentAllocs EXCEPT !["attributePool"] = @ - 1]
    /\ UNCHANGED <<kind, value, links, nUntracked, dropped>>

-----------------------------------------------------------------------------
(* Parsing.  Clear, then ParseDeep: Identify makes a node, the node parses   *)
(* itself, and is linked when it is complete: a leaf or a sealed element at  *)
(* once, an open element when its end tag has been read.                     *)
Clear ==
    /\ pc = "idle"
    /\ DestroyChildren(Doc)
    /\ errorID' = FALSE
    /\ UNCHANGED <<nUntracked, dropped, open>>

ClearDocument == Clear /\ UNCHANGED pc

Parse == Clear /\ pc' = "parsing"

Parsing == pc = "parsing" /\ UNCHANGED <<dropped, errorID, pc>>

This == IF open = <<>> THEN Doc ELSE Last(open)

ParseOpenTag(n, v) ==
    /\ Parsing
    /\ Construct(n, "element", v)
    /\ open' = Append(open, n)
    /\ UNCHANGED attributes

(* A text, comment, declaration, unknown, or a sealed element with at most   *)
(* one attribute.                                                            *)
ParseLeaf(n, k, v, attr) ==
    /\ Parsing
    /\ kind[n] = "free"
    /\ k # "element" => attr = <<>>
    /\ kind' = [kind EXCEPT ![n] = k]
    /\ value' = [value EXCEPT ![n] = v]
    /\ attributes' = [attributes EXCEPT ![n] = attr]
    /\ links' = InsertEndChild(XMLNode(links, {n}), This, n)
    /\ currentAllocs' = [currentAllocs EXCEPT ![Pool(k)] = @ + 1,
                                              !["attributePool"] = @ + Len(attr)]
    /\ UNCHANGED <<nUntracked, open>>

(* An end tag: a closing element is made, tracked and deleted again, and the *)
(* open element it matches is linked into its parent.                        *)
ParseEndTag ==
    /\ Parsing
    /\ open # <<>>
    /\ LET node == Last(open)
       IN  /\ open' = Front(open)
           /\ links' = InsertEndChild(links, IF open' = <<>> THEN Doc ELSE Last(open'), node)
           /\ nUntracked' = SetTracked(nUntracked, kind[node])
    /\ UNCHANGED <<kind, value, attributes, currentAllocs>>

(* The end of the text, or an end tag that no element is open for. *)
ParseDone ==
    /\ pc = "parsing"
    /\ open = <<>>
    /\ pc' = "idle"
    /\ UNCHANGED <<kind, value, attributes, links, currentAllocs, nUntracked,
                   dropped, errorID, open>>

(* An error: the node being parsed, if there is one, and every open element  *)
(* with what it holds are deleted, none of them was tracked.  The nodes      *)
(* already linked into the document stay.                                    *)
ParseError(k) ==
    LET D == UNION {DeleteChildren(links, open[i]) \cup {open[i]} : i \in DOMAIN open}
        lost == [p \in Pools |-> (IF p = "elementPool" THEN Len(open) ELSE 0)
                               + (IF k # Null /\ p = Pool(k) THEN 1 ELSE 0)]
    IN  /\ pc = "parsing"
        /\ k = Null => open # <<>>
        /\ Destroy(D, links)
        /\ nUntracked' = [nUntracked EXCEPT ![IF k = Null THEN "elementPool" ELSE Pool(k)] =
                             IF k = Null THEN @ ELSE @ + 1]
        /\ dropped' = [p \in Pools |-> dropped[p] + lost[p]]
        /\ \A p \in Pools : dropped'[p] <= MaxDropped
        /\ errorID' = TRUE
        /\ open' = <<>>
        /\ pc' = "idle"

(* The destructor of the document. *)
DeleteDocument ==
    /\ pc = "idle"
    /\ pc' = "destroyed"
    /\ DestroyChildren(Doc)
    /\ UNCHANGED <<nUntracked, dropped, errorID, open>>

Attrs(v) == {<<>>} \cup {<<[name |-> a, value |-> v]>> : a \in AttrNames}

Next ==
    \/ \E n \in Nodes, v \in Values :
          \/ NewElement(n, v) \/ SetValue(n, v) \/ ParseOpenTag(n, v)
          \/ \E k \in Leaves : NewLeaf(n, k, v)
          \/ \E a \in AttrNames : SetAttribute(n, a, v)
          \/ \E k \in Leaves \cup {"element"}, attr \in Attrs(v) : ParseLeaf(n, k, v, attr)
    \/ \E n \in Nodes :
          \/ DeleteChild(n) \/ SetCData(n)
          \/ \E a \in AttrNames : DeleteAttribute(n, a)
          \/ \E m \in Nodes : ShallowClone(n, m)
    \/ \E this \in AllNodes :
          \/ RemoveChildren(this)
          \/ \E n \in Nodes : AddEndChild(this, n) \/ AddFirstChild(this, n)
          \/ \E m, n \in Nodes : AddAfterChild(this, m, n)
    \/ \E k \in Leaves \cup {"element", Null} : ParseError(k)
    \/ ClearDocument \/ Parse \/ ParseEndTag \/ ParseDone \/ DeleteDocument

Spec == XMLDocument /\ [][Next]_vars
-----------------------------------------------------------------------------
(* The type invariant. *)
TypeOK ==
    /\ kind \in [AllNodes -> Leaves \cup {"element", "document", "free"}]
    /\ value \in [Nodes -> Values \cup {Null}]
    /\ attributes \in [Nodes -> Seq([name : AttrNames, value : Values])]
    /\ links \in Links
    /\ currentAllocs \in [Pools -> Nat]
    /\ nUntracked \in [Pools -> Int]
    /\ dropped \in [Pools -> Nat]
    /\ errorID \in BOOLEAN
    /\ open \in Seq(Nodes)
    /\ pc \in {"idle", "parsing", "destroyed"}

(* The sibling list of every node is doubly linked, starts and ends where    *)
(* its parent says, and holds live nodes only: no sequence of insertions,    *)
(* deletions and parses leaves a pointer to a destroyed node behind.         *)
WellLinked ==
    \A p \in Live \cup {Doc} :
        LET L == links
        IN  /\ L.firstChild[p] = Null <=> L.lastChild[p] = Null
            /\ L.firstChild[p] # Null =>
                  L.parent[L.firstChild[p]] = p /\ L.prev[L.firstChild[p]] = Null
            /\ L.lastChild[p] # Null =>
                  L.parent[L.lastChild[p]] = p /\ L.next[L.lastChild[p]] = Null
            /\ L.next[p] # Null =>
                  L.prev[L.next[p]] = p /\ L.parent[L.next[p]] = L.parent[p]
            /\ L.prev[p] # Null =>
                  L.next[L.prev[p]] = p /\ L.parent[L.prev[p]] = L.parent[p]
            /\ L.parent[p] # Null /\ L.prev[p] = Null => L.firstChild[L.parent[p]] = p
            /\ L.parent[p] # Null /\ L.next[p] = Null => L.lastChild[L.parent[p]] = p
            /\ \A f \in DOMAIN L : L[f][p] \in Live \cup {Doc, Null}

(* The nodes whose chain of parents leads to p. *)
Below(L, p) ==
    {n \in Nodes : \A S \in SUBSET Nodes :
        (\A m \in Nodes : L.parent[m] \in S \cup {p} => m \in S) => n \in S}

(* Every node has exactly one place: a walk of the children of its parent    *)
(* meets it and never comes back to it, and the nodes that the destructor of *)
(* a subtree reaches are exactly those whose chain of parents leads to its   *)
(* root.                                                                     *)
IsTree ==
    \A p \in Live \cup {Doc} :
        /\ Below(links, p) = DeleteChildren(links, p)
        /\ p \notin DeleteChildren(links, p)
        /\ Reached(links, {"next"}, links.firstChild[p]) = {n \in Nodes : links.parent[n] = p}
        /\ p \notin Reached(links, {"next"}, links.next[p])

(* Loops over kids from first by Successor, and from last by Predecessor,    *)
(* visit each of them, in opposite orders.                                   *)
OppositeLoops(kids, first, last, Successor, Predecessor) ==
    /\ {first, last} \subseteq (IF kids = {} THEN {Null} ELSE kids)
    /\ \A n \in kids : /\ Predecessor[n] = Null <=> n = first
                      /\ Successor[n] = Null <=> n = last
                      /\ {Successor[n], Predecessor[n]} \subseteq kids \cup {Null}
    /\ \A m, n \in kids : Successor[m] = n <=> Predecessor[n] = m
    /\ \A S \in SUBSET kids :
          first \in S /\ (\A n \in S : Successor[n] \in S \cup {Null}) => S = kids

(* The loops the documentation recommends agree: over the child elements of  *)
(* a name, FirstChildElement and NextSiblingElement visit each one, in the   *)
(* reverse order of LastChildElement and PreviousSiblingElement.             *)
IterationsAgree ==
    \A p \in Live \cup {Doc}, name \in Values \cup {Null} :
        LET kids == {n \in Nodes : links.parent[n] = p /\ Matches(name, n)}
        IN  OppositeLoops(kids, FirstChildElement(p, name), LastChildElement(p, name),
                          [n \in kids |-> NextSiblingElement(n, name)],
                          [n \in kids |-> PreviousSiblingElement(n, name)])

(* "each with a unique name" (tinyxml2.h:986), and what a lookup by name     *)
(* finds is the attribute that was set.                                      *)
AttributesUnique ==
    \A n \in Live : \A i, j \in DOMAIN attributes[n] :
        attributes[n][i].name = attributes[n][j].name => i = j

(* The counters of a pool count what the document holds: an object is        *)
(* untracked from its allocation to its insertion, whatever the parser does  *)
(* in between, and an object destroyed before it was inserted stays counted. *)
PoolBalance ==
    \A p \in Pools :
        /\ currentAllocs[p] = InPool(Live, p)
        /\ nUntracked[p] = dropped[p] +
              (IF p = "attributePool" THEN 0
               ELSE Cardinality({n \in Live : links.parent[n] = Null /\ Pool(kind[n]) = p}))

(* What the destructor asserts of every pool (tinyxml2.cpp:1514-1517).       *)
DestructorAssertion ==
    pc = "destroyed" /\ ~errorID =>
        \A p \in Pools : currentAllocs[p] = nUntracked[p]

(* The assertion holds for an application that links every node it creates   *)
(* or leaves it without children and attributes, deletes linked nodes only,  *)
(* and whose parses succeed.                                                 *)
AssertionWithinContract ==
    /\ \A p \in Pools : dropped[p] = 0
    /\ \A n \in Live : links.parent[n] = Null =>
          links.firstChild[n] = Null /\ attributes[n] = <<>>
    => DestructorAssertion

(* The document is a tree and stays one, for every reader of it: no sequence *)
(* of insertions, deletions, clones, parses and failed parses leaves a       *)
(* dangling pointer, a node in two places or an attribute twice.             *)
TreeIntact == TypeOK /\ WellLinked /\ IsTree /\ IterationsAgree /\ AttributesUnique

(* The pools' counters account for every object, and the assertions of the   *)
(* destructor on them hold within their contract.                            *)
PoolsAccounted == PoolBalance /\ AssertionWithinContract
=============================================================================
