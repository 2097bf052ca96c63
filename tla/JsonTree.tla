------------------------------ MODULE JsonTree ------------------------------
(***************************************************************************)
(* The nodes of cJSON.c as they lie in memory, with the calls that build,   *)
(* take apart, share, copy and delete trees of them, and the class Json of  *)
(* blmutil.h, whose objects hold trees made by the parser.                  *)
(*                                                                          *)
(* An application keeps to what cJSON.h asks of it: it adds, replaces and   *)
(* deletes only items it holds itself (roots), never puts an item below     *)
(* itself, and changes only containers that are not references.  It may     *)
(* read through any node it has seen.  `fault` is the undefined behaviour   *)
(* that ended the program.                                                  *)
(***************************************************************************)
EXTENDS Naturals, Sequences, FiniteSets, SequencesExt

CONSTANTS Nodes, JsonNames, Objects, NULL

VARIABLES heap,     \* cJSON nodes
          held,     \* roots the application must delete or hand on
          lost,     \* names overwritten without being freed
          json,     \* Json objects
          copied,   \* history: an owning Json was copied
          fault

treeVars == <<heap, held, lost>>
wrapVars == <<json, copied>>
jsonVars == <<heap, held, lost, json, copied, fault>>

\* struct cJSON; ref is the flag cJSON_IsReference.
NodeState == [st : {"none", "live", "freed"}, next : Nodes \cup {NULL}, prev : Nodes \cup {NULL},
              child : Nodes \cup {NULL}, ref : BOOLEAN, name : JsonNames \cup {NULL}]

cJSON_New_Item == [st |-> "live", next |-> NULL, prev |-> NULL, child |-> NULL, ref |-> FALSE, name |-> NULL]
Unused == [cJSON_New_Item EXCEPT !.st = "none"]

\* A Json object; isowned with json tells whether it deletes a tree.
NoJson == [alive |-> FALSE, isowned |-> FALSE, json |-> NULL]

TreeInit ==
    /\ heap = [n \in Nodes |-> Unused] /\ held = {} /\ lost = 0
    /\ json = [o \in Objects |-> NoJson] /\ copied = FALSE
    /\ fault = ""

Fresh == {n \in Nodes : heap[n].st = "none"}
Live(h) == {n \in Nodes : h[n].st = "live"}

Fault(what) == fault' = what /\ UNCHANGED <<treeVars, wrapVars>>

\* The list that starts at n, up to its end or to a node that was freed.
RECURSIVE Chain(_, _)
Chain(h, n) == IF n = NULL THEN <<>>
               ELSE IF h[n].st = "live" THEN <<n>> \o Chain(h, h[n].next) ELSE <<n>>

Items(h, a) == Chain(h, h[a].child)

\* A walk over the items of a meets no freed node.
Walkable(a) == \A k \in DOMAIN Items(heap, a) : heap[Items(heap, a)[k]].st = "live"

\* The nodes cJSON_Delete(n) frees besides n: its items, unless n is a
\* reference, and all that follow n in its list.
Below(h, n) == IF h[n].ref THEN {} ELSE ToSet(Items(h, n))

RECURSIVE Deleted(_, _)
Deleted(h, ns) ==
    LET more == UNION {Below(h, n) \cup ToSet(Chain(h, h[n].next)) : n \in {m \in ns : h[m].st = "live"}}
    IN  IF more \subseteq ns THEN ns ELSE Deleted(h, ns \cup more)

\* The heap after cJSON_Delete(n).
cJSON_Delete(h, n) ==
    [m \in Nodes |-> IF n # NULL /\ m \in Deleted(h, {n}) THEN [Unused EXCEPT !.st = "freed"] ELSE h[m]]

\* Deleting n frees a node a second time.
FreesTwice(h, n) == n # NULL /\ \E m \in Deleted(h, {n}) : h[m].st = "freed"

\* Root of the tree a node is in.
RECURSIVE RootOf(_, _)
RootOf(h, n) ==
    LET up == {p \in Live(h) : ~h[p].ref /\ n \in ToSet(Items(h, p))}
    IN  IF up = {} THEN n ELSE RootOf(h, CHOOSE p \in up : TRUE)

\* Containers the application may change, and the items it may add to them.
Containers == {a \in Live(heap) : ~heap[a].ref}
Addable(a) == {x \in held : RootOf(heap, a) # x}

-----------------------------------------------------------------------------
(* cJSON's calls                                                            *)

\* cJSON_Create...: one node.
Create(n) ==
    /\ n \in Fresh
    /\ heap' = [heap EXCEPT ![n] = cJSON_New_Item] /\ held' = held \cup {n}
    /\ UNCHANGED <<lost, wrapVars, fault>>

suffix_object(h, prev, item) == [h EXCEPT ![prev].next = item, ![item].prev = prev]

cJSON_AddItemToArray(h, a, x) ==
    IF h[a].child = NULL THEN [h EXCEPT ![a].child = x] ELSE suffix_object(h, Last(Items(h, a)), x)

AddItemToArray(a, x) ==
    /\ a \in Containers /\ x \in Addable(a)
    /\ heap' = cJSON_AddItemToArray(heap, a, x) /\ held' = held \ {x}
    /\ UNCHANGED <<lost, wrapVars, fault>>

\* The name an item had is freed first.
AddItemToObject(a, name, x) ==
    /\ a \in Containers /\ x \in Addable(a)
    /\ heap' = cJSON_AddItemToArray([heap EXCEPT ![x].name = name], a, x) /\ held' = held \ {x}
    /\ UNCHANGED <<lost, wrapVars, fault>>

\* A node that shares the item's list of items; in an object it has a name.
create_reference(h, r, x, name) ==
    [h EXCEPT ![r] = [cJSON_New_Item EXCEPT !.child = h[x].child, !.ref = TRUE, !.name = name]]

\* Only items of other trees are referred to.
AddItemReference(a, x, r, name) ==
    /\ a \in Containers /\ r \in Fresh /\ x \in Live(heap)
    /\ RootOf(heap, a) # RootOf(heap, x)
    /\ heap' = cJSON_AddItemToArray(create_reference(heap, r, x, name), a, r)
    /\ UNCHANGED <<held, lost, wrapVars, fault>>

\* Mutant: the head of the list is not moved on.
DetachedKeepsHead(h, a, c) ==
    LET p == h[c].prev n == h[c].next
        h1 == IF p = NULL THEN h ELSE [h EXCEPT ![p].next = n]
        h2 == IF n = NULL THEN h1 ELSE [h1 EXCEPT ![n].prev = p]
    IN  [h2 EXCEPT ![c].prev = NULL, ![c].next = NULL]

\* cJSON_DetachItemFromArray of item c of a.
Detached(h, a, c) ==
    LET p == h[c].prev n == h[c].next
        h1 == IF p = NULL THEN h ELSE [h EXCEPT ![p].next = n]
        h2 == IF n = NULL THEN h1 ELSE [h1 EXCEPT ![n].prev = p]
        h3 == IF h2[a].child = c THEN [h2 EXCEPT ![a].child = n] ELSE h2
    IN  [h3 EXCEPT ![c].prev = NULL, ![c].next = NULL]

\* The items that a call by position or by name can pick: by name the first
\* of that name.
Named(a, name) == SelectSeq(Items(heap, a), LAMBDA c : heap[c].name = name)
Pick(a) == ToSet(Items(heap, a)) \cup {Head(Named(a, name)) : name \in {m \in JsonNames : Named(a, m) # <<>>}}

DetachItem(a, c) ==
    /\ a \in Containers /\ c \in Pick(a)
    /\ heap' = Detached(heap, a, c) /\ held' = held \cup {c}
    /\ UNCHANGED <<lost, wrapVars, fault>>

DeleteItem(a, c) ==
    /\ a \in Containers /\ c \in Pick(a)
    /\ heap' = cJSON_Delete(Detached(heap, a, c), c)
    /\ UNCHANGED <<held, lost, wrapVars, fault>>

\* cJSON_ReplaceItemInArray of item c of a by x.
Replaced(h, a, c, x) ==
    LET h1 == [h EXCEPT ![x].next = h[c].next, ![x].prev = h[c].prev]
        h2 == IF h1[x].next = NULL THEN h1 ELSE [h1 EXCEPT ![h1[x].next].prev = x]
        h3 == IF h2[a].child = c THEN [h2 EXCEPT ![a].child = x] ELSE [h2 EXCEPT ![h2[x].prev].next = x]
    IN  cJSON_Delete([h3 EXCEPT ![c].next = NULL, ![c].prev = NULL], c)

\* By position the new item keeps its name; by name its old name is lost.
ReplaceItem(a, c, x, name) ==
    /\ a \in Containers /\ x \in Addable(a)
    /\ IF name = NULL THEN c \in ToSet(Items(heap, a))
       ELSE Named(a, name) # <<>> /\ c = Head(Named(a, name))
    /\ heap' = Replaced(IF name = NULL THEN heap ELSE [heap EXCEPT ![x].name = name], a, c, x)
    /\ held' = held \ {x}
    /\ lost' = IF name # NULL /\ heap[x].name # NULL THEN 1 ELSE lost
    /\ UNCHANGED <<wrapVars, fault>>

\* A root and all below it.
Delete(n) ==
    /\ n \in held
    /\ IF FreesTwice(heap, n) THEN Fault("double free")
       ELSE /\ heap' = cJSON_Delete(heap, n) /\ held' = held \ {n}
            /\ UNCHANGED <<lost, wrapVars, fault>>

\* cJSON_Duplicate(x, recurse) of a node whose items have no items of their
\* own: ns are the new nodes, the copy first.  A reference is copied to a
\* tree of its own.
DuplicateOf(h, x, ns) ==
    LET kids == IF Len(ns) = 1 THEN <<>> ELSE Items(h, x)
        at(k) == ns[k + 1]
    IN  [m \in Nodes |->
          IF m = ns[1] THEN [cJSON_New_Item EXCEPT !.name = h[x].name,
                                                   !.child = IF kids = <<>> THEN NULL ELSE at(1)]
          ELSE IF \E k \in 1..Len(kids) : m = at(k)
          THEN LET k == CHOOSE k \in 1..Len(kids) : m = at(k)
               IN  [cJSON_New_Item EXCEPT !.name = h[kids[k]].name,
                                          !.prev = IF k = 1 THEN NULL ELSE at(k - 1),
                                          !.next = IF k = Len(kids) THEN NULL ELSE at(k + 1)]
          ELSE h[m]]

Duplicate(x, ns) ==
    /\ x \in Live(heap) /\ ToSet(ns) \subseteq Fresh /\ IsInjective(ns)
    /\ Walkable(x)
    /\ \/ Len(ns) = 1
       \/ /\ Len(ns) = 1 + Len(Items(heap, x))
          /\ \A k \in DOMAIN Items(heap, x) : heap[Items(heap, x)[k]].child = NULL
    /\ heap' = DuplicateOf(heap, x, ns) /\ held' = held \cup {ns[1]}
    /\ UNCHANGED <<lost, wrapVars, fault>>

\* cJSON_GetArraySize, cJSON_GetArrayItem, cJSON_GetObjectItem and the
\* printer walk the list of a, which may be a reference.
Read(a) ==
    /\ a \in Live(heap) /\ ~Walkable(a)
    /\ Fault("use after free")

TreeCalls ==
    \/ \E n \in Nodes : Create(n) \/ Delete(n) \/ Read(n)
    \/ \E a, x \in Nodes :
          \/ AddItemToArray(a, x)
          \/ \E name \in JsonNames : AddItemToObject(a, name, x)
          \/ \E r \in Nodes, name \in JsonNames \cup {NULL} : AddItemReference(a, x, r, name)
          \/ DetachItem(a, x)
          \/ DeleteItem(a, x)
          \/ \E c \in Nodes, name \in JsonNames \cup {NULL} : ReplaceItem(a, c, x, name)
    \/ \E x \in Nodes, ns \in SeqOf(Nodes, 3) \ {<<>>} : Duplicate(x, ns)

-----------------------------------------------------------------------------
(* class Json                                                               *)

NewJson(o) ==
    /\ ~json[o].alive
    /\ json' = [json EXCEPT ![o] = [NoJson EXCEPT !.alive = TRUE]]
    /\ UNCHANGED <<treeVars, copied, fault>>

\* What parse() and ~Json free.
Owns(o) == json[o].isowned /\ json[o].json # NULL

AfterDelete(o) == IF Owns(o) THEN cJSON_Delete(heap, json[o].json) ELSE heap

\* parse(): the old tree goes first; ns are the nodes of the new one, a root
\* and at most one item, none when the text is refused.
ParseJson(o, ns) ==
    /\ json[o].alive /\ ToSet(ns) \subseteq Fresh /\ IsInjective(ns)
    /\ IF Owns(o) /\ FreesTwice(heap, json[o].json) THEN Fault("double free")
       ELSE /\ heap' = [m \in Nodes |->
                   IF ns # <<>> /\ m = ns[1] THEN [cJSON_New_Item EXCEPT !.child = IF Len(ns) = 2 THEN ns[2] ELSE NULL]
                   ELSE IF Len(ns) = 2 /\ m = ns[2] THEN cJSON_New_Item
                   ELSE AfterDelete(o)[m]]
            /\ json' = [json EXCEPT ![o].json = IF ns = <<>> THEN NULL ELSE ns[1], ![o].isowned = TRUE]
            /\ UNCHANGED <<held, lost, copied, fault>>

\* The state of the node a Json is about to read.
Pointee(o) == IF json[o].json = NULL THEN "null" ELSE heap[json[o].json].st

\* get(): another Json on an item of this one, or on nothing.
GetJson(o, p, member) ==
    /\ json[o].alive /\ ~json[p].alive
    /\ CASE Pointee(o) = "null" -> Fault("null")
         [] Pointee(o) = "freed" -> Fault("use after free")
         [] OTHER ->
              /\ member \in ToSet(Items(heap, json[o].json)) \cup {NULL}
              /\ json' = [json EXCEPT ![p] = [alive |-> TRUE, isowned |-> FALSE, json |-> member]]
              /\ UNCHANGED <<treeVars, copied, fault>>

\* getName(), getInt(), isNumber(), getSize() and the like.
ReadJson(o) ==
    /\ json[o].alive /\ Pointee(o) # "live"
    /\ Fault(IF Pointee(o) = "null" THEN "null" ELSE "use after free")

\* The compiler's copy constructor.
CopyJson(o, p) ==
    /\ json[o].alive /\ ~json[p].alive
    /\ json' = [json EXCEPT ![p] = json[o]]
    /\ copied' = (copied \/ Owns(o))
    /\ UNCHANGED <<treeVars, fault>>

DestroyJson(o) ==
    /\ json[o].alive
    /\ IF Owns(o) /\ FreesTwice(heap, json[o].json) THEN Fault("double free")
       ELSE /\ heap' = AfterDelete(o)
            /\ json' = [json EXCEPT ![o] = NoJson]
            /\ UNCHANGED <<held, lost, copied, fault>>

WrapperCalls ==
    \E o \in Objects :
       \/ NewJson(o)
       \/ \E ns \in SeqOf(Nodes, 2) : ParseJson(o, ns)
       \/ \E p \in Objects, m \in Nodes \cup {NULL} : GetJson(o, p, m)
       \/ ReadJson(o)
       \/ \E p \in Objects : CopyJson(o, p)
       \/ DestroyJson(o)

-----------------------------------------------------------------------------
(* Properties                                                               *)

TypeOKTree ==
    /\ heap \in [Nodes -> NodeState] /\ held \subseteq Live(heap) /\ lost \in {0, 1}
    /\ json \in [Objects -> [alive : BOOLEAN, isowned : BOOLEAN, json : Nodes \cup {NULL}]]
    /\ fault \in {"", "null", "use after free", "double free"}

\* The items of every container are linked both ways, from a first one
\* without prev to a last one without next, and no link leads to a freed
\* node; only a reference may point to one.
ItemsLinked ==
    \A a \in Live(heap) : ~heap[a].ref =>
        LET items == Items(heap, a)
        IN  \A k \in DOMAIN items :
              /\ heap[items[k]].st = "live"
              /\ heap[items[k]].prev = IF k = 1 THEN NULL ELSE items[k - 1]

\* Every live node is either a root someone must delete or an item of exactly
\* one container, so that deleting the roots frees each node once.
OwnedOnce ==
    \A n \in Live(heap) :
        LET in == {a \in Live(heap) : ~heap[a].ref /\ n \in ToSet(Items(heap, a))}
            root == n \in held \/ \E o \in Objects : Owns(o) /\ json[o].json = n
        IN  IF root THEN in = {} ELSE Cardinality(in) = 1

\* In the calls of cJSON.h memory is misused only through a reference whose
\* original was deleted or lost its first item since.
OnlyReferencesDangle ==
    fault # "" /\ (\A o \in Objects : ~json[o].alive) =>
        fault = "use after free" /\ \E r \in Live(heap) : heap[r].ref /\ ~Walkable(r)

\* An owning Json has a live tree, and no other Json owns it, unless the
\* copy constructor made a second owner of the same tree.
JsonOwnsTree ==
    \A o, p \in Objects : Owns(o) /\ ~copied =>
        /\ heap[json[o].json].st = "live"
        /\ Owns(p) /\ json[p].json = json[o].json => o = p

=============================================================================
