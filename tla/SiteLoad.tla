------------------------------ MODULE SiteLoad ------------------------------
(***************************************************************************)
(* The nodes of a feed and their contexts (site.cpp, context.cpp): the     *)
(* loading of a feed, the associations that make nodes share the children, *)
(* the properties and the context of other nodes, and the destructor that  *)
(* undoes the sharing before it frees everything.                          *)
(*                                                                         *)
(* Nodes are the content element, 0, and those of the feed, 1, 2, ... in   *)
(* document order.  The number an association holds is a text node of its  *)
(* own, and each association that is resolved adds one pointer node.  A    *)
(* context and a property list are named by the node they were made for.   *)
(* Text nodes in front of an element are nodes of the feed; design,        *)
(* structures and secret keys are left out.                                *)
(***************************************************************************)
EXTENDS Integers, FiniteSetsExt

CONSTANTS MaxSize,     \* bound: nodes of a feed
          Feeds

Null == -1
Kind == {"item", "association", "text"}
Node == 0..3 * MaxSize
Text(a) == MaxSize + a
Pointer(a) == 2 * MaxSize + a

\* A feed: the kind and the parent of every node, the number an association holds
\* (0: none), the elements that have an id attribute, which is their number, the
\* ones marked as staging, and whether it is loaded in staging mode.
Feed(n) ==
    [kind : [1..n -> Kind], parent : [1..n -> 0..n - 1], link : [1..n -> 0..n + 1],
     withId : SUBSET (1..n), staging : SUBSET (1..n), stagingMode : BOOLEAN]

Associations(f) == {a \in DOMAIN f.kind : f.kind[a] = "association"}

\* The numbers follow the document: what is between an element and a node in it is
\* in that element too.  An association is inside an item, and holds the id of none
\* but an item.
WellFormed(f) ==
    /\ \A n \in DOMAIN f.kind :
          /\ f.parent[n] < n /\ (f.parent[n] = 0 \/ f.kind[f.parent[n]] # "text")
          /\ \A m \in f.parent[n] + 1..n - 1 : f.parent[m] >= f.parent[n]
    /\ \A a \in Associations(f) :
          /\ f.parent[a] # 0 /\ f.kind[f.parent[a]] = "item"
          /\ f.link[a] \in DOMAIN f.kind => f.kind[f.link[a]] = "item"

ASSUME SiteLoadAssumption ==
    /\ MaxSize \in Nat
    /\ \A f \in Feeds : (\E n \in 0..MaxSize : f \in Feed(n)) /\ WellFormed(f)

VARIABLES doc,             \* the feed that is loaded
          phase,           \* "new", "linking", "loaded", "failed", "closed"
          children, next, last, parent,
          properties,      \* node -> the list it points to
          _private,        \* node -> the context it points to
          alloc,           \* the nodes, contexts and lists that are allocated
          nodes,           \* id -> node, as is permalinks
          associationsToInitialize,   \* those that wait; the lowest number is the first
          pointerNodes,    \* context -> the copies of its node
          nodesToClean, nodesToClean2,
          removed,         \* history: associations that were not found
          exposed,         \* history: one was removed from a list that was shared
          twice            \* history: something was freed twice

links == <<children, next, last, parent, properties, _private>>
loadVars == <<doc, phase, links, alloc, nodes, associationsToInitialize, pointerNodes,
              nodesToClean, nodesToClean2, removed, exposed, twice>>
-----------------------------------------------------------------------------
\* The nodes that can be reached from the nodes S along the pointers in fs.
Reach(S, fs) ==
    LET r[k \in 0..3 * MaxSize + 1] ==
           IF k = 0 THEN S \ {Null}
           ELSE LET R == r[k - 1] IN R \cup ((UNION {{f[x] : x \in R} : f \in fs}) \ {Null})
    IN  r[3 * MaxSize + 1]

\* The list of a node's children, and what xmlFreeNode frees.
Chain(x) == Reach({children[x]}, {next})
Tree(x) == {x} \cup Reach({children[x]}, {children, next})

LoadInit ==
    /\ doc \in Feeds
    /\ phase = "new"
    /\ children = [x \in Node |-> Null] /\ next = children /\ last = children
    /\ parent = children /\ properties = children /\ _private = children
    /\ alloc = [nodes |-> {}, contexts |-> {}, lists |-> {}]
    /\ nodes = [i \in 0..MaxSize |-> Null]
    /\ associationsToInitialize = {}
    /\ pointerNodes = [x \in Node |-> {}]
    /\ nodesToClean = {} /\ nodesToClean2 = {}
    /\ removed = {} /\ exposed = FALSE /\ twice = FALSE
-----------------------------------------------------------------------------
Ancestors ==
    LET a[n \in 0..MaxSize] == IF n \notin DOMAIN doc.kind THEN {} ELSE {doc.parent[n]} \cup a[doc.parent[n]]
    IN  a

\* populateAttrs: elements marked as staging are killed, unless the site is loaded
\* in staging mode.  The constructor does not go on below an association.
Killed ==
    IF doc.stagingMode THEN {} ELSE {n \in doc.staging : Ancestors[n] \cap Associations(doc) = {}}

\* The elements that get a Context.
Built ==
    {n \in DOMAIN doc.kind \ Killed :
       doc.kind[n] # "text" /\ Ancestors[n] \cap (Associations(doc) \cup Killed) = {}}

\* The nodes that are left when killed elements are unlinked and freed, with the
\* text nodes of the associations.
Left == {n \in DOMAIN doc.kind \ Killed : Ancestors[n] \cap Killed = {}}
Elements == {n \in Left : doc.kind[n] # "text"}
Texts == {Text(a) : a \in Associations(doc) \cap Left}

Kids(x) == {n \in Left : doc.parent[n] = x}
Siblings(x) == {n \in Kids(doc.parent[x]) : n > x}
Least(S) == IF S = {} THEN Null ELSE Min(S)

Id(n) == IF n \in doc.withId THEN n ELSE 0

\* A constructor registers its node when those of the children are done: a later
\* one replaces it.
After(m, n) == m \in Ancestors[n] \/ (n < m /\ n \notin Ancestors[m])
Registered(i) ==
    LET S == {n \in Built : Id(n) = i}
    IN  IF S = {} THEN Null ELSE CHOOSE m \in S : \A n \in S \ {m} : After(m, n)

\* The parsed document, and a Context for every element of it.
LoadContexts ==
    /\ phase = "new"
    /\ children' = [x \in Node |-> IF Text(x) \in Texts THEN Text(x) ELSE Least(Kids(x))]
    /\ next' = [x \in Node |-> IF x \in Texts THEN Least(Kids(x - MaxSize))
                               ELSE IF x \in Left THEN Least(Siblings(x)) ELSE Null]
    /\ last' = [x \in Node |-> IF Kids(x) # {} THEN Max(Kids(x))
                               ELSE IF Text(x) \in Texts THEN Text(x) ELSE Null]
    /\ parent' = [x \in Node |-> IF x \in Left THEN doc.parent[x] ELSE IF x \in Texts THEN x - MaxSize ELSE Null]
    /\ properties' = [x \in Node |-> IF x \in Elements THEN x ELSE Null]
    /\ _private' = [x \in Node |-> IF x \in Built THEN x ELSE Null]
    /\ alloc' = [nodes |-> {0} \cup Left \cup Texts, contexts |-> Built, lists |-> Elements]
    /\ nodes' = [i \in 0..MaxSize |-> Registered(i)]
    /\ associationsToInitialize' = Built \cap Associations(doc)
    /\ phase' = "linking"
    /\ UNCHANGED <<doc, pointerNodes, nodesToClean, nodesToClean2, removed, exposed, twice>>
-----------------------------------------------------------------------------
\* Freeing the nodes S, with the lists they point to, frees something again.
Again(S) == ~(S \subseteq alloc.nodes /\ {properties[x] : x \in S} \ {Null} \subseteq alloc.lists)

\* Mutant: the copies of the associated node keep the last child they had.
Copies_Stale(ctxt) == {}

\* update previously placed pointer nodes to include this stuff
Copies(ctxt) == pointerNodes'[ctxt]

\* Mutant: the association keeps its own context, which is deleted.
Shared_Own(a, T) == a

\* node->_private = associatedNode->_private
Shared(a, T) == _private[T]

\* Mutant: the pointer node has the children of the association.
Content_Own(a) == children[a]

\* pointerNode->children = node->parent->children
Content(a) == children[parent[a]]

\* initializeAssociation of a, which names the node T: a shares T's children,
\* properties and context, and a copy of a's parent becomes T's last child.
Resolve(a, T) ==
    LET P == parent[a]
        p == Pointer(a)
        old == Reach({next[Text(a)]}, {children, next})
        tail == {last[T]} \ {Null}
    IN  /\ next' = [x \in Node |-> IF x \in tail THEN p ELSE IF x = Text(a) THEN children[T] ELSE next[x]]
        /\ children' = [x \in Node |-> IF x = p THEN Content(a)
                                      ELSE IF x = T /\ tail = {} THEN p ELSE children[x]]
        /\ properties' = [properties EXCEPT ![a] = properties[T], ![p] = properties[P]]
        /\ _private' = [_private EXCEPT ![a] = Shared(a, T), ![p] = _private[P]]
        /\ parent' = [parent EXCEPT ![p] = T]
        /\ pointerNodes' = [pointerNodes EXCEPT ![_private[P]] = @ \cup {p}]
        /\ last' = [x \in Node |-> IF x \in {T} \cup Copies(_private[T]) THEN p
                                   ELSE IF x = a THEN last[T] ELSE IF x = p THEN last[P] ELSE last[x]]
        /\ alloc' = [nodes |-> (alloc.nodes \ old) \cup {p}, contexts |-> alloc.contexts \ {a},
                     lists |-> alloc.lists \ {properties[x] : x \in old \cup {a}}]
        /\ twice' = (twice \/ Again(old) \/ properties[a] \notin alloc.lists)
        /\ nodesToClean' = nodesToClean \cup {p}
        /\ nodesToClean2' = nodesToClean2 \cup {a}
        /\ UNCHANGED <<removed, exposed>>

\* The sibling in front of x.
Prev(x) == IF children[parent[x]] = x THEN Null
           ELSE CHOOSE y \in alloc.nodes : next[y] = x /\ parent[y] = parent[x]

\* The list of P's children is used by other nodes too.
IsShared(P) == pointerNodes[P] # {} \/ \E b \in nodesToClean2 : doc.link[b] = P

\* initializeAssociation of a, which names no node: a is unlinked and freed.
\* nodes and permalinks keep it.
Discard(a) ==
    LET P == parent[a]
        gone == Tree(a)
    IN  /\ children' = IF children[P] = a THEN [children EXCEPT ![P] = next[a]] ELSE children
        /\ last' = IF last[P] = a THEN [last EXCEPT ![P] = Prev(a)] ELSE last
        /\ next' = IF Prev(a) = Null THEN next ELSE [next EXCEPT ![Prev(a)] = next[a]]
        /\ alloc' = [nodes |-> alloc.nodes \ gone, contexts |-> alloc.contexts \ {a},
                     lists |-> alloc.lists \ {properties[x] : x \in gone}]
        /\ twice' = (twice \/ Again(gone))
        /\ removed' = removed \cup {a}
        /\ exposed' = (exposed \/ IsShared(P))
        /\ UNCHANGED <<parent, properties, _private, pointerNodes, nodesToClean, nodesToClean2>>

\* Query::find of the number that a holds.
Found(a) == IF doc.link[a] \in 1..MaxSize THEN nodes[doc.link[a]] ELSE Null

initializeAssociation ==
    /\ phase = "linking" /\ associationsToInitialize # {}
    /\ LET a == Min(associationsToInitialize)
       IN  IF Found(a) # Null THEN Resolve(a, Found(a)) ELSE Discard(a)
    /\ associationsToInitialize' = associationsToInitialize \ {Min(associationsToInitialize)}
    /\ UNCHANGED <<doc, phase, nodes>>

\* The rest of loadXmlDoc: the generation is there, or an exception leaves the
\* document and the contexts allocated, as the destructor does not run.
FinishLoading ==
    /\ phase = "linking" /\ associationsToInitialize = {}
    /\ phase' \in {"loaded", "failed"}
    /\ UNCHANGED <<doc, links, alloc, nodes, associationsToInitialize, pointerNodes,
                   nodesToClean, nodesToClean2, removed, exposed, twice>>
-----------------------------------------------------------------------------
\* Mutant: the destructor leaves the associations' children alone.
Cut_None == {}

\* The nodes whose next the destructor resets: (*it)->children->next = NULL.
Cut == {Text(a) : a \in nodesToClean2}

\* f takes two elements of S to one.
Collides(f, S) == \E x, y \in S : x # y /\ f[x] = f[y] /\ f[x] # Null

\* ~Site: the sharing is undone, freeContexts deletes the contexts that the nodes
\* below the content element point to, and xmlFreeDoc frees the nodes.
CloseSite ==
    LET Reset(f, S) == [x \in Node |-> IF x \in S THEN Null ELSE f[x]]
        both == nodesToClean \cup nodesToClean2
        c == Reset(children, nodesToClean)
        n == Reset(next, Cut)
        all == {0} \cup Reach({c[0]}, {c, n})
        ctxts == Reset(_private, both)
        props == Reset(properties, both)
        Image(f) == {f[x] : x \in all} \ {Null}
    IN  /\ phase = "loaded"
        /\ alloc' = [nodes |-> alloc.nodes \ all, contexts |-> alloc.contexts \ Image(ctxts),
                     lists |-> alloc.lists \ Image(props)]
        /\ twice' = \/ twice
                    \/ \E f \in {c, n, ctxts, props} : Collides(f, all)
                    \/ Image(c) \cap Image(n) # {}
                    \/ ~(all \subseteq alloc.nodes)
                    \/ ~(Image(ctxts) \subseteq alloc.contexts /\ Image(props) \subseteq alloc.lists)
        /\ phase' = "closed"
        /\ nodesToClean' = {} /\ nodesToClean2' = {}
        /\ nodes' = [i \in 0..MaxSize |-> Null]
        /\ UNCHANGED <<doc, links, associationsToInitialize, pointerNodes, removed, exposed>>

Terminated == phase \in {"failed", "closed"} /\ UNCHANGED loadVars

LoadNext == LoadContexts \/ initializeAssociation \/ FinishLoading \/ CloseSite \/ Terminated

LoadSpec == LoadInit /\ [][LoadNext]_loadVars
-----------------------------------------------------------------------------
NodeOrNull == Node \cup {Null}

LoadTypeOK ==
    /\ doc \in Feeds
    /\ phase \in {"new", "linking", "loaded", "failed", "closed"}
    /\ \A f \in {children, next, last, parent, properties, _private} : f \in [Node -> NodeOrNull]
    /\ nodes \in [0..MaxSize -> NodeOrNull]
    /\ associationsToInitialize \in SUBSET Node
    /\ pointerNodes \in [Node -> SUBSET Node]
    /\ {alloc.nodes, alloc.contexts, alloc.lists, nodesToClean, nodesToClean2, removed} \subseteq SUBSET Node
    /\ {exposed, twice} \subseteq BOOLEAN

\* Nothing that a query can reach in a loaded site points to something that was
\* freed, unless an association was removed from a list that other nodes had been
\* given before.  What Query::find and permalinks lead to is a node that exists,
\* with its context, unless it is an association that was removed.
NoDangling ==
    /\ \A i \in DOMAIN nodes :
          nodes[i] \notin removed \cup {Null} =>
             nodes[i] \in alloc.nodes /\ _private[nodes[i]] \in alloc.contexts
    /\ phase = "loaded" /\ ~exposed =>
          \A x \in Tree(0) :
             /\ x \in alloc.nodes
             /\ last[x] \in alloc.nodes \cup {Null}
             /\ _private[x] \in alloc.contexts \cup {Null}
             /\ properties[x] \in alloc.lists \cup {Null}

\* a was the first association to an item that had no child left: there was no list
\* to share, and it does not get the one that begins with its pointer node.
Blind(a) ==
    /\ Kids(doc.link[a]) \subseteq removed
    /\ \A b \in nodesToClean2 : doc.link[b] = doc.link[a] => a <= b

\* Both ends of an association see each other.  The association has the children of
\* its node, those that are linked later too, or none at all, and that exactly when
\* it was the first to a node without children (context.cpp:115, before :130).  The
\* node has a child with all the children of the association's parent.
BothWays ==
    phase = "loaded" /\ ~exposed =>
       \A a \in nodesToClean2 :
          LET T == Found(a) IN
          /\ Chain(a) = {Text(a)} \cup (IF Blind(a) THEN {} ELSE Chain(T))
          /\ Pointer(a) \in Chain(T)
          /\ Chain(Pointer(a)) = Chain(doc.parent[a])

\* The last child of an item, and of every copy of it, is the end of its list,
\* although the copies share the list and have an end of their own.
LastIsLast ==
    phase = "loaded" /\ ~exposed =>
       \A x \in {n \in Built : doc.kind[n] = "item"} \cup nodesToClean :
          Chain(x) # {} => last[x] \in Chain(x) /\ next[last[x]] = Null

\* A site that is closed has freed every node, every context and every property
\* list, and none of them twice, however the associations made them shared.
FreedOnce ==
    /\ ~twice
    /\ phase = "closed" => alloc.nodes = {} /\ alloc.contexts = {} /\ alloc.lists = {}
=============================================================================
