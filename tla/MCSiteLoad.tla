----------------------------- MODULE MCSiteLoad -----------------------------
(***************************************************************************)
(* Every well-formed feed of few nodes.                                    *)
(***************************************************************************)
EXTENDS SiteLoad

\* Parents of n nodes in document order.
Parents(n) ==
    LET Path(p) == [m \in 1..n |-> LET a[i \in 0..n] == IF i = 0 THEN {0} ELSE {i} \cup a[p[i]] IN a[m]]
    IN  {p \in [1..n -> 0..n - 1] :
           /\ \A m \in 1..n : p[m] < m
           /\ \A m \in 2..n : p[m] \in Path(p)[m - 1]}

Kinds(n, p) ==
    {k \in [1..n -> Kind] : \A m \in 1..n :
        /\ p[m] # 0 => k[p[m]] # "text"
        /\ k[m] = "association" => p[m] # 0 /\ k[p[m]] = "item"}

\* An association holds no number, that of no node, or that of an item.
Numbers(n, k) ==
    {l \in [1..n -> {0, n + 1} \cup {m \in 1..n : k[m] = "item"}] :
       \A m \in 1..n : k[m] # "association" => l[m] = 0}

Tagged(n, k) == {m \in 1..n : k[m] # "text"}

\* All elements have an id attribute, or items only.
FeedsOf(n, Marked(_)) ==
    UNION {UNION {UNION {
       [kind : {k}, parent : {p}, link : {l},
        withId : {Tagged(n, k), {m \in 1..n : k[m] = "item"}},
        staging : Marked(Tagged(n, k)), stagingMode : BOOLEAN]
       : l \in Numbers(n, k)} : k \in Kinds(n, p)} : p \in Parents(n)}

Unmarked(S) == {{}}
OneMarked(S) == {{m} : m \in S}

\* Staging elements in feeds of four nodes, and none in those of five, of which
\* at least two are associations.
SomeFeeds ==
    FeedsOf(4, OneMarked)
    \cup {f \in FeedsOf(5, Unmarked) : ~f.stagingMode /\ Cardinality(Associations(f)) >= 2}
=============================================================================
