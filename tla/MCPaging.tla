------------------------------ MODULE MCPaging ------------------------------
(* Options from below zero to beyond the results, in ints of few bits. *)
EXTENDS Paging

\* With a page of 20 results, page 3 starts beyond an IntMax of 31, as
\* page 23 of the default 99999999 does in 32.
PageOptions ==
    [skip : {-1, 0, 1, 4}, groups : {0}, paginate : {-2, 0, 1, 2, 20}, page : {-1, 0, 1, 2, 3},
     sortType : {"None", "Reverse"}, filter : BOOLEAN, sortFields : {<<>>}]

GroupOptions ==
    [skip : {-1, 0, 1, 9}, groups : {-1, 1, 2, 3, 4}, paginate : {1}, page : -1..5,
     sortType : {"None", "Reverse"}, filter : BOOLEAN, sortFields : {<<>>}]

\* By a text, by ids, and by a count and then a text.
Asc(f) == [field |-> f, direction |-> "Asc"]
Desc(f) == [field |-> f, direction |-> "Desc"]
SortOptions ==
    [skip : {0, 1}, groups : {0}, paginate : {2}, page : {1}, sortType : {"Specific"}, filter : {FALSE},
     sortFields : {<<Asc("data")>>, <<Desc("data")>>, <<Asc("id")>>, <<Desc("id")>>, <<Desc("count"), Asc("data")>>}]

ShuffleOptions ==
    [skip : {0}, groups : {0}, paginate : {2}, page : {1, 2}, sortType : {"Shuffle"}, filter : BOOLEAN,
     sortFields : {<<>>}]

SomeOptions == PageOptions \cup GroupOptions \cup SortOptions \cup ShuffleOptions

Plainly(m, c) == [match |-> m, ctxt |-> c, id |-> 0, data |-> <<>>, count |-> 0]
AnyList == UNION {[1..n -> {Plainly(m, c) : m, c \in BOOLEAN}] : n \in 0..3}
LongList == {[i \in 1..n |-> Plainly(TRUE, TRUE)] : n \in {5, 7, 8}}

\* With EPS a fifth, 1.9 is the same number as 2 and 2 the same as 2.1.
a == 97
b == 98
Digit(n) == 48 + n
Texts ==
    << <<>>,                                          \* ""
       <<Digit(2)>>,                                  \* "2"
       <<Digit(0), Digit(2)>>,                        \* "02"
       <<Digit(1), Digit(0)>>,                        \* "10"
       <<Digit(1), Dot, Digit(5)>>,                   \* "1.5"
       <<Digit(1), Dot, Digit(1), Digit(0)>>,         \* "1.10"
       <<Digit(1), Dot, Digit(9)>>,                   \* "1.9"
       <<Digit(2), Dot, Digit(1)>>,                   \* "2.1"
       <<Digit(1), Dot>>,                             \* "1."
       <<Digit(1), Dot, Digit(5), Dot, Digit(2)>>,    \* "1.5.2"
       <<b>>,                                         \* "b"
       <<b, Digit(2)>>,                               \* "b2"
       <<b, Digit(1), Digit(0)>>,                     \* "b10"
       <<a, Digit(1), Digit(0), Dot>> >>              \* "a10."

\* Three members of a sequence of nodes, in one order: they are going to be sorted.
Ascending(s) == {<<s[t[1]], s[t[2]], s[t[3]]>> :
                   t \in {u \in [1..3 -> DOMAIN s] : u[1] <= u[2] /\ u[2] <= u[3]}}
Sortable(i, s, c) == [match |-> TRUE, ctxt |-> TRUE, id |-> i, data |-> s, count |-> c]

\* Lists that differ in what they are sorted by.
SortLists(o) ==
    CASE o.sortFields[1].field = "data" -> Ascending([i \in DOMAIN Texts |-> Sortable(0, Texts[i], 0)])
      [] o.sortFields[1].field = "id" -> Ascending([i \in 1..3 |-> Sortable(i, <<>>, 0)])
      [] OTHER -> Ascending([i \in 1..6 |-> Sortable(0, IF i > 3 THEN <<b>> ELSE <<b, Digit(2)>>, i % 3)])

\* Every short list, and longer ones for groups of several results.
SomeLists(o) ==
    IF o.sortType = "Specific" THEN SortLists(o)
    ELSE IF o.groups = 0 THEN AnyList ELSE AnyList \cup LongList
=============================================================================
