------------------------------- MODULE Paging -------------------------------
(***************************************************************************)
(* Response::query (response.cpp): which of a query's results a response   *)
(* returns, given the options skip, groups, paginate or limit, page,       *)
(* filter or unique, and order.  A response built under a parent response  *)
(* runs the query once for each context of the parent, with the same       *)
(* options.                                                                *)
(*                                                                         *)
(* A result is a node that may or may not match the filter, may or may not *)
(* have a Context, and has what contexts are sorted by: an id, a text and  *)
(* the size of a query.  The options are whatever atoi makes of a client's *)
(* text, so they are any int; ints go up to IntMax and wrap around.  The   *)
(* quotients are computed in float, exactly for results fewer than 2^24.   *)
(***************************************************************************)
EXTENDS NaturalOrder

CONSTANTS Options,     \* the options a response may be asked for with
          Lists(_),    \* the lists of nodes a query with some options may result in
          IntMax       \* INT_MAX

IntMin == -IntMax - 1
int == IntMin..IntMax

Node == [match : BOOLEAN, ctxt : BOOLEAN, id : Nat, data : Seq(48..57 \cup {Dot} \cup 97..122), count : Nat]

SortField == [field : {"id", "data", "count"}, direction : {"Asc", "Desc"}]

\* The options as the constructor leaves them.
Option ==
    [skip : int, groups : int, paginate : int, page : int,
     sortType : {"None", "Reverse", "Shuffle", "Specific"}, filter : BOOLEAN,
     sortFields : Seq(SortField)]

ASSUME PagingAssumption ==
    /\ IntMax \in Nat \ {0}
    /\ Options \subseteq Option
    /\ \A o \in Options : \A r \in Lists(o) :
          /\ r \in Seq(Node) /\ Len(r) <= IntMax
          /\ \A i \in DOMAIN r : Measured(r[i].data)

VARIABLES options, nodes,
          at, skip_, paginate_, page_, j, start, end,
          contexts,    \* numbers of the nodes whose contexts are returned
          ordered      \* history: all that match, in the order asked for

pagingVars == <<options, nodes, at, skip_, paginate_, page_, j, start, end, contexts, ordered>>

size == Len(nodes)

Wrap(x) == ((x - IntMin) % (2 * (IntMax + 1))) + IntMin

CeilDiv(a, b) == IF b > 0 THEN -((-a) \div b) ELSE -(a \div (-b))

\* (int)ceil((float)a / b): the conversion of an infinity, of not-a-number or of
\* a number that is no int is undefined, and gives one of these.
Quotient(a, b) ==
    IF b = 0 \/ CeilDiv(a, b) \notin int THEN {IntMin, 0, IntMax} ELSE {CeilDiv(a, b)}

AtLeast(x, low) == IF x < low THEN low ELSE x
AtMost(x, high) == IF x > high THEN high ELSE x
-----------------------------------------------------------------------------
\* The query is run; without a filter every node matches.
Results(o) == {r \in Lists(o) : o.filter \/ \A i \in DOMAIN r : r[i].match}

\* Mutant: the window of the previous query is not forgotten.
Enter_Again(o, r) ==
    /\ nodes' = r
    /\ UNCHANGED <<skip_, paginate_>>
    /\ page_' = IF o.groups # 0 THEN AtLeast(o.page, 1) ELSE o.page
    /\ j' = 0
    /\ at' = IF o.groups # 0 THEN "groups" ELSE "pages"

\* The start of query: the window is computed from copies of the options.
Enter(o, r) ==
    /\ nodes' = r
    /\ skip_' = o.skip
    /\ paginate_' = o.paginate
    /\ page_' = IF o.groups # 0 THEN AtLeast(o.page, 1) ELSE o.page
    /\ j' = 0
    /\ at' = IF o.groups # 0 THEN "groups" ELSE "pages"

PagingInit ==
    /\ options \in Options
    /\ nodes = <<>>
    /\ skip_ = options.skip /\ paginate_ = options.paginate /\ page_ = 0 /\ j = 0
    /\ start = 0 /\ end = 0
    /\ at = "done"
    /\ contexts = <<>> /\ ordered = <<>>

\* The constructor calls query for the next context of the parent, or for the
\* root of the site.
query ==
    /\ at = "done"
    /\ \E r \in Results(options) : Enter(options, r)
    /\ start' = 0 /\ end' = 0
    /\ contexts' = <<>> /\ ordered' = <<>>
    /\ UNCHANGED options

\* Mutant: the share of every group is computed from all the groups.
Share_OfAll(i) == options.groups

\* The groups that are left to share the results in turn i.
Share(i) == options.groups - i

\* One turn of the loop over the groups before the page and the page's own.
GroupLoop ==
    /\ at = "groups" /\ j < page_
    /\ skip_' = IF j > 0 THEN Wrap(skip_ + paginate_) ELSE skip_
    /\ \E q \in Quotient(Wrap(size - skip_'), Share(j)) : paginate_' = q
    /\ j' = j + 1
    /\ UNCHANGED <<options, nodes, at, page_, start, end, contexts, ordered>>

GroupLoopEnds ==
    /\ at = "groups" /\ j >= page_
    /\ at' = "window"
    /\ UNCHANGED <<options, nodes, skip_, paginate_, page_, j, start, end, contexts, ordered>>

LastPage == Quotient(Wrap(size - skip_), paginate_)

\* The page without groups; -1 is the last one.
PageStart ==
    /\ at = "pages"
    /\ \E q \in (IF page_ = -1 THEN LastPage ELSE {page_}) : page_' = AtLeast(q, 1)
    /\ skip_' = Wrap(skip_ + Wrap((page_' - 1) * paginate_))
    /\ at' = "window"
    /\ UNCHANGED <<options, nodes, paginate_, j, start, end, contexts, ordered>>

\* Mutant: a negative start is not corrected.
Window_NoFloor ==
    /\ at = "window"
    /\ paginate_' = AtLeast(paginate_, 1)
    /\ skip_' = skip_
    /\ start' = IF options.sortType = "None" THEN skip_' ELSE 0
    /\ end' = IF options.sortType = "None" THEN AtMost(Wrap(paginate_' + skip_'), size) ELSE size
    /\ at' = "collect"
    /\ UNCHANGED <<options, nodes, page_, j, contexts, ordered>>

\* The corrections, and the window when nothing is to be sorted.
Window ==
    /\ at = "window"
    /\ paginate_' = AtLeast(paginate_, 1)
    /\ skip_' = AtLeast(skip_, 0)
    /\ start' = IF options.sortType = "None" THEN skip_' ELSE 0
    /\ end' = IF options.sortType = "None" THEN AtMost(Wrap(paginate_' + skip_'), size) ELSE size
    /\ at' = "collect"
    /\ UNCHANGED <<options, nodes, page_, j, contexts, ordered>>

\* The members of a sequence that are in S.
Kept(s, S) ==
    LET k[i \in 0..Len(s)] ==
           IF i = 0 THEN <<>> ELSE IF s[i] \in S THEN Append(k[i - 1], s[i]) ELSE k[i - 1]
    IN  k[Len(s)]

\* from, from + 1, ..., to
UpTo(from, to) == [i \in 1..AtLeast(to - from + 1, 0) |-> from + i - 1]

\* The numbers of the nodes that match the filter, and of those with a context.
Match == {i \in 1..size : nodes[i].match}
WithContext == {i \in 1..size : nodes[i].ctxt}

\* Those that match.  The first start of them are passed over, and of the others
\* as many contexts are taken as there are numbers from start to end.
Matching == Kept(UpTo(1, size), Match)
Filtered ==
    LET rest == Kept(SubSeq(Matching, start + 1, Len(Matching)), WithContext)
    IN  SubSeq(rest, 1, AtMost(AtLeast(end - start, 0), Len(rest)))

Unfiltered == Kept(UpTo(start + 1, end), WithContext)

\* The loops over the results.
Collect ==
    /\ at = "collect"
    /\ contexts' = IF options.filter THEN Filtered ELSE Unfiltered
    /\ ordered' = Kept(UpTo(1, size), Match \cap WithContext)
    /\ at' = IF options.sortType = "None" THEN "done" ELSE "sort"
    /\ UNCHANGED <<options, nodes, skip_, paginate_, page_, j, start, end>>

\* By one field: positive if lhs is before rhs, 0 if the next field decides.
Compare(f, lhs, rhs) ==
    IF f.field = "id" THEN IF lhs.id < rhs.id THEN 1 ELSE -1
    ELSE IF f.field = "count" THEN rhs.count - lhs.count
    ELSE str_compare_nat(lhs.data, rhs.data)

\* The first field that decides, if any does: an id always does.
sortCallback(lhs, rhs) ==
    LET deciding == {i \in DOMAIN options.sortFields : Compare(options.sortFields[i], lhs, rhs) # 0}
        f == options.sortFields[Min(deciding)]
    IN  deciding # {} /\ (Compare(f, lhs, rhs) > 0) = (f.direction = "Asc")

\* What std::sort needs of a comparison of different elements; it compares none
\* with itself, which sortCallback says is before itself by a descending id.
StrictWeakOrder(elements, Less(_, _)) ==
    LET Equiv(a, b) == ~Less(a, b) /\ ~Less(b, a)
    IN  \A a \in elements : \A b \in elements \ {a} :
           /\ ~(Less(a, b) /\ Less(b, a))
           /\ \A c \in elements \ {a, b} : /\ Less(a, b) /\ Less(b, c) => Less(a, c)
                                          /\ Equiv(a, b) /\ Equiv(b, c) => Equiv(a, c)

Sooner(a, b) == sortCallback(nodes[a], nodes[b])

\* std::sort: elements that are equivalent end up in any order, and all of them
\* do when the comparison is no order.
Sorted(all, elements) ==
    IF StrictWeakOrder(elements, Sooner)
    THEN {s \in all : \A i, k \in DOMAIN s : i < k => ~Sooner(s[k], s[i])}
    ELSE all

\* reverse, random_shuffle, or sort by the fields of the order option.
Orders(c) ==
    LET all == {[i \in DOMAIN c |-> c[p[i]]] : p \in SetToSeqs(DOMAIN c)}
    IN  CASE options.sortType = "Reverse" -> {Reverse(c)}
          [] options.sortType = "Shuffle" -> all
          [] options.sortType = "Specific" -> Sorted(all, ToSet(c))

\* The order, and the window cut out of what is sorted.
Sort ==
    /\ at = "sort"
    /\ \E s \in Orders(contexts) :
          /\ ordered' = s
          /\ contexts' = LET rest == SubSeq(s, AtMost(skip_, Len(s)) + 1, Len(s))
                         IN  SubSeq(rest, 1, AtMost(paginate_, Len(rest)))
    /\ at' = "done"
    /\ UNCHANGED <<options, nodes, skip_, paginate_, page_, j, start, end>>

PagingNext == query \/ GroupLoop \/ GroupLoopEnds \/ PageStart \/ Window \/ Collect \/ Sort

PagingSpec == PagingInit /\ [][PagingNext]_pagingVars
-----------------------------------------------------------------------------
PagingTypeOK ==
    /\ options \in Options
    /\ nodes \in Seq(Node)
    /\ at \in {"groups", "pages", "window", "collect", "sort", "done"}
    /\ {skip_, paginate_, page_, start, end} \subseteq int
    /\ j \in Nat
    /\ contexts \in Seq(Nat) /\ ordered \in Seq(Nat)

\* Whatever the options, and whatever an overflow or an undefined conversion
\* made of them, the loop over the window reads nodes that exist.
ReadsInRange ==
    at = "collect" => 0 <= start /\ end <= size

\* The part of a sequence that starts after its first from elements.
Slice(s, from, count) == SubSeq(s, from + 1, AtMost(from + count, Len(s)))

\* Results that have contexts, a skip that makes sense, and no overflow.
Plain(last) ==
    /\ \A i \in 1..size : nodes[i].ctxt
    /\ options.skip >= 0 /\ options.skip + last <= IntMax

\* Page p of a paginated query is the p-th slice of the ordered and filtered
\* results behind the skipped ones: no result is on two pages, and none is on
\* no page.  The option limit is a first page.  The last page of an unfiltered
\* query (-1) holds the last result.
PageIsSlice ==
    LET p == options.page
        n == options.paginate
    IN  at = "done" /\ options.groups = 0 /\ n >= 1 =>
           /\ Plain(p * n) /\ p >= 1 => contexts = Slice(ordered, options.skip + (p - 1) * n, n)
           /\ Plain(size + n) /\ p = -1 /\ ~options.filter /\ options.skip < size =>
                 contexts # <<>> /\ Last(contexts) = Last(ordered) /\ Len(contexts) <= n

\* The i-th of g parts of n results: how many results are before it, and in it.
PartStart(i, n, g) == (i - 1) * (n \div g) + AtMost(i - 1, n % g)
PartSize(i, n, g) == (n \div g) + (IF i <= n % g THEN 1 ELSE 0)

\* The results behind the skipped ones.
Remaining == AtLeast(size - options.skip, 0)

\* Page p of a query by groups is the p-th of as many parts of the results, whose
\* lengths differ by one at most, the longer ones first.
GroupIsBalanced ==
    LET p == options.page
        g == options.groups
    IN  at = "done" /\ Plain(size + 1) /\ g >= 1 /\ 1 <= p /\ p <= g =>
           contexts = Slice(ordered, options.skip + PartStart(p, Remaining, g), PartSize(p, Remaining, g))

\* What holds along the way, of which the three properties above are consequences:
\* the results are as long as an int can say, and all match without a filter;
ResultsInv == size <= IntMax /\ (~options.filter => \A i \in 1..size : nodes[i].match)

\* before the first query there is nothing yet;
Unasked == at = "done" /\ nodes = <<>> /\ contexts = <<>> /\ ordered = <<>>

\* a page's window is known as soon as PageStart has been through;
PagesInv ==
    LET p == options.page
        n == options.paginate
    IN  options.groups = 0 =>
           /\ at # "groups" /\ (at = "pages" => skip_ = options.skip /\ paginate_ = n /\ page_ = p)
           /\ n >= 1 /\ at \in {"window", "collect", "sort", "done"} =>
                 /\ Plain(p * n) /\ p >= 1 => skip_ = options.skip + (p - 1) * n /\ paginate_ = n
                 /\ Plain(size + n) /\ p = -1 /\ options.skip < size =>
                       skip_ < size /\ size <= skip_ + n /\ paginate_ = n

\* the window of the i-th part, or, behind the end, one that stays there;
InPart(i) ==
    IF size <= options.skip
    THEN size <= skip_ /\ skip_ <= options.skip /\ size - skip_ <= paginate_ /\ paginate_ <= 0
    ELSE /\ skip_ = options.skip + PartStart(i, Remaining, options.groups)
         /\ paginate_ = PartSize(i, Remaining, options.groups)

\* the loop over the groups goes from one part to the next;
GroupsInv ==
    LET p == options.page
        g == options.groups
        first == options.skip + PartStart(p, Remaining, g)
    IN  Plain(size + 1) /\ g >= 1 /\ 1 <= p /\ p <= g =>
           /\ at # "pages"
           /\ at = "groups" => page_ = p /\ j <= p /\ IF j = 0 THEN skip_ = options.skip ELSE InPart(j)
           /\ at = "window" => InPart(p)
           /\ at \in {"collect", "sort", "done"} =>
                 \/ skip_ = first /\ paginate_ = PartSize(p, Remaining, g)
                 \/ size <= first /\ size <= skip_ /\ skip_ < IntMax /\ paginate_ = 1

\* and the contexts are the window's.
WindowInv ==
    /\ at \in {"collect", "sort", "done"} => skip_ >= 0 /\ paginate_ >= 1
    /\ at = "collect" =>
          IF options.sortType = "None" THEN start = skip_ /\ end = AtMost(Wrap(paginate_ + skip_), size)
                                       ELSE start = 0 /\ end = size
    /\ at \in {"sort", "done"} /\ Plain(0) => Len(ordered) <= size /\ (~options.filter => Len(ordered) = size)
    /\ at = "sort" => options.sortType # "None" /\ (Plain(0) => contexts = ordered)
    /\ at = "done" /\ Plain(0) /\ skip_ + paginate_ <= IntMax => contexts = Slice(ordered, skip_, paginate_)

PagingInv ==
    /\ PagingTypeOK /\ ResultsInv
    /\ Unasked \/ (PagesInv /\ GroupsInv /\ WindowInv)

\* Where the comparison is an order, no result is behind one that it is before.
InOrder(s) ==
    StrictWeakOrder(ToSet(s), Sooner) => \A i, k \in DOMAIN s : i < k => ~Sooner(s[k], s[i])

\* The same of the order: numbers of results are sorted, and end up in it.
OrderInv ==
    /\ \A i \in 1..size : Measured(nodes[i].data)
    /\ at = "sort" => contexts \in Seq(1..size)
    /\ at = "done" /\ options.sortType = "Specific" => ordered \in Seq(1..size) /\ InOrder(ordered)

\* The contexts that are sorted, which the sort compares with each other.
Compared == at = "sort" /\ options.sortType = "Specific"

FieldsUsed(direction) ==
    {options.sortFields[i].field : i \in {k \in DOMAIN options.sortFields : options.sortFields[k].direction = direction}}

\* The numbers of a text, in units.
NumbersOf(s) ==
    LET tokens == merge_floats(tokenize_string(s))
    IN  {lexical_cast(tokens[i]) : i \in {k \in DOMAIN tokens : IsNumber(tokens[k])}}

\* Two of these results have different numbers that count as the same.
CloseNumbers(elements) ==
    \E a, b \in elements :
       \E x \in NumbersOf(nodes[a].data), y \in NumbersOf(nodes[b].data) : x # y /\ Near(x, y)

\* sortCallback is the strict weak order that std::sort demands on whatever
\* contexts it is given, but for two reasons: ids in descending order where two
\* contexts have the same, and different numbers less than EPS apart.
ComparesConsistently ==
    LET elements == ToSet(contexts)
    IN  Compared =>
           \/ StrictWeakOrder(elements, Sooner)
           \/ /\ "id" \in FieldsUsed("Desc")
              /\ \E a, b \in elements : a # b /\ nodes[a].id = nodes[b].id
           \/ "data" \in FieldsUsed("Asc") \cup FieldsUsed("Desc") /\ CloseNumbers(elements)

\* A decimal number: digits, and perhaps a dot and more digits.
IsDecimal(s) ==
    /\ s # <<>> /\ isdigit(s[1]) /\ isdigit(Last(s))
    /\ \A i, k \in DOMAIN s : ~isdigit(s[i]) /\ ~isdigit(s[k]) => i = k /\ s[i] = Dot

\* Results sorted by a field that holds decimal numbers come in the order of
\* their values, 1.10 before 1.5 and 2 before 10, unless some are close.
NumbersByValue ==
    /\ at = "done" /\ options.sortType = "Specific" /\ ~CloseNumbers(ToSet(ordered))
    /\ Len(options.sortFields) = 1 /\ options.sortFields[1].field = "data"
    /\ \A i \in DOMAIN ordered : IsDecimal(nodes[ordered[i]].data)
    => LET Value(i) == lexical_cast(nodes[ordered[i]].data)
       IN  \A i, k \in DOMAIN ordered :
              i < k => IF options.sortFields[1].direction = "Asc" THEN Value(i) <= Value(k) ELSE Value(i) >= Value(k)
=============================================================================
