---------------------------- MODULE QueryProofs ----------------------------
(***************************************************************************)
(* What a site's query cache and Response::query promise, for every number *)
(* of requests, keys and Query objects, every size of the cache, and all   *)
(* the options and results that a query can have in ints of any size.      *)
(*                                                                         *)
(* The cache first (LRUCache.tla): what is left of the list when a key's   *)
(* entry is erased, and then that each operation keeps CacheInv.  Then the *)
(* requests (QueryCache.tla), whose steps use the cache through insert and *)
(* fetch.  Then the window of a response (Paging.tla): induction up to a   *)
(* number, with which Kept is unfolded; slices of sequences; int division  *)
(* and the parts of a query by groups; and that each step keeps PagingInv. *)
(*                                                                         *)
(* Then the order.  Sequences whose elements are in strict weak orders are *)
(* in one when they are compared element by element (LexOrder): so are     *)
(* texts by their characters, then texts by their tokens, of which those   *)
(* at the same place are of the same kind, and then results by the fields  *)
(* they are sorted by.  With what is known of the results and the sorted   *)
(* ones (OrderInv) that gives ComparesConsistently; and with the tokens of *)
(* a decimal number, NumbersByValue.                                       *)
(***************************************************************************)
EXTENDS QueryCache, Paging, SequenceTheorems, FiniteSetTheorems, WellFoundedInduction, TLAPS

\* A list of entries that could be the cache's, once k is out of it.
ListWithout(l, k) ==
    /\ l \in Seq(Entry)
    /\ \A i \in 1..Len(l) : l[i].key \in Cached \ {k} /\ _index[l[i].key] = l[i].data
    /\ \A i, h \in 1..Len(l) : l[i].key = l[h].key => i = h
    /\ \A i, h \in 1..Len(l) : i < h => <<l[i].key, l[h].key>> \in newer
    /\ \A h \in Cached \ {k} : \E i \in 1..Len(l) : l[i].key = h

\* The list as SMT sees it.
LEMMA ListType ==
    ASSUME CacheTypeOK
    PROVE  /\ Len(_list) \in Nat /\ DOMAIN _list = 1..Len(_list)
           /\ \A i \in 1..Len(_list) : _list[i] \in Entry
<1>1. _list \in Seq(Entry)
  BY DEF CacheTypeOK
<1> QED
  BY <1>1, LenProperties

\* A cached key has one entry.
LEMMA PlaceOf ==
    ASSUME CacheInv, NEW k \in Cached
    PROVE  /\ Place(k) \in 1..Len(_list) /\ _list[Place(k)].key = k
           /\ _list[Place(k)].data = _index[k] /\ _list[Place(k)] \in Entry
<1>1. \E i \in DOMAIN _list : _list[i].key = k
  BY DEF CacheInv, ListMatchesIndex
<1>2. Place(k) \in DOMAIN _list /\ _list[Place(k)].key = k
  BY <1>1 DEF Place
<1>3. CacheTypeOK
  BY DEF CacheInv
<1> QED
  BY <1>2, <1>3, ListType DEF CacheInv, ListMatchesIndex

\* _list.erase(miter->second): what is left, element by element.
LEMMA ErasedElements ==
    ASSUME CacheInv, NEW k \in Cached
    PROVE  /\ Erased(k) \in Seq(Entry) /\ Len(Erased(k)) = Len(_list) - 1
           /\ \A i \in 1..Len(Erased(k)) : Erased(k)[i] = _list[IF i < Place(k) THEN i ELSE i + 1]
<1> DEFINE p == Place(k)  n == Len(_list)  a == SubSeq(_list, 1, p - 1)  b == SubSeq(_list, p + 1, n)
<1>1. p \in 1..n /\ n \in Nat /\ \A i \in 1..n : _list[i] \in Entry
  BY PlaceOf, ListType DEF CacheInv
<1>2. a \in Seq(Entry) /\ Len(a) = p - 1 /\ \A i \in 1..(p - 1) : a[i] = _list[i]
  <2> HIDE DEF p, n
  <2>1. 1 \in Int /\ p - 1 \in Int /\ \A i \in 1..(p - 1) : _list[i] \in Entry
    BY <1>1
  <2>2. /\ SubSeq(_list, 1, p - 1) \in Seq(Entry)
        /\ Len(SubSeq(_list, 1, p - 1)) = IF 1 <= p - 1 THEN p - 1 - 1 + 1 ELSE 0
        /\ \A i \in 1..(p - 1 - 1 + 1) : SubSeq(_list, 1, p - 1)[i] = _list[1 + i - 1]
    BY <2>1, SubSeqProperties
  <2> QED
    BY <1>1, <2>2
<1>3. b \in Seq(Entry) /\ Len(b) = n - p /\ \A i \in 1..(n - p) : b[i] = _list[p + i]
  <2> HIDE DEF p, n
  <2>1. p + 1 \in Int /\ n \in Int /\ \A i \in (p + 1)..n : _list[i] \in Entry
    BY <1>1
  <2>2. /\ SubSeq(_list, p + 1, n) \in Seq(Entry)
        /\ Len(SubSeq(_list, p + 1, n)) = IF p + 1 <= n THEN n - (p + 1) + 1 ELSE 0
        /\ \A i \in 1..(n - (p + 1) + 1) : SubSeq(_list, p + 1, n)[i] = _list[p + 1 + i - 1]
    BY <2>1, SubSeqProperties
  <2> QED
    BY <1>1, <2>2
<1>4. Erased(k) = a \o b
  BY DEF Erased, RemoveAt
<1> HIDE DEF p, n, a, b
<1>5. /\ a \o b \in Seq(Entry) /\ Len(a \o b) = Len(a) + Len(b)
      /\ \A i \in 1..(Len(a) + Len(b)) : (a \o b)[i] = IF i <= Len(a) THEN a[i] ELSE b[i - Len(a)]
  BY <1>2, <1>3, ConcatProperties
<1>6. Len(a) + Len(b) = n - 1
  BY <1>1, <1>2, <1>3
<1>7. ASSUME NEW i \in 1..(n - 1) PROVE (a \o b)[i] = _list[IF i < p THEN i ELSE i + 1]
  <2>1. CASE i < p
    BY <1>1, <1>2, <1>5, <1>6, <2>1
  <2>2. CASE ~(i < p)
    <3>1. i - Len(a) \in 1..(n - p) /\ p + (i - Len(a)) = i + 1 /\ ~(i <= Len(a))
      BY <1>1, <1>2, <2>2
    <3> QED
      BY <1>1, <1>3, <1>5, <1>6, <2>2, <3>1
  <2> QED
    BY <2>1, <2>2
<1> QED
  BY <1>4, <1>5, <1>6, <1>7 DEF p, n

\* What insert starts from, and what remove leaves.
LEMMA WithoutList ==
    ASSUME CacheInv, NEW k \in Key
    PROVE  /\ ListWithout(Without(k), k) /\ Len(Without(k)) = SizeWithout(k)
           /\ SizeWithout(k) \in Nat /\ SizeWithout(k) <= MaxSize
<1>0. /\ Len(_list) \in Nat /\ DOMAIN _list = 1..Len(_list) /\ MaxSize \in Nat
      /\ _curr_size = Len(_list) /\ _curr_size <= MaxSize
      /\ \A i \in 1..Len(_list) : _list[i].key \in Cached
  <2>1. CacheTypeOK
    BY DEF CacheInv
  <2>2. /\ Len(_list) \in Nat /\ DOMAIN _list = 1..Len(_list)
        /\ \A i \in 1..Len(_list) : _list[i] \in Entry
    BY <2>1, ListType
  <2>3. \A i \in 1..Len(_list) : _list[i].key \in Key /\ _list[i].data \in Data
    BY <2>2 DEF Entry
  <2>4. \A i \in 1..Len(_list) : _list[i].key \in Cached
    BY <2>2, <2>3, LRUCacheAssumption DEF CacheInv, ListMatchesIndex, Cached, LRUCacheAssumption
  <2> QED
    BY <2>2, <2>4, LRUCacheAssumption DEF CacheInv, ListMatchesIndex, LRUCacheAssumption
<1>1. /\ \A i \in 1..Len(_list) : _index[_list[i].key] = _list[i].data
      /\ \A i, h \in 1..Len(_list) : _list[i].key = _list[h].key => i = h
      /\ \A i, h \in 1..Len(_list) : i < h => <<_list[i].key, _list[h].key>> \in newer
      /\ \A h \in Cached : \E i \in 1..Len(_list) : _list[i].key = h
  BY <1>0 DEF CacheInv, ListMatchesIndex, LeastRecentGoes
<1>2. CASE k \notin Cached
  <2>1. Without(k) = _list /\ SizeWithout(k) = Len(_list)
    BY <1>0, <1>2 DEF Without, SizeWithout
  <2> QED
    BY <1>0, <1>1, <1>2, <2>1 DEF ListWithout, CacheInv, CacheTypeOK
<1>3. CASE k \in Cached
  <2> DEFINE l == Without(k)  from(i) == IF i < Place(k) THEN i ELSE i + 1
  <2>1. l = Erased(k) /\ SizeWithout(k) = Len(_list) - 1
    BY <1>0, <1>3 DEF Without, SizeWithout
  <2>2. l \in Seq(Entry) /\ Len(l) = Len(_list) - 1 /\ \A i \in 1..Len(l) : l[i] = _list[from(i)]
    BY <1>3, <2>1, ErasedElements
  <2>3. Place(k) \in 1..Len(_list) /\ _list[Place(k)].key = k
    BY <1>3, PlaceOf
  <2>4. \A i \in 1..Len(l) : from(i) \in 1..Len(_list) /\ from(i) # Place(k)
    BY <1>0, <2>2, <2>3
  <2>5. \A i, h \in 1..Len(l) : (from(i) = from(h) => i = h) /\ (i < h => from(i) < from(h))
    BY <1>0, <2>2, <2>3
  <2>6. ASSUME NEW i \in 1..Len(_list), i # Place(k) PROVE \E m \in 1..Len(l) : from(m) = i
    <3>1. CASE i < Place(k)
      BY <1>0, <2>2, <2>3, <3>1
    <3>2. CASE i > Place(k)
      <4>1. i - 1 \in 1..Len(l) /\ from(i - 1) = i
        BY <1>0, <2>2, <2>3, <3>2
      <4> QED
        BY <4>1
    <3> QED
      BY <1>0, <2>3, <2>6, <3>1, <3>2
  <2> HIDE DEF l, from
  <2>7. \A i \in 1..Len(l) : l[i].key \in Cached \ {k} /\ _index[l[i].key] = l[i].data
    BY <1>0, <1>1, <2>2, <2>3, <2>4
  <2>8. /\ \A i, h \in 1..Len(l) : l[i].key = l[h].key => i = h
        /\ \A i, h \in 1..Len(l) : i < h => <<l[i].key, l[h].key>> \in newer
    <3> SUFFICES ASSUME NEW i \in 1..Len(l), NEW h \in 1..Len(l)
                 PROVE  /\ l[i].key = l[h].key => i = h
                        /\ i < h => <<l[i].key, l[h].key>> \in newer
      OBVIOUS
    <3>1. l[i] = _list[from(i)] /\ l[h] = _list[from(h)] /\ from(i) \in 1..Len(_list) /\ from(h) \in 1..Len(_list)
      BY <2>2, <2>4
    <3>2. l[i].key = l[h].key => i = h
      BY <1>1, <2>5, <3>1
    <3>3. i < h => <<l[i].key, l[h].key>> \in newer
      BY <1>1, <2>5, <3>1
    <3> QED
      BY <3>2, <3>3
  <2>9. ASSUME NEW h \in Cached \ {k} PROVE \E i \in 1..Len(l) : l[i].key = h
    <3>1. PICK i \in 1..Len(_list) : _list[i].key = h
      BY <1>1
    <3>2. PICK m \in 1..Len(l) : from(m) = i
      BY <3>1, <2>3, <2>6
    <3> QED
      BY <3>1, <3>2, <2>2
  <2>10. ListWithout(l, k)
    BY <2>2, <2>7, <2>8, <2>9 DEF ListWithout
  <2> QED
    BY <1>0, <2>1, <2>2, <2>3, <2>10 DEF l
<1> QED
  BY <1>2, <1>3

\* The elements of a list with one more in front.
LEMMA InFront ==
    ASSUME NEW e \in Entry, NEW l \in Seq(Entry)
    PROVE  /\ <<e>> \o l \in Seq(Entry) /\ Len(<<e>> \o l) = Len(l) + 1 /\ Len(l) \in Nat
           /\ (<<e>> \o l)[1] = e /\ \A i \in 1..Len(l) : (<<e>> \o l)[i + 1] = l[i]
<1>1. <<e>> \in Seq(Entry) /\ Len(<<e>>) = 1 /\ <<e>>[1] = e /\ Len(l) \in Nat
  BY LenProperties
<1>2. /\ <<e>> \o l \in Seq(Entry) /\ Len(<<e>> \o l) = Len(<<e>>) + Len(l)
      /\ \A i \in 1..(Len(<<e>>) + Len(l)) : (<<e>> \o l)[i] = IF i <= Len(<<e>>) THEN <<e>>[i] ELSE l[i - Len(<<e>>)]
  BY <1>1, ConcatProperties
<1> QED
  BY <1>1, <1>2

\* The order of use once k has been used.
LEMMA UsedLastOrder ==
    ASSUME CacheInv, NEW k \in Key
    PROVE  /\ UsedLast(k) \subseteq Key \X Key
           /\ \A i, h \in Key : <<i, h>> \in UsedLast(k) <=> h # k /\ (i = k \/ <<i, h>> \in newer)
           /\ \A i, h \in Key : <<i, h>> \in UsedLast(k) => <<h, i>> \notin UsedLast(k)
<1>1. newer \subseteq Key \X Key /\ \A i, h \in Key : <<i, h>> \in newer => <<h, i>> \notin newer
  BY DEF CacheInv, CacheTypeOK
<1>2. UsedLast(k) \subseteq Key \X Key
  BY <1>1 DEF UsedLast
<1>3. \A i, h \in Key : <<i, h>> \in UsedLast(k) <=> h # k /\ (i = k \/ <<i, h>> \in newer)
  BY DEF UsedLast
<1> QED
  BY <1>1, <1>2, <1>3

-----------------------------------------------------------------------------
\* A new cache.
LEMMA NewCache == CacheInit => CacheInv
<1> SUFFICES ASSUME CacheInit PROVE CacheInv
  OBVIOUS
<1>1. _list \in Seq(Entry) /\ Len(_list) = 0 /\ DOMAIN _list = {}
  BY DEF CacheInit
<1>2. Cached = {}
  BY DEF CacheInit, Cached
<1> QED
  BY <1>1, <1>2, LRUCacheAssumption
     DEF CacheInit, CacheInv, CacheTypeOK, ListMatchesIndex, LeastRecentGoes, LRUCacheAssumption

\* LRUCache::clear
LEMMA ClearKeeps == ASSUME CacheInv, clear PROVE CacheInv'
<1>1. _list' \in Seq(Entry) /\ Len(_list') = 0 /\ DOMAIN _list' = {}
  BY DEF clear
<1>2. Cached' = {}
  BY DEF clear, Cached
<1> QED
  BY <1>1, <1>2, LRUCacheAssumption
     DEF clear, CacheInv, CacheTypeOK, ListMatchesIndex, LeastRecentGoes, LRUCacheAssumption

\* LRUCache::remove
LEMMA RemoveKeeps == ASSUME CacheInv, NEW k \in Key, remove(k) PROVE CacheInv'
<1>1. k \in Cached /\ _list' = Without(k) /\ _curr_size' = SizeWithout(k)
  BY DEF remove, Without, SizeWithout
<1>2. ListWithout(_list', k) /\ Len(_list') = _curr_size' /\ _curr_size' \in Nat /\ _curr_size' <= MaxSize
  BY <1>1, WithoutList
<1>3. DOMAIN _list' = 1..Len(_list')
  BY <1>2, LenProperties DEF ListWithout
<1>4. Cached' = Cached \ {k} /\ k \notin Cached' /\ \A h \in Key \ {k} : _index'[h] = _index[h]
  BY DEF remove, Cached, CacheInv, CacheTypeOK
<1>5. CacheTypeOK'
  BY <1>2 DEF remove, CacheInv, CacheTypeOK, ListWithout
<1>6. ListMatchesIndex'
  <2>1. \A h \in Cached' : h \in Key /\ _index'[h] = latest'[h]
    BY <1>4 DEF remove, CacheInv, ListMatchesIndex, Cached
  <2> QED
    BY <1>2, <1>3, <1>4, <2>1 DEF ListMatchesIndex, ListWithout, Cached
<1>7. LeastRecentGoes'
  BY <1>2, <1>3, <1>4 DEF remove, CacheInv, LeastRecentGoes, ListWithout
<1> QED
  BY <1>5, <1>6, <1>7 DEF remove, CacheInv

\* A list whose first entry is e, of the key k, which was used last.
Fronted(f, k, e) ==
    /\ f \in Seq(Entry) /\ f[1] = e
    /\ \A i \in 2..Len(f) : f[i].key \in Cached \ {k} /\ _index[f[i].key] = f[i].data
    /\ \A i, h \in 1..Len(f) : f[i].key = f[h].key => i = h
    /\ \A i, h \in 1..Len(f) : i < h => <<f[i].key, f[h].key>> \in UsedLast(k)
    /\ \A h \in Cached \cup {k} : \E i \in 1..Len(f) : f[i].key = h

\* The list with an entry for k in front is ordered by use once k is used.
LEMMA FrontOrdered ==
    ASSUME CacheInv, NEW k \in Key, NEW e \in Entry, e.key = k,
           NEW l, ListWithout(l, k)
    PROVE  Fronted(<<e>> \o l, k, e) /\ Len(<<e>> \o l) = Len(l) + 1 /\ Len(l) \in Nat
<1> DEFINE f == <<e>> \o l
<1>1. /\ f \in Seq(Entry) /\ Len(f) = Len(l) + 1 /\ Len(l) \in Nat
      /\ f[1] = e /\ \A i \in 1..Len(l) : f[i + 1] = l[i]
  BY InFront DEF ListWithout
<1> HIDE DEF f
<1>2. \A i \in 2..Len(f) : i - 1 \in 1..Len(l) /\ f[i] = l[i - 1]
  <2> SUFFICES ASSUME NEW i \in 2..Len(f) PROVE i - 1 \in 1..Len(l) /\ f[i] = l[i - 1]
    OBVIOUS
  <2>1. i - 1 \in 1..Len(l) /\ (i - 1) + 1 = i
    BY <1>1
  <2> QED
    BY <1>1, <2>1
<1>3. \A i \in 2..Len(f) : f[i].key \in Cached \ {k} /\ _index[f[i].key] = f[i].data
  BY <1>2 DEF ListWithout
<1>4. ASSUME NEW i \in 1..Len(f), NEW h \in 1..Len(f), f[i].key = f[h].key PROVE i = h
  <2>1. CASE i = 1 \/ h = 1
    BY <1>1, <1>3, <1>4, <2>1
  <2>2. CASE i # 1 /\ h # 1
    <3>1. i \in 2..Len(f) /\ h \in 2..Len(f)
      BY <1>1, <2>2
    <3>2. i - 1 \in 1..Len(l) /\ h - 1 \in 1..Len(l) /\ l[i - 1].key = l[h - 1].key
      BY <1>2, <1>4, <3>1
    <3>3. i - 1 = h - 1
      BY <3>2 DEF ListWithout
    <3> QED
      BY <3>1, <3>3, <1>1
  <2> QED
    BY <2>1, <2>2
<1>5. ASSUME NEW i \in 1..Len(f), NEW h \in 1..Len(f), i < h PROVE <<f[i].key, f[h].key>> \in UsedLast(k)
  <2>1. h \in 2..Len(f) /\ f[h].key \in Key \ {k}
    BY <1>1, <1>3, <1>5 DEF Cached
  <2>2. CASE i = 1
    BY <1>1, <2>1, <2>2, UsedLastOrder
  <2>3. CASE i # 1
    <3>1. i \in 2..Len(f) /\ i - 1 < h - 1
      BY <1>1, <1>5, <2>3
    <3>2. i - 1 \in 1..Len(l) /\ h - 1 \in 1..Len(l) /\ f[i] = l[i - 1] /\ f[h] = l[h - 1]
      BY <1>2, <2>1, <3>1
    <3>4. <<l[i - 1].key, l[h - 1].key>> \in newer
      BY <3>1, <3>2 DEF ListWithout
    <3>3. f[i].key \in Key
      BY <1>3, <3>1 DEF Cached
    <3> QED
      BY <2>1, <3>2, <3>3, <3>4, UsedLastOrder
  <2> QED
    BY <2>2, <2>3
<1>6. ASSUME NEW h \in Cached \cup {k} PROVE \E i \in 1..Len(f) : f[i].key = h
  <2>1. CASE h = k
    BY <1>1, <2>1
  <2>2. CASE h # k
    <3>1. PICK i \in 1..Len(l) : l[i].key = h
      BY <1>6, <2>2 DEF ListWithout
    <3>2. i + 1 \in 1..Len(f) /\ f[i + 1].key = h
      BY <1>1, <3>1
    <3> QED
      BY <3>2
  <2> QED
    BY <2>1, <2>2
<1> QED
  BY <1>1, <1>3, <1>4, <1>5, <1>6 DEF f, Fronted

\* LRUCache::touch, fetch_ptr and fetch with touch_data
LEMMA TouchKeeps == ASSUME CacheInv, NEW k \in Key, touch(k) PROVE CacheInv'
<1> DEFINE e == _list[Place(k)]
<1>1. /\ k \in Cached /\ _list' = <<e>> \o Without(k) /\ newer' = UsedLast(k)
      /\ UNCHANGED <<_index, _curr_size, latest, removed>> /\ Cached' = Cached
  BY DEF touch, _touch, Without, Cached
<1>2. e \in Entry /\ e.key = k /\ e.data = _index[k]
  BY <1>1, PlaceOf
<1>3. ListWithout(Without(k), k) /\ Len(Without(k)) = _curr_size - 1
  BY <1>1, WithoutList DEF SizeWithout
<1> HIDE DEF e
<1>3a. Fronted(_list', k, e) /\ Len(_list') = Len(Without(k)) + 1 /\ Len(Without(k)) \in Nat
  BY <1>1, <1>2, <1>3, FrontOrdered
<1>4. /\ _list' \in Seq(Entry) /\ Len(_list') = Len(Without(k)) + 1 /\ _list'[1] = e /\ Len(Without(k)) \in Nat
      /\ \A i \in 2..Len(_list') : _list'[i].key \in Cached \ {k} /\ _index[_list'[i].key] = _list'[i].data
      /\ \A i, h \in 1..Len(_list') : _list'[i].key = _list'[h].key => i = h
      /\ \A i, h \in 1..Len(_list') : i < h => <<_list'[i].key, _list'[h].key>> \in UsedLast(k)
      /\ \A h \in Cached \cup {k} : \E i \in 1..Len(_list') : _list'[i].key = h
  BY <1>3a DEF Fronted
<1>5. DOMAIN _list' = 1..Len(_list') /\ _curr_size \in Nat /\ Len(_list') = _curr_size
  BY <1>3, <1>4, LenProperties DEF CacheInv, CacheTypeOK
<1>6. CacheTypeOK'
  BY <1>1, <1>4, UsedLastOrder DEF CacheInv, CacheTypeOK
<1>7. ListMatchesIndex'
  <2>1. \A i \in 1..Len(_list') : _index[_list'[i].key] = _list'[i].data
    <3> SUFFICES ASSUME NEW i \in 1..Len(_list') PROVE _index[_list'[i].key] = _list'[i].data
      OBVIOUS
    <3>1. CASE i = 1
      BY <1>2, <1>4, <3>1
    <3>2. CASE i \in 2..Len(_list')
      BY <1>4, <3>2
    <3> QED
      BY <1>4, <3>1, <3>2
  <2> QED
    BY <1>1, <1>4, <1>5, <2>1 DEF CacheInv, ListMatchesIndex
<1>8. LeastRecentGoes'
  <2>1. ASSUME NEW i \in Key, NEW h \in Key, <<i, h>> \in UsedLast(k), h \in Cached PROVE i \in Cached \cup removed
    BY <1>1, <2>1, UsedLastOrder DEF CacheInv, LeastRecentGoes
  <2> QED
    BY <1>1, <1>4, <1>5, <2>1 DEF LeastRecentGoes
<1> QED
  BY <1>1, <1>6, <1>7, <1>8, UsedLastOrder DEF CacheInv

\* LRUCache::insert: the key's old entry goes, the new one comes to the front, and
\* entries leave at the end until the rest fits.
LEMMA InsertKeeps ==
    ASSUME CacheInv, NEW k \in Key, NEW d \in Data, insert(k, d)
    PROVE  /\ CacheInv'
           /\ \A h \in Key : _index'[h] \in {NoData, IF h = k THEN d ELSE _index[h]}
<1> DEFINE e == [key |-> k, data |-> d]
           f == <<e>> \o Without(k)
           count == SizeWithout(k) + 1
           excess == IF count > MaxSize THEN count - MaxSize ELSE 0
           m == Len(f) - excess
           dropped == {f[i].key : i \in (m + 1)..Len(f)}
<1>1. e \in Entry /\ e.key = k /\ e.data = d
  BY DEF Entry
<1>2. /\ ListWithout(Without(k), k) /\ Len(Without(k)) = SizeWithout(k)
      /\ SizeWithout(k) \in Nat /\ SizeWithout(k) <= MaxSize
  BY WithoutList
<1>3. Fronted(f, k, e) /\ Len(f) = count
  BY <1>1, <1>2, FrontOrdered
<1>4. /\ _list' = SubSeq(f, 1, m) /\ _curr_size' = count - excess
      /\ _index' = [h \in Key |-> IF h \in dropped THEN NoData ELSE IF h = k THEN d ELSE _index[h]]
      /\ newer' = UsedLast(k) /\ removed' = removed \ {k} /\ latest' = [latest EXCEPT ![k] = d]
  BY DEF insert, Store
<1>5. count \in Nat /\ m \in Nat /\ m <= Len(f) /\ m <= MaxSize /\ _curr_size' = m /\ Len(f) \in Nat
  <2> HIDE DEF e, f
  <2>1. MaxSize \in Nat /\ Len(f) = SizeWithout(k) + 1
    BY <1>3, LRUCacheAssumption DEF LRUCacheAssumption
  <2>2. excess \in {0, 1} /\ excess <= count /\ count - excess <= MaxSize /\ count \in Nat
    BY <1>2, <2>1
  <2> HIDE DEF count, excess
  <2> QED
    BY <1>3, <1>4, <2>2
<1> HIDE DEF e, f, count, excess, m
<1>6. \A i \in 1..m : i \in 1..Len(f) /\ f[i] \in Entry
  <2>1. \A i \in 1..Len(f) : f[i] \in Entry
    BY <1>3, LenProperties DEF Fronted
  <2> QED
    BY <1>5, <2>1
<1>7. /\ _list' \in Seq(Entry) /\ Len(_list') = m /\ DOMAIN _list' = 1..m
      /\ \A i \in 1..m : _list'[i] = f[i]
  <2>1. 1 \in Int /\ m \in Int
    BY <1>5
  <2>2. /\ SubSeq(f, 1, m) \in Seq(Entry)
        /\ Len(SubSeq(f, 1, m)) = IF 1 <= m THEN m - 1 + 1 ELSE 0
        /\ \A i \in 1..(m - 1 + 1) : SubSeq(f, 1, m)[i] = f[1 + i - 1]
    BY <1>6, <2>1, SubSeqProperties
  <2>3. _list' \in Seq(Entry) /\ Len(_list') = m /\ \A i \in 1..m : _list'[i] = f[i]
    BY <1>4, <1>5, <2>2
  <2> QED
    BY <2>3, LenProperties
<1>8. \A i \in 1..m : f[i].key \notin dropped
  <2> SUFFICES ASSUME NEW i \in 1..m, NEW h \in (m + 1)..Len(f), f[i].key = f[h].key PROVE FALSE
    OBVIOUS
  <2>1. i \in 1..Len(f) /\ h \in 1..Len(f) /\ i # h
    BY <1>5
  <2> QED
    BY <1>3, <2>1 DEF Fronted
<1>9. Cached' = (Cached \cup {k}) \ dropped
  BY <1>4, LRUCacheAssumption DEF Cached, LRUCacheAssumption
<1>10. \A h \in Cached' : \E i \in 1..m : f[i].key = h
  <2> SUFFICES ASSUME NEW h \in Cached' PROVE \E i \in 1..m : f[i].key = h
    OBVIOUS
  <2>1. PICK i \in 1..Len(f) : f[i].key = h
    BY <1>3, <1>9 DEF Fronted
  <2>2. i \notin (m + 1)..Len(f)
    BY <1>9, <2>1
  <2> QED
    BY <1>5, <2>1, <2>2
<1>11. \A h \in Key : _index'[h] = IF h \in dropped THEN NoData ELSE IF h = k THEN d ELSE _index[h]
  BY <1>4
<1>12. CacheTypeOK'
  BY <1>4, <1>5, <1>7, UsedLastOrder DEF CacheInv, CacheTypeOK
<1> HIDE DEF dropped
<1>13. ListMatchesIndex'
  <2>1. ASSUME NEW i \in 1..m PROVE _index'[f[i].key] = f[i].data
    <3>1. CASE i = 1
      BY <1>1, <1>3, <1>8, <1>11, <3>1 DEF Fronted
    <3>2. CASE i \in 2..Len(f)
      <4>1. f[i].key \in Cached \ {k} /\ _index[f[i].key] = f[i].data
        BY <1>3, <3>2 DEF Fronted
      <4> QED
        BY <1>8, <1>11, <4>1 DEF Cached
    <3> QED
      BY <1>5, <1>6, <3>1, <3>2
  <2>2. \A i, h \in 1..m : f[i].key = f[h].key => i = h
    BY <1>3, <1>6 DEF Fronted
  <2>3. ASSUME NEW h \in Cached' PROVE _index'[h] = latest'[h]
    <3>1. h \in Key /\ h \notin dropped
      BY <1>9 DEF Cached
    <3>2. CASE h = k
      BY <1>4, <1>11, <3>1, <3>2 DEF CacheInv, CacheTypeOK
    <3>3. CASE h # k
      BY <1>4, <1>9, <1>11, <3>1, <3>3 DEF CacheInv, CacheTypeOK, ListMatchesIndex
    <3> QED
      BY <3>2, <3>3
  <2> QED
    BY <1>5, <1>7, <1>10, <2>1, <2>2, <2>3 DEF ListMatchesIndex
<1>14. LeastRecentGoes'
  <2>1. \A i, h \in 1..m : i < h => <<f[i].key, f[h].key>> \in newer'
    BY <1>3, <1>4, <1>6 DEF Fronted
  <2>2. ASSUME NEW i \in Key, NEW h \in Key, <<i, h>> \in UsedLast(k), h \in Cached' PROVE i \in Cached' \cup removed'
    <3>1. i \notin dropped
      <4> SUFFICES ASSUME NEW b \in (m + 1)..Len(f), f[b].key = i PROVE FALSE
        BY DEF dropped
      <4>1. PICK a \in 1..m : f[a].key = h
        BY <1>10, <2>2
      <4>2. a \in 1..Len(f) /\ b \in 1..Len(f) /\ a < b
        BY <1>5
      <4>3. <<h, i>> \in UsedLast(k)
        BY <1>3, <4>1, <4>2 DEF Fronted
      <4> QED
        BY <2>2, <4>3, UsedLastOrder
    <3>2. h # k /\ (i = k \/ <<i, h>> \in newer)
      BY <2>2, UsedLastOrder
    <3>3. i \in Cached \cup {k} \cup removed
      BY <1>9, <2>2, <3>2 DEF CacheInv, LeastRecentGoes
    <3> QED
      BY <1>4, <1>9, <3>1, <3>3
  <2> QED
    BY <1>4, <1>7, <2>1, <2>2 DEF LeastRecentGoes
<1> QED
  BY <1>4, <1>11, <1>12, <1>13, <1>14, UsedLastOrder DEF CacheInv

\* Every public operation of the cache.
LEMMA OperationsKeep ==
    ASSUME CacheInv, OtherOperation
    PROVE  CacheInv' /\ \A h \in Key : _index'[h] \in {NoData, _index[h]}
<1>1. CASE clear
  BY <1>1, ClearKeeps DEF clear
<1>2. ASSUME NEW k \in Key, remove(k) PROVE CacheInv' /\ \A h \in Key : _index'[h] \in {NoData, _index[h]}
  BY <1>2, RemoveKeeps DEF remove, CacheInv, CacheTypeOK
<1>3. ASSUME NEW k \in Key, touch(k) PROVE CacheInv' /\ \A h \in Key : _index'[h] \in {NoData, _index[h]}
  BY <1>3, TouchKeeps DEF touch, _touch
<1>4. CASE UNCHANGED cacheVars
  BY <1>4 DEF cacheVars, CacheInv, CacheTypeOK, ListMatchesIndex, LeastRecentGoes, Cached
<1> QED
  BY <1>1, <1>2, <1>3, <1>4 DEF OtherOperation, fetch_ptr, fetch

-----------------------------------------------------------------------------
\* The invariant holds before the first request.
LEMMA InitInv == Init => QueryCacheInv
<1> SUFFICES ASSUME Init PROVE QueryCacheInv
  OBVIOUS
<1>1. CacheInv /\ CacheTypeOK
  BY NewCache DEF Init, CacheInv
<1>2. Cached = {}
  BY DEF Init, CacheInit, Cached
<1>3. TypeOK
  BY <1>1 DEF Init, TypeOK
<1>4. OwnQuery /\ WorkersInPlace
  BY <1>2 DEF Init, OwnQuery, WorkersInPlace
<1> QED
  BY <1>1, <1>3, <1>4 DEF QueryCacheInv

\* The invariant of the cache, and that a key leads to what it led to before or
\* nowhere, except the one that a request inserts.
LEMMA CacheKept ==
    ASSUME QueryCacheInv, [Next \/ OtherUse]_vars
    PROVE  /\ CacheInv'
           /\ \/ \A h \in Key : _index'[h] \in {NoData, _index[h]}
              \/ \E w \in Worker :
                    /\ Keep(w)
                    /\ \A h \in Key : _index'[h] \in {NoData, IF h = key[w] THEN p_query[w] ELSE _index[h]}
<1>0. CacheInv
  BY DEF QueryCacheInv
<1>1. CASE UNCHANGED cacheVars
  BY <1>0, <1>1 DEF cacheVars, CacheInv, CacheTypeOK, ListMatchesIndex, LeastRecentGoes, Cached
<1>2. ASSUME NEW w \in Worker, Keep(w)
      PROVE  /\ CacheInv'
             /\ \A h \in Key : _index'[h] \in {NoData, IF h = key[w] THEN p_query[w] ELSE _index[h]}
  <2>1. key[w] \in Key /\ p_query[w] \in Data /\ insert(key[w], p_query[w])
    BY <1>2 DEF Keep, QueryCacheInv, TypeOK, WorkersInPlace
  <2> QED
    BY <1>0, <2>1, InsertKeeps
<1>3. CASE OtherUse
  BY <1>0, <1>3, OperationsKeep DEF OtherUse
<1>4. CASE DestroyCache
  BY <1>0, <1>4, ClearKeeps DEF DestroyCache, clear
<1>5. ASSUME NEW w \in Worker, NEW k \in Key, Lookup(w, k) PROVE UNCHANGED cacheVars
  BY <1>5 DEF Lookup, fetch
<1>6. ASSUME NEW w \in Worker, Begin(w) \/ End(w) \/ BuildQuery(w) \/ Return(w) \/ getSite(w) \/ openSession(w)
      PROVE  UNCHANGED cacheVars
  BY <1>6 DEF Begin, End, BuildQuery, Return, getSite, openSession
<1>7. ASSUME FreeDoc \/ Destroyed \/ (\E owner \in {"sites", "sessions"} : Release(owner)) \/ UNCHANGED vars
      PROVE  UNCHANGED cacheVars
  BY <1>7 DEF FreeDoc, Destroyed, Release, vars
<1> QED
  BY <1>1, <1>2, <1>3, <1>4, <1>5, <1>6, <1>7 DEF Next

\* What every step keeps of the requests and the site.
LEMMA TypesKept == ASSUME QueryCacheInv, [Next \/ OtherUse]_vars PROVE TypeOK'
<1> USE DEF QueryCacheInv, TypeOK
<1>0. CacheTypeOK'
  BY CacheKept DEF CacheInv
<1>1. CASE UNCHANGED <<workerVars, queryOf, siteVars>>
  BY <1>0, <1>1 DEF workerVars, siteVars
<1>2. ASSUME NEW w \in Worker, NEW k \in Key, Lookup(w, k) PROVE TypeOK'
  BY <1>0, <1>2 DEF Lookup, fetch, siteVars, CacheTypeOK
<1>3. ASSUME NEW w \in Worker, Begin(w) \/ End(w) \/ BuildQuery(w) \/ Keep(w) \/ Return(w) PROVE TypeOK'
  BY <1>0, <1>3 DEF Begin, End, BuildQuery, Keep, Return, Drop, siteVars
<1>4. ASSUME NEW owner \in {"sites", "sessions"}, Release(owner) PROVE TypeOK'
  BY <1>0, <1>4 DEF Release, workerVars
<1>5. CASE FreeDoc
  BY <1>0, <1>5 DEF FreeDoc, workerVars
<1>6. ASSUME NEW w \in Worker, getSite(w) \/ openSession(w) PROVE TypeOK'
  BY <1>0, <1>6 DEF getSite, openSession, siteVars
<1> QED
  BY <1>1, <1>2, <1>3, <1>4, <1>5, <1>6 DEF Next, OtherUse, DestroyCache, Destroyed, vars

\* A request keeps the session it works for, and with it the site: the document
\* is not freed before it is back, and none starts afterwards.
LEMMA WorkersKept == ASSUME QueryCacheInv, [Next \/ OtherUse]_vars PROVE WorkersInPlace'
<1> USE DEF QueryCacheInv, TypeOK
<1>1. CASE UNCHANGED <<workerVars, queryOf, siteVars>>
  BY <1>1 DEF workerVars, siteVars, WorkersInPlace, Held
<1>2. ASSUME NEW w \in Worker, NEW k \in Key, Lookup(w, k) PROVE WorkersInPlace'
  BY <1>2 DEF Lookup, siteVars, WorkersInPlace, Held
<1>3. ASSUME NEW w \in Worker, Begin(w) \/ End(w) \/ BuildQuery(w) \/ Keep(w) \/ Return(w) PROVE WorkersInPlace'
  BY <1>3 DEF Begin, End, BuildQuery, Keep, Return, Drop, siteVars, WorkersInPlace, Held
<1>4. ASSUME NEW owner \in {"sites", "sessions"}, Release(owner) PROVE WorkersInPlace'
  BY <1>4 DEF Release, workerVars, WorkersInPlace, Held
<1>5. CASE FreeDoc
  BY <1>5 DEF FreeDoc, workerVars, WorkersInPlace, Held
<1>6. ASSUME NEW w \in Worker, getSite(w) \/ openSession(w) PROVE WorkersInPlace'
  BY <1>6 DEF getSite, openSession, siteVars, WorkersInPlace, Held
<1> QED
  BY <1>1, <1>2, <1>3, <1>4, <1>5, <1>6 DEF Next, OtherUse, DestroyCache, Destroyed, vars

\* A new Query gets memory that nobody points to, so the others keep theirs.
LEMMA QueriesKept == ASSUME QueryCacheInv, [Next \/ OtherUse]_vars PROVE OwnQuery'
<1> USE DEF QueryCacheInv, TypeOK, CacheTypeOK
<1>0. \A k \in Key : _index[k] # NoData => queryOf[_index[k]] = k
  BY DEF OwnQuery, Cached
<1>1. ASSUME UNCHANGED <<key, p_query, queryOf>>, \A h \in Key : _index'[h] \in {NoData, _index[h]} PROVE OwnQuery'
  BY <1>0, <1>1 DEF OwnQuery, Cached
<1>2. ASSUME NEW w \in Worker, Keep(w),
             \A h \in Key : _index'[h] \in {NoData, IF h = key[w] THEN p_query[w] ELSE _index[h]}
      PROVE  OwnQuery'
  <2>1. UNCHANGED <<key, p_query, queryOf>> /\ p_query[w] # NoData
    BY <1>2 DEF Keep
  <2> QED
    BY <1>0, <1>2, <2>1 DEF OwnQuery, Cached
<1>3. ASSUME NEW w \in Worker, NEW k \in Key, Lookup(w, k) PROVE OwnQuery'
  <2>1. UNCHANGED <<_index, queryOf>> /\ key' = [key EXCEPT ![w] = k] /\ pc[w] = "handler"
    BY <1>3 DEF Lookup, fetch, cacheVars
  <2>2. \/ p_query' = [p_query EXCEPT ![w] = _index[k]] /\ k \in Cached
        \/ p_query' = p_query /\ p_query[w] = NoData
    BY <1>3, <2>1 DEF Lookup, fetch, WorkersInPlace
  <2> QED
    BY <1>0, <2>1, <2>2 DEF OwnQuery, Cached
<1>4. ASSUME NEW w \in Worker, BuildQuery(w) PROVE OwnQuery'
  <2>1. CASE Drop(w) /\ UNCHANGED <<queryOf, _index>>
    BY <1>0, <2>1 DEF Drop, OwnQuery, Cached
  <2>2. ASSUME NEW o \in Data \ Live, p_query' = [p_query EXCEPT ![w] = o],
               queryOf' = [queryOf EXCEPT ![o] = key[w]], UNCHANGED <<key, _index>>
        PROVE  OwnQuery'
    <3>1. (\A k \in Key : _index[k] # o) /\ \A v \in Worker : p_query[v] # o
      BY <2>2 DEF Live
    <3> QED
      BY <1>0, <2>2, <3>1 DEF OwnQuery, Cached
  <2> QED
    BY <1>4, <2>1, <2>2 DEF BuildQuery, cacheVars
<1>5. ASSUME NEW w \in Worker, Return(w) PROVE OwnQuery'
  BY <1>0, <1>5 DEF Return, Drop, OwnQuery, Cached, cacheVars
<1>6. UNCHANGED <<key, p_query, queryOf>> \/ (\E w \in Worker : (\E k \in Key : Lookup(w, k)) \/ BuildQuery(w) \/ Return(w))
  BY DEF Next, OtherUse, Begin, End, Keep, getSite, openSession, Release, FreeDoc, DestroyCache, Destroyed, workerVars, vars
<1> QED
  BY <1>1, <1>2, <1>3, <1>4, <1>5, <1>6, CacheKept

\* The invariant holds after every step.
LEMMA InvStep == QueryCacheInv /\ [Next \/ OtherUse]_vars => QueryCacheInv'
<1> SUFFICES ASSUME QueryCacheInv, [Next \/ OtherUse]_vars PROVE QueryCacheInv'
  OBVIOUS
<1> QED
  BY CacheKept, TypesKept, WorkersKept, QueriesKept DEF QueryCacheInv

\* The invariant in every state, whatever else the cache is used for.
LEMMA UsedInv == UsedSpec => []QueryCacheInv
  BY InitInv, InvStep, PTL DEF UsedSpec

\* The program alone does not use the other operations.
LEMMA SpecUsed == Spec => UsedSpec
<1>1. [Next]_vars => [Next \/ OtherUse]_vars
  OBVIOUS
<1> QED
  BY <1>1, PTL DEF Spec, UsedSpec

-----------------------------------------------------------------------------
\* Of Site::fetch_query: a request works with the Query for its own context and
\* text, for any number of requests that miss, build and replace at the same time.
THEOREM QueryCacheOwnQuery == Spec \/ UsedSpec => []OwnQuery
<1>1. QueryCacheInv => OwnQuery
  BY DEF QueryCacheInv
<1> QED
  BY <1>1, UsedInv, SpecUsed, PTL

\* Of Site::~Site: when the document goes no request holds or builds a Query.
THEOREM QueryCacheNodesOutliveQueries == Spec \/ UsedSpec => []NodesOutliveQueries
<1>1. QueryCacheInv => NodesOutliveQueries
  BY DEF QueryCacheInv, WorkersInPlace, NodesOutliveQueries, Held
<1> QED
  BY <1>1, UsedInv, SpecUsed, PTL

\* Of LRUCache: list, index and size agree after any sequence of its operations,
\* for every maximum size, 0 included.
THEOREM QueryCacheListMatchesIndex == Spec \/ UsedSpec => []ListMatchesIndex
<1>1. QueryCacheInv => ListMatchesIndex
  BY DEF QueryCacheInv, CacheInv
<1> QED
  BY <1>1, UsedInv, SpecUsed, PTL

\* Of LRUCache: what insert drops is what was used least recently.
THEOREM QueryCacheLeastRecentGoes == Spec \/ UsedSpec => []LeastRecentGoes
<1>1. QueryCacheInv => LeastRecentGoes
  BY DEF QueryCacheInv, CacheInv
<1> QED
  BY <1>1, UsedInv, SpecUsed, PTL

-----------------------------------------------------------------------------
\* A set of naturals has a least member.
LEMMA LeastNat ==
    ASSUME NEW T, T \subseteq Nat, T # {}
    PROVE  \E n \in T : \A m \in T : n <= m
<1> DEFINE R == OpToRel(<, Nat)
<1>1. IsWellFoundedOn(R, Nat)
  BY NatLessThanWellFounded
<1>2. \A x, y \in Nat : <<x, y>> \in R <=> x < y
  BY DEF OpToRel
<1> HIDE DEF R
<1>3. PICK n \in T : \A m \in T : ~(<<m, n>> \in R)
  BY <1>1, WFMin
<1>4. ASSUME NEW m \in T PROVE n <= m
  <2>1. m \in Nat /\ n \in Nat
    OBVIOUS
  <2>2. ~(m < n)
    BY <1>2, <1>3, <2>1
  <2> QED
    BY <2>1, <2>2
<1> QED
  BY <1>4

\* Induction up to N: a set with 0 and the successor of each of its members.
LEMMA Induct ==
    ASSUME NEW N \in Nat, NEW P, 0 \in P, \A n \in 0..(N - 1) : n \in P => n + 1 \in P
    PROVE  \A n \in 0..N : n \in P
<1> DEFINE T == {n \in 0..N : n \notin P}
<1> SUFFICES ASSUME T # {} PROVE FALSE
  OBVIOUS
<1>0. T \subseteq Nat
  OBVIOUS
<1>1. PICK n \in T : \A m \in T : n <= m
  BY <1>0, LeastNat
<1>2. n # 0 /\ n \in 0..N /\ n \notin P
  OBVIOUS
<1>3. n - 1 \in 0..(N - 1) /\ n - 1 \notin T /\ n - 1 \in 0..N
  BY <1>1, <1>2
<1>4. n - 1 + 1 \in P
  BY <1>3
<1> QED
  BY <1>2, <1>4

\* The recursive function that Kept takes the value of, up to n.
KeptUpTo(s, S, n, f) ==
    f = [i \in 0..n |-> IF i = 0 THEN <<>> ELSE IF s[i] \in S THEN Append(f[i - 1], s[i]) ELSE f[i - 1]]

\* There is one, whose value for Len(s) is Kept's.
LEMMA KeptExists ==
    ASSUME NEW s, NEW S, Len(s) \in Nat
    PROVE  \E f : KeptUpTo(s, S, Len(s), f)
<1> DEFINE P == {n \in Nat : \E f : KeptUpTo(s, S, n, f)}
<1>1. 0 \in P
  <2> DEFINE f == [i \in {0} |-> <<>>]
  <2>1. 0..0 = {0}
    OBVIOUS
  <2>2. KeptUpTo(s, S, 0, f)
    BY <2>1 DEF KeptUpTo
  <2> QED
    BY <2>2
<1>2. ASSUME NEW n \in 0..(Len(s) - 1), n \in P PROVE n + 1 \in P
  <2>1. PICK f : KeptUpTo(s, S, n, f)
    BY <1>2
  <2> DEFINE g == [i \in 0..(n + 1) |-> IF i <= n THEN f[i]
                                        ELSE IF s[i] \in S THEN Append(f[i - 1], s[i]) ELSE f[i - 1]]
  <2>2. \A i \in 0..n : g[i] = f[i] /\ i \in 0..(n + 1)
    OBVIOUS
  <2>3. \A i \in 0..n : f[i] = IF i = 0 THEN <<>> ELSE IF s[i] \in S THEN Append(f[i - 1], s[i]) ELSE f[i - 1]
    BY <2>1 DEF KeptUpTo
  <2>4. g[n + 1] = IF s[n + 1] \in S THEN Append(f[n], s[n + 1]) ELSE f[n]
    <3>1. n + 1 \in 0..(n + 1) /\ ~(n + 1 <= n) /\ (n + 1) - 1 = n
      OBVIOUS
    <3> QED
      BY <3>1
  <2>5. g = [i \in 0..(n + 1) |-> g[i]]
    OBVIOUS
  <2> HIDE DEF g
  <2>6. ASSUME NEW i \in 0..(n + 1)
        PROVE  g[i] = IF i = 0 THEN <<>> ELSE IF s[i] \in S THEN Append(g[i - 1], s[i]) ELSE g[i - 1]
    <3>1. CASE i = 0
      BY <2>2, <2>3, <3>1
    <3>2. CASE i \in 1..n
      <4>1. i - 1 \in 0..n /\ i \in 0..n /\ i # 0
        BY <3>2
      <4>2. g[i] = f[i] /\ g[i - 1] = f[i - 1]
        BY <2>2, <4>1
      <4> QED
        BY <2>3, <4>1, <4>2
    <3>3. CASE i = n + 1
      <4>1. g[n] = f[n] /\ i - 1 = n /\ i # 0
        BY <2>2, <3>3
      <4> QED
        BY <2>4, <3>3, <4>1
    <3> QED
      BY <3>1, <3>2, <3>3
  <2>7. KeptUpTo(s, S, n + 1, g)
    BY <2>5, <2>6 DEF KeptUpTo
  <2> QED
    BY <2>7
<1>3. \A n \in 0..Len(s) : n \in P
  <2> HIDE DEF P
  <2> QED
   BY <1>1, <1>2, Induct
<1> QED
  BY <1>3

\* Kept, unfolded: one member after the other.
LEMMA KeptSteps ==
    ASSUME NEW s, NEW S, Len(s) \in Nat
    PROVE  \E f : /\ Kept(s, S) = f[Len(s)] /\ f[0] = <<>>
                  /\ \A i \in 1..Len(s) : f[i] = IF s[i] \in S THEN Append(f[i - 1], s[i]) ELSE f[i - 1]
<1> DEFINE f == CHOOSE f : KeptUpTo(s, S, Len(s), f)
<1>1. KeptUpTo(s, S, Len(s), f)
  BY KeptExists
<1>2. Kept(s, S) = f[Len(s)]
  BY DEF Kept, KeptUpTo
<1> HIDE DEF f
<1>3. \A i \in 0..Len(s) : f[i] = IF i = 0 THEN <<>> ELSE IF s[i] \in S THEN Append(f[i - 1], s[i]) ELSE f[i - 1]
  BY <1>1 DEF KeptUpTo
<1>4. f[0] = <<>>
  BY <1>3
<1>5. \A i \in 1..Len(s) : f[i] = IF s[i] \in S THEN Append(f[i - 1], s[i]) ELSE f[i - 1]
  <2> SUFFICES ASSUME NEW i \in 1..Len(s) PROVE f[i] = IF s[i] \in S THEN Append(f[i - 1], s[i]) ELSE f[i - 1]
    OBVIOUS
  <2>1. i \in 0..Len(s) /\ i # 0
    OBVIOUS
  <2> QED
    BY <1>3, <2>1
<1> QED
  BY <1>2, <1>4, <1>5

\* What is kept of a sequence is not longer than it.
LEMMA KeptType ==
    ASSUME NEW T, NEW s \in Seq(T), NEW S
    PROVE  Kept(s, S) \in Seq(T) /\ Len(Kept(s, S)) \in Nat /\ Len(Kept(s, S)) <= Len(s)
<1>1. Len(s) \in Nat /\ \A i \in 1..Len(s) : s[i] \in T
  BY LenProperties, ElementOfSeq
<1>2. PICK f : /\ Kept(s, S) = f[Len(s)] /\ f[0] = <<>>
               /\ \A i \in 1..Len(s) : f[i] = IF s[i] \in S THEN Append(f[i - 1], s[i]) ELSE f[i - 1]
  BY <1>1, KeptSteps
<1> DEFINE P == {n \in Nat : f[n] \in Seq(T) /\ Len(f[n]) <= n}
<1>0. f[0] \in Seq(T) /\ Len(f[0]) = 0 /\ 1..0 = {}
  BY <1>2, EmptySeq
<1>3. 0 \in P
  BY <1>0
<1>4. ASSUME NEW n \in 0..(Len(s) - 1), n \in P PROVE n + 1 \in P
  <2>1. n + 1 \in 1..Len(s) /\ n + 1 - 1 = n /\ n + 1 \in Nat /\ n \in Nat
    BY <1>1
  <2>2. f[n + 1] = IF s[n + 1] \in S THEN Append(f[n], s[n + 1]) ELSE f[n]
    BY <1>2, <2>1
  <2>3. f[n] \in Seq(T) /\ Len(f[n]) \in Nat /\ Len(f[n]) <= n
    BY <1>4, LenProperties
  <2>4. s[n + 1] \in T
    BY <1>1, <2>1
  <2>5. Append(f[n], s[n + 1]) \in Seq(T) /\ Len(Append(f[n], s[n + 1])) = Len(f[n]) + 1
    BY <2>3, <2>4, AppendProperties
  <2>6. f[n + 1] \in Seq(T) /\ Len(f[n + 1]) <= n + 1
    BY <2>1, <2>2, <2>3, <2>5
  <2> QED
    BY <2>1, <2>6
<1>5. \A n \in 0..Len(s) : n \in P
  <2> HIDE DEF P
  <2> QED
    BY <1>1, <1>3, <1>4, Induct
<1>6. f[Len(s)] \in Seq(T) /\ Len(f[Len(s)]) <= Len(s)
  BY <1>1, <1>5
<1> QED
  BY <1>2, <1>6, LenProperties

\* A sequence of members of S is kept as it is.
LEMMA KeptAll ==
    ASSUME NEW S, NEW s \in Seq(S)
    PROVE  Kept(s, S) = s
<1>1. Len(s) \in Nat /\ \A i \in 1..Len(s) : s[i] \in S
  BY LenProperties, ElementOfSeq
<1>2. PICK f : /\ Kept(s, S) = f[Len(s)] /\ f[0] = <<>>
               /\ \A i \in 1..Len(s) : f[i] = IF s[i] \in S THEN Append(f[i - 1], s[i]) ELSE f[i - 1]
  BY <1>1, KeptSteps
<1> DEFINE P == {n \in Nat : f[n] \in Seq(S) /\ Len(f[n]) = n /\ \A i \in 1..n : f[n][i] = s[i]}
<1>0. f[0] \in Seq(S) /\ Len(f[0]) = 0 /\ 1..0 = {}
  BY <1>2, EmptySeq
<1>3. 0 \in P
  BY <1>0
<1>4. ASSUME NEW n \in 0..(Len(s) - 1), n \in P PROVE n + 1 \in P
  <2>1. n + 1 \in 1..Len(s) /\ n + 1 - 1 = n /\ n + 1 \in Nat /\ n \in Nat
    BY <1>1
  <2>4. s[n + 1] \in S
    BY <1>1, <2>1
  <2>2. f[n + 1] = Append(f[n], s[n + 1])
    <3>1. f[n + 1] = IF s[n + 1] \in S THEN Append(f[n], s[n + 1]) ELSE f[n]
      BY <1>2, <2>1
    <3> QED
      BY <2>4, <3>1
  <2>3. f[n] \in Seq(S) /\ Len(f[n]) = n /\ \A i \in 1..n : f[n][i] = s[i]
    BY <1>4
  <2>5. /\ Append(f[n], s[n + 1]) \in Seq(S) /\ Len(Append(f[n], s[n + 1])) = Len(f[n]) + 1
        /\ \A i \in 1..Len(f[n]) : Append(f[n], s[n + 1])[i] = f[n][i]
        /\ Append(f[n], s[n + 1])[Len(f[n]) + 1] = s[n + 1]
    BY <2>3, <2>4, AppendProperties
  <2>6. ASSUME NEW i \in 1..(n + 1) PROVE f[n + 1][i] = s[i]
    <3>1. i \in 1..n \/ i = n + 1
      BY <2>1
    <3> QED
      BY <2>2, <2>3, <2>5, <3>1
  <2>7. f[n + 1] \in Seq(S) /\ Len(f[n + 1]) = n + 1
    BY <2>2, <2>3, <2>5
  <2> QED
    BY <2>1, <2>6, <2>7
<1>5. \A n \in 0..Len(s) : n \in P
  <2> HIDE DEF P
  <2> QED
    BY <1>1, <1>3, <1>4, Induct
<1>6. f[Len(s)] \in Seq(S) /\ Len(f[Len(s)]) = Len(s) /\ \A i \in 1..Len(s) : f[Len(s)][i] = s[i]
  BY <1>1, <1>5
<1>7. f[Len(s)] = s
  BY <1>6, SeqEqual
<1> QED
  BY <1>2, <1>7

\* from..to, one after the other.
LEMMA UpToType ==
    ASSUME NEW from \in Int, NEW to \in Int
    PROVE  /\ UpTo(from, to) \in Seq(from..to) /\ Len(UpTo(from, to)) = AtLeast(to - from + 1, 0)
           /\ \A i \in 1..Len(UpTo(from, to)) : UpTo(from, to)[i] = from + i - 1
<1> DEFINE n == AtLeast(to - from + 1, 0)
           u == [i \in 1..n |-> from + i - 1]
<1>1. n \in Nat
  BY DEF AtLeast
<1>2. \A i \in 1..n : from + i - 1 \in from..to
  BY DEF AtLeast
<1>3. u = UpTo(from, to)
  BY DEF UpTo
<1>4. u \in Seq(from..to) /\ Len(u) = n
  <2> HIDE DEF n
  <2> QED
    BY <1>1, <1>2
<1> QED
  BY <1>3, <1>4

\* The numbers of n results.
LEMMA UpToOne ==
    ASSUME NEW n \in Nat
    PROVE  UpTo(1, n) \in Seq(1..n) /\ Len(UpTo(1, n)) = n /\ \A i \in 1..n : UpTo(1, n)[i] = i
<1>1. 1 \in Int /\ n \in Int /\ AtLeast(n - 1 + 1, 0) = n /\ \A i \in 1..n : 1 + i - 1 = i
  BY DEF AtLeast
<1>2. /\ UpTo(1, n) \in Seq(1..n) /\ Len(UpTo(1, n)) = AtLeast(n - 1 + 1, 0)
      /\ \A i \in 1..Len(UpTo(1, n)) : UpTo(1, n)[i] = 1 + i - 1
  BY <1>1, UpToType, Zenon
<1> QED
  BY <1>1, <1>2

\* A slice starts after the first a elements and has c, or as many as there are.
LEMMA SliceType ==
    ASSUME NEW T, NEW s \in Seq(T), NEW a \in Nat, NEW c \in Nat
    PROVE  /\ Slice(s, a, c) \in Seq(T)
           /\ Len(Slice(s, a, c)) = AtLeast(AtMost(a + c, Len(s)) - a, 0)
           /\ \A i \in 1..Len(Slice(s, a, c)) : Slice(s, a, c)[i] = s[a + i]
<1> DEFINE z == AtMost(a + c, Len(s))
<1>1. Len(s) \in Nat /\ \A i \in 1..Len(s) : s[i] \in T
  BY LenProperties, ElementOfSeq
<1>2. z \in Nat /\ z <= Len(s)
  BY <1>1 DEF AtMost
<1>3. Slice(s, a, c) = SubSeq(s, a + 1, z)
  BY DEF Slice
<1> HIDE DEF z
<1>4. \A i \in (a + 1)..z : s[i] \in T
  BY <1>1, <1>2
<1>5. a + 1 \in Int /\ z \in Int
  BY <1>2
<1>6. /\ SubSeq(s, a + 1, z) \in Seq(T)
      /\ Len(SubSeq(s, a + 1, z)) = IF a + 1 <= z THEN z - (a + 1) + 1 ELSE 0
      /\ \A i \in 1..(z - (a + 1) + 1) : SubSeq(s, a + 1, z)[i] = s[a + 1 + i - 1]
  BY <1>4, <1>5, SubSeqProperties
<1>7. Len(SubSeq(s, a + 1, z)) = AtLeast(z - a, 0)
  BY <1>2, <1>6 DEF AtLeast
<1>8. \A i \in 1..Len(SubSeq(s, a + 1, z)) : i \in 1..(z - (a + 1) + 1) /\ a + 1 + i - 1 = a + i
  BY <1>2, <1>7 DEF AtLeast
<1>9. \A i \in 1..Len(SubSeq(s, a + 1, z)) : SubSeq(s, a + 1, z)[i] = s[a + i]
  BY <1>6, <1>8
<1> QED
  BY <1>3, <1>6, <1>7, <1>9 DEF z

\* What is cut from the front of what is left behind the first b elements.
LEMMA CutTwice ==
    ASSUME NEW T, NEW s \in Seq(T), NEW b \in Nat, NEW m \in Nat
    PROVE  LET rest == SubSeq(s, b + 1, Len(s)) IN
           /\ rest \in Seq(T)
           /\ SubSeq(rest, 1, AtMost(m, Len(rest))) = Slice(s, b, m)
<1> DEFINE rest == SubSeq(s, b + 1, Len(s))
           cut == SubSeq(rest, 1, AtMost(m, Len(rest)))
           L == Len(s)
<1>1. Len(s) \in Nat /\ \A i \in 1..Len(s) : s[i] \in T
  BY LenProperties, ElementOfSeq
<1>2. rest = Slice(s, b, L)
  BY <1>1 DEF Slice, AtMost
<1>3. rest \in Seq(T) /\ Len(rest) = AtLeast(L - b, 0) /\ \A i \in 1..Len(rest) : rest[i] = s[b + i]
  <2>1. AtMost(b + L, L) = L
    BY <1>1 DEF AtMost
  <2>2. /\ Slice(s, b, L) \in Seq(T) /\ Len(Slice(s, b, L)) = AtLeast(AtMost(b + L, L) - b, 0)
        /\ \A i \in 1..Len(Slice(s, b, L)) : Slice(s, b, L)[i] = s[b + i]
    BY <1>1, SliceType
  <2> QED
    BY <1>2, <2>1, <2>2
<1> HIDE DEF rest
<1>4. cut = Slice(rest, 0, m)
  <2>1. 0 + m = m /\ 0 + 1 = 1
    OBVIOUS
  <2> QED
    BY <2>1 DEF Slice
<1>5. cut \in Seq(T) /\ Len(cut) = AtLeast(AtMost(0 + m, Len(rest)) - 0, 0) /\ \A i \in 1..Len(cut) : cut[i] = rest[0 + i]
  <2>1. /\ Slice(rest, 0, m) \in Seq(T) /\ Len(Slice(rest, 0, m)) = AtLeast(AtMost(0 + m, Len(rest)) - 0, 0)
        /\ \A i \in 1..Len(Slice(rest, 0, m)) : Slice(rest, 0, m)[i] = rest[0 + i]
    BY <1>3, SliceType
  <2> HIDE DEF cut
  <2> QED
    BY <1>4, <2>1
<1>6. /\ Slice(s, b, m) \in Seq(T) /\ Len(Slice(s, b, m)) = AtLeast(AtMost(b + m, L) - b, 0)
      /\ \A i \in 1..Len(Slice(s, b, m)) : Slice(s, b, m)[i] = s[b + i]
  BY SliceType
<1> HIDE DEF cut
<1>7. Len(cut) = Len(Slice(s, b, m)) /\ Len(cut) \in Nat /\ Len(cut) <= Len(rest)
  BY <1>1, <1>3, <1>5, <1>6 DEF AtLeast, AtMost
<1>8. ASSUME NEW i \in 1..Len(cut) PROVE cut[i] = Slice(s, b, m)[i]
  <2>1. i \in 1..Len(rest) /\ 0 + i = i
    BY <1>3, <1>7, LenProperties
  <2>2. cut[i] = rest[i] /\ rest[i] = s[b + i]
    BY <1>3, <1>5, <2>1
  <2>3. Slice(s, b, m)[i] = s[b + i]
    BY <1>6, <1>7
  <2> QED
    BY <2>2, <2>3
<1>9. cut = Slice(s, b, m)
  BY <1>5, <1>6, <1>7, <1>8, SeqEqual
<1> QED
  BY <1>3, <1>9 DEF rest, cut

\* Slices from the same place on, that end at the same place or behind the end.
LEMMA SameSlice ==
    ASSUME NEW T, NEW s \in Seq(T), NEW a \in Nat, NEW c \in Nat, NEW b \in Nat, NEW m \in Nat,
           a # b => a >= Len(s) /\ b >= Len(s),
           AtMost(a + c, Len(s)) # AtMost(b + m, Len(s)) => AtMost(a + c, Len(s)) <= a /\ AtMost(b + m, Len(s)) <= b
    PROVE  Slice(s, a, c) = Slice(s, b, m)
<1>1. Len(s) \in Nat
  BY LenProperties
<1>2. /\ Slice(s, a, c) \in Seq(T) /\ Len(Slice(s, a, c)) = AtLeast(AtMost(a + c, Len(s)) - a, 0)
      /\ \A i \in 1..Len(Slice(s, a, c)) : Slice(s, a, c)[i] = s[a + i]
  BY SliceType
<1>3. /\ Slice(s, b, m) \in Seq(T) /\ Len(Slice(s, b, m)) = AtLeast(AtMost(b + m, Len(s)) - b, 0)
      /\ \A i \in 1..Len(Slice(s, b, m)) : Slice(s, b, m)[i] = s[b + i]
  BY SliceType
<1>4. Len(Slice(s, a, c)) = Len(Slice(s, b, m)) /\ (a # b => Len(Slice(s, a, c)) = 0)
  <2> DEFINE y == AtMost(a + c, Len(s))  z == AtMost(b + m, Len(s))
  <2>1. y \in Nat /\ z \in Nat /\ y <= Len(s) /\ z <= Len(s)
    BY <1>1 DEF AtMost
  <2> HIDE DEF y, z
  <2>2. a # b => y <= a /\ z <= b
    BY <1>1, <2>1
  <2>3. a = b => y = z \/ (y <= a /\ z <= b)
    BY DEF y, z
  <2>4. AtLeast(y - a, 0) = AtLeast(z - b, 0) /\ (a # b => AtLeast(y - a, 0) = 0)
    BY <2>1, <2>2, <2>3 DEF AtLeast
  <2> QED
    BY <1>2, <1>3, <2>4 DEF y, z
<1>5. \A i \in 1..Len(Slice(s, a, c)) : Slice(s, a, c)[i] = Slice(s, b, m)[i]
  <2>1. CASE a = b
    BY <1>2, <1>3, <1>4, <2>1
  <2>2. CASE a # b
    BY <1>4, <2>2
  <2> QED
    BY <2>1, <2>2
<1> QED
  BY <1>2, <1>3, <1>4, <1>5, SeqEqual

\* An int stays what it is, and anything else becomes one.
LEMMA WrapInt ==
    ASSUME NEW x \in Int
    PROVE  Wrap(x) \in int /\ (x \in int => Wrap(x) = x)
<1> DEFINE m == 2 * (IntMax + 1)  y == x - IntMin
<1>1. IntMax \in Nat
  BY PagingAssumption DEF PagingAssumption
<1>2. m \in Nat \ {0} /\ y \in Int
  BY <1>1, PagingAssumption DEF PagingAssumption, IntMin
<1>3. y % m \in 0..(m - 1) /\ (0 <= y /\ y < m => y % m = y)
  <2> HIDE DEF y, m
  <2> QED
    BY <1>2
<1>4. Wrap(x) = (y % m) + IntMin
  BY DEF Wrap
<1> HIDE DEF y
<1>5. \A z \in 0..(m - 1) : z + IntMin \in int
  BY <1>1 DEF int, IntMin
<1>6. x \in int => 0 <= y /\ y < m /\ y + IntMin = x
  BY <1>1 DEF y, int, IntMin
<1> QED
  BY <1>3, <1>4, <1>5, <1>6

\* ceil(a / b), rounded up to the next integer.
LEMMA CeilDivBounds ==
    ASSUME NEW a \in Int, NEW b \in Nat \ {0}
    PROVE  CeilDiv(a, b) \in Int /\ (CeilDiv(a, b) - 1) * b < a /\ a <= CeilDiv(a, b) * b
<1> DEFINE d == (-a) \div b
<1>1. d \in Int /\ d * b <= -a /\ -a < d * b + b
  OBVIOUS
<1>2. CeilDiv(a, b) = -d
  BY DEF CeilDiv
<1> HIDE DEF d
<1>3. (-d) * b = -(d * b) /\ ((-d) - 1) * b = -(d * b) - b
  BY <1>1
<1>4. d * b \in Int
  BY <1>1
<1> QED
  BY <1>1, <1>2, <1>3, <1>4

\* No other number is rounded up to.
LEMMA CeilUnique ==
    ASSUME NEW a \in Int, NEW b \in Nat \ {0}, NEW c \in Int, NEW d \in Int,
           (c - 1) * b < a, a <= c * b, (d - 1) * b < a, a <= d * b
    PROVE  c = d
<1>1. (c - 1) * b = c * b - b /\ (d - 1) * b = d * b - b
  OBVIOUS
<1>2. c * b - b < d * b /\ d * b - b < c * b
  BY <1>1
<1>3. ~(c <= d - 1) /\ ~(d <= c - 1)
  BY <1>1, <1>2
<1> QED
  BY <1>3

\* A quotient is an int, whatever is divided, and the one that is expected where
\* the division makes sense.
LEMMA QuotientInt ==
    ASSUME NEW a, NEW b
    PROVE  Quotient(a, b) \subseteq int
<1>1. {IntMin, 0, IntMax} \subseteq int
  BY PagingAssumption DEF PagingAssumption, int, IntMin
<1> QED
  BY <1>1 DEF Quotient

\* The division that makes sense.
LEMMA QuotientIs ==
    ASSUME NEW a \in Int, NEW b \in Nat \ {0}, NEW c \in int, (c - 1) * b < a, a <= c * b
    PROVE  Quotient(a, b) = {c}
<1>1. c \in Int
  BY PagingAssumption DEF PagingAssumption, int, IntMin
<1>2. CeilDiv(a, b) = c
  BY <1>1, CeilDivBounds, CeilUnique
<1>3. b # 0
  OBVIOUS
<1> QED
  BY <1>2, <1>3 DEF Quotient

\* Parts one after the other that cover the n results, none of them longer than
\* the share of the parts from it on.
LEMMA Parts ==
    ASSUME NEW n \in Nat, NEW g \in Nat \ {0}, NEW i \in 1..g
    PROVE  /\ PartStart(i, n, g) \in Nat /\ PartSize(i, n, g) \in Nat
           /\ PartStart(i, n, g) + PartSize(i, n, g) <= n
           /\ PartStart(1, n, g) = 0
           /\ PartStart(i + 1, n, g) = PartStart(i, n, g) + PartSize(i, n, g)
           /\ (PartSize(i, n, g) - 1) * (g - (i - 1)) < n - PartStart(i, n, g)
           /\ n - PartStart(i, n, g) <= PartSize(i, n, g) * (g - (i - 1))
           /\ PartSize(i, n, g) = 0 => PartStart(i, n, g) = n
<1> DEFINE q == n \div g  r == n % g
<1>1. q \in Nat /\ r \in 0..(g - 1) /\ n = q * g + r
  <2>1. q \in Nat /\ r \in 0..(g - 1)
    OBVIOUS
  <2>2. r = n - q * g
    BY SMTT(60)
  <2>3. q * g \in Int
    BY <2>1
  <2> QED
    BY <2>1, <2>2, <2>3
<1> DEFINE P == PartStart(i, n, g)  Z == PartSize(i, n, g)
<1>2. P = (i - 1) * q + (IF i - 1 > r THEN r ELSE i - 1) /\ Z = q + (IF i <= r THEN 1 ELSE 0)
  BY DEF PartStart, PartSize, AtMost
<1>3. PartStart(i + 1, n, g) = (i + 1 - 1) * q + (IF i + 1 - 1 > r THEN r ELSE i + 1 - 1)
  BY DEF PartStart, AtMost
<1>4. PartStart(1, n, g) = (1 - 1) * q + (IF 1 - 1 > r THEN r ELSE 1 - 1)
  BY DEF PartStart, AtMost
<1> HIDE DEF q, r, P, Z
<1>5. /\ (i - 1) * q = i * q - q /\ (i + 1 - 1) * q = i * q /\ (1 - 1) * q = 0
      /\ q * (g - (i - 1)) = q * g - i * q + q
      /\ (q + 1) * (g - (i - 1)) = q * g - i * q + q + (g - (i - 1))
      /\ (q - 1) * (g - (i - 1)) = q * g - i * q + q - (g - (i - 1))
      /\ (q + 1 - 1) * (g - (i - 1)) = q * g - i * q + q
  BY <1>1
<1>6. i * q \in Nat /\ q * g \in Nat /\ i * q - q >= 0 /\ q * g - i * q >= 0
  <2>1. i * q \in Nat /\ q * g \in Nat
    BY <1>1
  <2>2. (i - 1) * q \in Nat /\ q * (g - i) \in Nat /\ q * (g - i) = q * g - i * q
    BY <1>1
  <2> QED
    BY <1>5, <2>1, <2>2
<1>7. CASE i <= r
  <2>1. P = i * q - q + (i - 1) /\ Z = q + 1
    BY <1>1, <1>2, <1>5, <1>7
  <2>2. PartStart(i + 1, n, g) = i * q + i
    BY <1>1, <1>3, <1>5, <1>7
  <2>3. PartStart(1, n, g) = 0
    BY <1>1, <1>4, <1>5
  <2>4. P \in Nat /\ Z \in Nat /\ P + Z <= n /\ PartStart(i + 1, n, g) = P + Z /\ Z # 0
    BY <1>1, <1>6, <1>7, <2>1, <2>2
  <2>5. Z * (g - (i - 1)) = q * g - i * q + q + (g - (i - 1)) /\ (Z - 1) * (g - (i - 1)) = q * g - i * q + q
    <3>1. Z - 1 = q
      BY <1>1, <2>1
    <3>2. Z * (g - (i - 1)) = q * g - i * q + q + (g - (i - 1))
      BY <1>5, <2>1
    <3> QED
      BY <1>5, <3>1, <3>2
  <2>6. (Z - 1) * (g - (i - 1)) < n - P /\ n - P <= Z * (g - (i - 1))
    BY <1>1, <1>6, <1>7, <2>1, <2>5
  <2> QED
    BY <2>3, <2>4, <2>6 DEF P, Z
<1>8. CASE i > r
  <2>1. P = i * q - q + r /\ Z = q
    BY <1>1, <1>2, <1>5, <1>8
  <2>2. PartStart(i + 1, n, g) = i * q + r
    BY <1>1, <1>3, <1>5, <1>8
  <2>3. PartStart(1, n, g) = 0
    BY <1>1, <1>4, <1>5
  <2>4. P \in Nat /\ Z \in Nat /\ P + Z <= n /\ PartStart(i + 1, n, g) = P + Z
    BY <1>1, <1>6, <1>8, <2>1, <2>2
  <2>5. Z * (g - (i - 1)) = q * g - i * q + q /\ (Z - 1) * (g - (i - 1)) = q * g - i * q + q - (g - (i - 1))
    BY <1>5, <2>1
  <2>6. (Z - 1) * (g - (i - 1)) < n - P /\ n - P <= Z * (g - (i - 1))
    BY <1>1, <1>6, <1>8, <2>1, <2>5
  <2>7. Z = 0 => P = n
    BY <1>1, <1>5, <2>1
  <2> QED
    BY <2>3, <2>4, <2>6, <2>7 DEF P, Z
<1> QED
  BY <1>1, <1>7, <1>8

\* ceil(a / b) of what is not positive.
LEMMA CeilNotPositive ==
    ASSUME NEW a \in Int, a <= 0, NEW b \in Nat \ {0}
    PROVE  CeilDiv(a, b) \in Int /\ a <= CeilDiv(a, b) /\ CeilDiv(a, b) <= 0
<1> DEFINE c == CeilDiv(a, b)
<1>1. c \in Int /\ (c - 1) * b < a /\ a <= c * b
  BY CeilDivBounds
<1> HIDE DEF c
<1>2. ~(c >= 1)
  <2> SUFFICES ASSUME c >= 1 PROVE FALSE
    OBVIOUS
  <2>1. (c - 1) * b >= 0
    BY <1>1
  <2> QED
    BY <1>1, <2>1
<1>3. c * b <= c
  <2>1. (-c) \in Nat /\ (-c) * (b - 1) \in Nat /\ (-c) * (b - 1) = c - c * b
    BY <1>1, <1>2
  <2>2. c * b \in Int
    BY <1>1
  <2> QED
    BY <1>1, <2>1, <2>2
<1>4. c * b \in Int
  BY <1>1
<1> QED
  BY <1>1, <1>2, <1>3, <1>4 DEF c

-----------------------------------------------------------------------------
\* The options and the window are ints, and the results are no more than INT_MAX.
LEMMA Ints ==
    ASSUME PagingTypeOK
    PROVE  /\ IntMax \in Nat \ {0} /\ IntMin = -IntMax - 1 /\ int = IntMin..IntMax
           /\ size \in Nat /\ DOMAIN nodes = 1..size
           /\ options \in Options /\ options \in Option
           /\ options.skip \in int /\ options.groups \in int /\ options.paginate \in int /\ options.page \in int
           /\ skip_ \in int /\ paginate_ \in int /\ page_ \in int
           /\ options.filter \in BOOLEAN
           /\ options.sortType \in {"None", "Reverse", "Shuffle", "Specific"}
<1>1. options \in Options /\ options \in Option /\ nodes \in Seq(Node)
  BY PagingAssumption DEF PagingTypeOK, PagingAssumption
<1>2. size \in Nat /\ DOMAIN nodes = 1..size
  BY <1>1, LenProperties DEF size
<1>3. skip_ \in int /\ paginate_ \in int /\ page_ \in int
  BY DEF PagingTypeOK
<1> QED
  BY <1>1, <1>2, <1>3, PagingAssumption DEF PagingAssumption, Option, int, IntMin

\* A correction leaves an int within the ints.
LEMMA AtLeastInt ==
    ASSUME NEW x \in int, NEW low \in {0, 1}
    PROVE  AtLeast(x, low) \in int /\ AtLeast(x, low) >= low
  BY PagingAssumption DEF PagingAssumption, AtLeast, int, IntMin

\* The results after a step that leaves them and the options alone.
LEMMA SameResults ==
    ASSUME options' = options, nodes' = nodes
    PROVE  /\ size' = size /\ Remaining' = Remaining
           /\ \A x : Plain(x)' <=> Plain(x)
  BY DEF size, Remaining, Plain

\* Before the first query.
LEMMA PagingInitInv ==
    PagingInit => PagingInv
<1> SUFFICES ASSUME PagingInit PROVE PagingInv
  OBVIOUS
<1>1. nodes = <<>> /\ size = 0 /\ <<>> \in Seq(Node) /\ <<>> \in Seq(Nat)
  BY EmptySeq DEF PagingInit, size
<1>2. options \in Option /\ options \in Options /\ IntMax \in Nat
  BY PagingAssumption DEF PagingInit, PagingAssumption
<1>3. options.skip \in int /\ options.paginate \in int /\ 0 \in int
  BY <1>2 DEF Option, int, IntMin
<1>4. PagingTypeOK
  BY <1>1, <1>2, <1>3 DEF PagingInit, PagingTypeOK
<1>5. ResultsInv
  BY <1>1, <1>2 DEF ResultsInv
<1> QED
  BY <1>4, <1>5 DEF PagingInv, PagingInit, Unasked

\* The start of query: whatever the window of the query before was, it is forgotten.
LEMMA QueryInv ==
    ASSUME PagingInv, query
    PROVE  PagingInv'
<1>1. PICK r \in Results(options) : Enter(options, r)
  BY DEF query
<1>2. PagingTypeOK
  BY DEF PagingInv
<1> USE Ints, <1>2
<1>3. r \in Lists(options) /\ r \in Seq(Node) /\ Len(r) <= IntMax /\ (~options.filter => \A i \in DOMAIN r : r[i].match)
  BY PagingAssumption DEF PagingAssumption, Results
<1>4. size' = Len(r) /\ nodes' = r /\ options' = options /\ DOMAIN r = 1..Len(r)
  BY <1>1, <1>3, LenProperties DEF size, Enter, query
<1>5. AtLeast(options.page, 1) \in int /\ 0 \in int
  BY AtLeastInt
<1>6. PagingTypeOK'
  <2>1. <<>> \in Seq(Nat)
    BY EmptySeq
  <2> QED
    BY <1>1, <1>3, <1>4, <1>5, <2>1 DEF Enter, query, PagingTypeOK
<1>7. ResultsInv'
  BY <1>3, <1>4 DEF ResultsInv
<1>8. PagesInv'
  BY <1>1, <1>4 DEF PagesInv, Enter
<1>9. GroupsInv'
  <2>1. options.groups >= 1 => at' = "groups" /\ j' = 0 /\ skip_' = options.skip
    BY <1>1 DEF Enter
  <2>2. options.groups >= 1 /\ options.page >= 1 => page_' = options.page
    BY <1>1 DEF Enter, AtLeast, int, IntMin
  <2> QED
    BY <1>4, <2>1, <2>2 DEF GroupsInv
<1>10. WindowInv'
  BY <1>1 DEF WindowInv, Enter
<1> QED
  BY <1>6, <1>7, <1>8, <1>9, <1>10 DEF PagingInv

\* A step between the first and the last of a query.
LEMMA Asked ==
    ASSUME PagingInv, at # "done"
    PROVE  PagingTypeOK /\ ResultsInv /\ PagesInv /\ GroupsInv /\ WindowInv
  BY DEF PagingInv, Unasked

\* A turn of the loop goes from part j to part j + 1, or stays behind the end.
LEMMA GroupLoopInv ==
    ASSUME PagingInv, GroupLoop
    PROVE  PagingInv'
<1>1. at = "groups" /\ at' = "groups" /\ j < page_ /\ j' = j + 1 /\ page_' = page_ /\ options' = options /\ nodes' = nodes
  BY DEF GroupLoop
<1>2. PagingTypeOK /\ ResultsInv /\ PagesInv /\ GroupsInv /\ WindowInv
  BY <1>1, Asked
<1>3. size' = size /\ Remaining' = Remaining /\ \A x : Plain(x)' <=> Plain(x)
  BY <1>1, SameResults
<1>4. /\ IntMax \in Nat \ {0} /\ int = (-IntMax - 1)..IntMax /\ size \in Nat /\ size <= IntMax /\ j \in Nat
      /\ skip_ \in int /\ paginate_ \in int /\ options.skip \in int /\ options.groups \in int /\ options.page \in int
  BY <1>2, Ints DEF PagingTypeOK, ResultsInv
<1>5. skip_' \in int /\ skip_' = IF j > 0 THEN Wrap(skip_ + paginate_) ELSE skip_
  BY <1>4, WrapInt DEF GroupLoop
<1>6. paginate_' \in int /\ paginate_' \in Quotient(Wrap(size - skip_'), Share(j))
  BY QuotientInt DEF GroupLoop
<1>7. PagingTypeOK'
  BY <1>1, <1>2, <1>4, <1>5, <1>6 DEF PagingTypeOK, GroupLoop
<1>8. ResultsInv'
  BY <1>1, <1>2, <1>3 DEF ResultsInv
<1>9. PagesInv'
  BY <1>1, <1>2 DEF PagesInv
<1>10. WindowInv'
  BY <1>1 DEF WindowInv
<1>11. GroupsInv'
  <2> DEFINE p == options.page  g == options.groups  n == Remaining
  <2> SUFFICES ASSUME Plain(size + 1), g >= 1, 1 <= p, p <= g
               PROVE  page_ = p /\ j' <= p /\ InPart(j)'
    BY <1>1, <1>3, <1>4 DEF GroupsInv
  <2>1. page_ = p /\ j + 1 <= p /\ (j = 0 => skip_ = options.skip) /\ (j > 0 => InPart(j))
    BY <1>1, <1>2, <1>4 DEF GroupsInv
  <2>2. options.skip >= 0 /\ options.skip + size + 1 <= IntMax
    BY <1>4 DEF Plain
  <2>3. Share(j) = g - j /\ Share(j) \in Nat \ {0}
    BY <1>4, <2>1 DEF Share
  <2>4. CASE size <= options.skip
    <3>1. size <= skip_' /\ skip_' <= options.skip
      <4>1. CASE j = 0
        BY <1>4, <1>5, <2>1, <2>4, <4>1
      <4>2. CASE j > 0
        <5>1. size <= skip_ /\ skip_ <= options.skip /\ size - skip_ <= paginate_ /\ paginate_ <= 0
          BY <2>1, <2>4, <4>2 DEF InPart
        <5>2. skip_ + paginate_ \in int /\ skip_ + paginate_ \in Int
          BY <1>4, <5>1
        <5>3. skip_' = skip_ + paginate_
          BY <1>5, <4>2, <5>2, WrapInt
        <5> QED
          BY <1>4, <5>1, <5>3
      <4> QED
        BY <1>4, <4>1, <4>2
    <3>2. size - skip_' \in int /\ size - skip_' \in Int /\ size - skip_' <= 0
      BY <1>4, <1>5, <3>1
    <3>3. Wrap(size - skip_') = size - skip_'
      BY <3>2, WrapInt
    <3> DEFINE c == CeilDiv(size - skip_', Share(j))
    <3>4. c \in Int /\ size - skip_' <= c /\ c <= 0
      BY <2>3, <3>2, CeilNotPositive
    <3>5. c \in int
      BY <1>4, <3>2, <3>4
    <3>6. paginate_' = c
      <4>1. Share(j) # 0
        BY <2>3
      <4> QED
        BY <1>6, <3>3, <3>5, <4>1 DEF Quotient
    <3> HIDE DEF c
    <3> QED
      BY <1>1, <1>3, <2>1, <2>4, <3>1, <3>4, <3>6 DEF InPart
  <2>5. CASE size > options.skip
    <3>1. n = size - options.skip /\ n \in Nat /\ g \in Nat \ {0} /\ j + 1 \in 1..g
      <4>1. size - options.skip \in Nat
        BY <1>4, <2>5
      <4>2. n = size - options.skip
        BY <4>1 DEF Remaining, AtLeast
      <4>3. g \in Nat \ {0} /\ j + 1 \in 1..g
        BY <1>4, <2>1
      <4> QED
        BY <4>1, <4>2, <4>3
    <3> HIDE DEF n
    <3> DEFINE P == PartStart(j + 1, n, g)  Z == PartSize(j + 1, n, g)
    <3>2. P \in Nat /\ Z \in Nat /\ P + Z <= n /\ PartStart(1, n, g) = 0
      BY <3>1, Parts
    <3>6. (Z - 1) * Share(j) < n - P /\ n - P <= Z * Share(j)
      <4>1. \A i \in 1..g : /\ (PartSize(i, n, g) - 1) * (g - (i - 1)) < n - PartStart(i, n, g)
                           /\ n - PartStart(i, n, g) <= PartSize(i, n, g) * (g - (i - 1))
        <5> HIDE DEF g
        <5> QED
          BY <3>1, Parts
      <4>2. PICK i \in 1..g : i = j + 1
        BY <3>1
      <4>3. Share(j) = g - (i - 1)
        BY <1>4, <2>3, <3>1, <4>2
      <4> HIDE DEF g
      <4>4. P = PartStart(i, n, g) /\ Z = PartSize(i, n, g)
        BY <4>2
      <4> HIDE DEF P, Z
      <4> QED
        BY <4>1, <4>3, <4>4, Zenon
    <3>3. skip_' = options.skip + P
      <4>1. CASE j = 0
        <5>1. P = PartStart(1, n, g)
          BY <4>1
        <5> QED
          BY <1>4, <1>5, <2>1, <3>2, <4>1, <5>1
      <4>2. CASE j > 0
        <5>1. skip_ = options.skip + PartStart(j, n, g) /\ paginate_ = PartSize(j, n, g)
          BY <1>4, <2>1, <2>5, <4>2 DEF InPart, n
        <5>2. j \in 1..g
          BY <1>4, <3>1, <4>2
        <5>3. P = PartStart(j, n, g) + PartSize(j, n, g) /\ PartStart(j, n, g) \in Nat /\ PartSize(j, n, g) \in Nat
          BY <3>1, <5>2, Parts
        <5>4. skip_ + paginate_ = options.skip + P
          <6> DEFINE A == PartStart(j, n, g)  B == PartSize(j, n, g)
          <6>1. /\ options.skip \in Int /\ A \in Int /\ B \in Int /\ P = A + B
                /\ skip_ = options.skip + A /\ paginate_ = B
            BY <1>4, <5>1, <5>3
          <6> HIDE DEF P, A, B
          <6> QED
            BY <6>1
        <5>5. options.skip + P \in int /\ options.skip + P \in Int
          <6>1. options.skip \in Nat /\ size \in Nat /\ size <= IntMax /\ IntMax \in Nat /\ n = size - options.skip
            BY <1>4, <2>2, <3>1
          <6>2. P \in Nat /\ Z \in Nat /\ P + Z <= n
            BY <3>2
          <6> HIDE DEF P, Z
          <6>3. options.skip + P \in Int /\ -IntMax - 1 <= options.skip + P /\ options.skip + P <= IntMax
            BY <6>1, <6>2
          <6> QED
            BY <1>4, <6>1, <6>3
        <5> QED
          BY <1>5, <4>2, <5>4, <5>5, WrapInt
      <4> QED
        BY <1>4, <4>1, <4>2
    <3> HIDE DEF P, Z
    <3>4. size - skip_' = n - P /\ n - P \in int /\ n - P \in Int /\ Z \in int
      <4>1. n - P \in 0..IntMax /\ Z \in 0..IntMax
        <5>1. n <= IntMax
          BY <1>4, <2>2, <3>1
        <5>2. IntMax \in Nat
          BY <1>4
        <5> QED
          BY <3>1, <3>2, <5>1, <5>2
      <4>2. size - skip_' = n - P
        BY <1>4, <3>1, <3>2, <3>3
      <4> QED
        BY <1>4, <4>1, <4>2
    <3>5. Wrap(size - skip_') = n - P
      BY <3>4, WrapInt
    <3>7. paginate_' = Z
      <4>1. (Z - 1) * Share(j) < n - P /\ n - P <= Z * Share(j)
        BY <3>6
      <4>2. Quotient(n - P, Share(j)) = {Z}
        BY <2>3, <3>4, <4>1, QuotientIs
      <4> QED
        BY <1>6, <3>5, <4>2
    <3> QED
      BY <1>1, <1>3, <1>4, <2>1, <2>5, <3>3, <3>7 DEF InPart, P, Z, n
  <2> QED
    BY <1>4, <2>4, <2>5
<1> QED
  BY <1>7, <1>8, <1>9, <1>10, <1>11 DEF PagingInv

\* After page_ turns the window is that of the page's part.
LEMMA GroupLoopEndsInv ==
    ASSUME PagingInv, GroupLoopEnds
    PROVE  PagingInv'
<1>1. /\ at = "groups" /\ at' = "window" /\ j >= page_ /\ j' = j /\ page_' = page_ /\ options' = options /\ nodes' = nodes
      /\ skip_' = skip_ /\ paginate_' = paginate_
  BY DEF GroupLoopEnds
<1>2. PagingTypeOK /\ ResultsInv /\ PagesInv /\ GroupsInv /\ WindowInv
  BY <1>1, Asked
<1>3. size' = size /\ Remaining' = Remaining /\ \A x : Plain(x)' <=> Plain(x)
  BY <1>1, SameResults
<1>4. PagingTypeOK'
  BY <1>1, <1>2 DEF PagingTypeOK, GroupLoopEnds
<1>5. ResultsInv'
  BY <1>1, <1>2, <1>3 DEF ResultsInv
<1>6. PagesInv'
  BY <1>1, <1>2 DEF PagesInv
<1>7. WindowInv'
  BY <1>1 DEF WindowInv
<1>8. GroupsInv'
  <2> SUFFICES ASSUME Plain(size + 1), options.groups >= 1, 1 <= options.page, options.page <= options.groups
               PROVE  InPart(options.page)'
    BY <1>1, <1>3 DEF GroupsInv
  <2>1. page_ = options.page /\ j <= page_ /\ (j > 0 => InPart(j))
    BY <1>1, <1>2, Ints DEF GroupsInv, PagingTypeOK
  <2>2. j = options.page /\ j > 0
    BY <1>1, <1>2, <2>1, Ints DEF PagingTypeOK
  <2> QED
    BY <1>1, <1>3, <2>1, <2>2 DEF InPart
<1> QED
  BY <1>4, <1>5, <1>6, <1>7, <1>8 DEF PagingInv

\* The start of a page: neither product nor sum wraps around where the options
\* are plain, and the last page is the one that the last result is on.
LEMMA PageStartInv ==
    ASSUME PagingInv, PageStart
    PROVE  PagingInv'
<1>1. at = "pages" /\ at' = "window" /\ j' = j /\ paginate_' = paginate_ /\ options' = options /\ nodes' = nodes
  BY DEF PageStart
<1>2. PagingTypeOK /\ ResultsInv /\ PagesInv /\ GroupsInv /\ WindowInv
  BY <1>1, Asked
<1>3. size' = size /\ Remaining' = Remaining /\ \A x : Plain(x)' <=> Plain(x)
  BY <1>1, SameResults
<1>4. /\ IntMax \in Nat \ {0} /\ int = (-IntMax - 1)..IntMax /\ size \in Nat /\ size <= IntMax
      /\ skip_ \in int /\ paginate_ \in int /\ page_ \in int /\ options.skip \in int /\ options.paginate \in int /\ options.page \in int
  BY <1>2, Ints DEF ResultsInv
<1>5. PICK q \in (IF page_ = -1 THEN LastPage ELSE {page_}) : page_' = AtLeast(q, 1)
  BY DEF PageStart
<1>6. q \in int /\ page_' \in int
  <2>1. q \in int
    BY <1>4, <1>5, QuotientInt DEF LastPage
  <2> QED
    BY <1>5, <2>1, AtLeastInt
<1>7. skip_' = Wrap(skip_ + Wrap((page_' - 1) * paginate_))
  BY DEF PageStart
<1>8. skip_' \in int
  <2>1. (page_' - 1) * paginate_ \in Int
    BY <1>4, <1>6
  <2>2. Wrap((page_' - 1) * paginate_) \in int
    BY <2>1, WrapInt
  <2>3. skip_ + Wrap((page_' - 1) * paginate_) \in Int
    BY <1>4, <2>2
  <2> QED
    BY <1>7, <2>3, WrapInt
<1>9. PagingTypeOK'
  BY <1>1, <1>2, <1>6, <1>8 DEF PagingTypeOK, PageStart
<1>10. ResultsInv'
  BY <1>1, <1>2, <1>3 DEF ResultsInv
<1>11. WindowInv'
  BY <1>1 DEF WindowInv
<1>12. GroupsInv'
  BY <1>1, <1>2, <1>3 DEF GroupsInv
<1>13. PagesInv'
  <2> DEFINE p == options.page  n == options.paginate
  <2> SUFFICES ASSUME options.groups = 0, n >= 1
               PROVE  /\ Plain(p * n) /\ p >= 1 => skip_' = options.skip + (p - 1) * n
                      /\ Plain(size + n) /\ p = -1 /\ options.skip < size => skip_' < size /\ size <= skip_' + n
    <3>1. options.groups = 0 => paginate_ = n
      BY <1>1, <1>2 DEF PagesInv
    <3> QED
      BY <1>1, <1>3, <3>1 DEF PagesInv
  <2>1. skip_ = options.skip /\ paginate_ = n /\ page_ = p
    BY <1>1, <1>2 DEF PagesInv
  <2>2. n \in Nat \ {0} /\ n \in int /\ p \in int /\ options.skip \in int
    BY <1>4
  <2> HIDE DEF p, n
  <2>3. ASSUME Plain(p * n), p >= 1 PROVE skip_' = options.skip + (p - 1) * n
    <3> DEFINE m == (p - 1) * n
    <3>1. page_' = p
      BY <1>4, <1>5, <2>1, <2>2, <2>3 DEF AtLeast
    <3>2. p \in Nat \ {0}
      BY <1>4, <2>2, <2>3
    <3>3. m \in Nat /\ p * n = m + n
      BY <2>2, <3>2
    <3>4. options.skip >= 0 /\ options.skip + p * n <= IntMax
      BY <2>3 DEF Plain
    <3> HIDE DEF m
    <3>5. m \in int /\ m \in Int /\ options.skip + m \in int /\ options.skip + m \in Int
      BY <1>4, <2>2, <3>3, <3>4
    <3>6. skip_' = Wrap(options.skip + Wrap(m))
      BY <1>7, <2>1, <3>1 DEF m
    <3> QED
      BY <3>5, <3>6, WrapInt DEF m
  <2>4. ASSUME Plain(size + n), p = -1, options.skip < size PROVE skip_' < size /\ size <= skip_' + n
    <3> DEFINE a == size - options.skip  c == CeilDiv(a, n)  m == (c - 1) * n
    <3>1. options.skip >= 0 /\ options.skip \in Int
      BY <1>4, <2>4 DEF Plain
    <3>2. a \in int /\ a \in Nat \ {0} /\ a <= size
      BY <1>4, <2>4, <3>1
    <3> HIDE DEF a
    <3>3. c \in Int /\ m < a /\ a <= c * n
      <4>1. a \in Int
        BY <3>2
      <4>2. c \in Int /\ (c - 1) * n < a /\ a <= c * n
        BY <2>2, <4>1, CeilDivBounds
      <4> QED
        BY <4>2
    <3> HIDE DEF c
    <3>4. c * n = m + n /\ m \in Int
      BY <2>2, <3>3
    <3>5. c >= 1
      <4> SUFFICES ASSUME c <= 0 PROVE FALSE
        BY <3>3
      <4>1. c * n <= 0
        BY <2>2, <3>3
      <4>2. c * n \in Int
        BY <2>2, <3>3
      <4> QED
        BY <3>2, <3>3, <4>1, <4>2
    <3>6. m >= 0 /\ c - 1 <= m
      <4>1. c - 1 \in Nat /\ n - 1 \in Nat /\ (c - 1) * (n - 1) \in Nat /\ m = (c - 1) * (n - 1) + (c - 1)
        BY <2>2, <3>3, <3>5
      <4> QED
        BY <4>1
    <3> HIDE DEF m
    <3>7. c \in int /\ m \in int /\ options.skip + m \in int /\ options.skip + m \in Int
      BY <1>4, <3>1, <3>2, <3>3, <3>4, <3>5, <3>6 DEF a
    <3>8. q = c
      <4>1. Wrap(size - skip_) = a
        BY <2>1, <3>2, WrapInt DEF a
      <4>2. Quotient(a, n) = {c}
        BY <2>2, <3>7 DEF Quotient, c
      <4> QED
        BY <1>5, <2>1, <2>4, <4>1, <4>2 DEF LastPage
    <3>9. page_' = c
      BY <1>5, <3>3, <3>5, <3>8 DEF AtLeast
    <3>10. skip_' = Wrap(options.skip + Wrap(m))
      BY <1>7, <2>1, <3>9 DEF m
    <3>11. skip_' = options.skip + m
      BY <3>4, <3>7, <3>10, WrapInt
    <3> QED
      BY <1>4, <2>2, <3>1, <3>2, <3>3, <3>4, <3>11 DEF a
  <2> QED
    BY <2>3, <2>4 DEF p, n
<1> QED
  BY <1>9, <1>10, <1>11, <1>12, <1>13 DEF PagingInv

\* The corrections change nothing of a plain window but the size of an empty part,
\* which is at the end of the results.
LEMMA WindowInvKept ==
    ASSUME PagingInv, Window
    PROVE  PagingInv'
<1>1. /\ at = "window" /\ at' = "collect" /\ j' = j /\ page_' = page_ /\ options' = options /\ nodes' = nodes
      /\ contexts' = contexts /\ ordered' = ordered
      /\ paginate_' = AtLeast(paginate_, 1) /\ skip_' = AtLeast(skip_, 0)
  BY DEF Window
<1>2. PagingTypeOK /\ ResultsInv /\ PagesInv /\ GroupsInv /\ WindowInv
  BY <1>1, Asked
<1>3. size' = size /\ Remaining' = Remaining /\ \A x : Plain(x)' <=> Plain(x)
  BY <1>1, SameResults
<1>4. /\ IntMax \in Nat \ {0} /\ int = (-IntMax - 1)..IntMax /\ size \in Nat /\ size <= IntMax
      /\ skip_ \in int /\ paginate_ \in int /\ options.skip \in int /\ options.groups \in int
      /\ options.paginate \in int /\ options.page \in int
  BY <1>2, Ints DEF ResultsInv
<1>5. skip_' \in int /\ skip_' >= 0 /\ paginate_' \in int /\ paginate_' >= 1
  BY <1>1, <1>4, AtLeastInt
<1>6. IF options.sortType = "None" THEN start' = skip_' /\ end' = AtMost(Wrap(paginate_' + skip_'), size)
                                  ELSE start' = 0 /\ end' = size
  BY DEF Window
<1>7. start' \in int /\ end' \in int
  <2>1. Wrap(paginate_' + skip_') \in int
    <3>1. paginate_' + skip_' \in Int
      BY <1>4, <1>5
    <3> QED
      BY <3>1, WrapInt
  <2>2. AtMost(Wrap(paginate_' + skip_'), size) \in int
    BY <1>4, <2>1 DEF AtMost
  <2> QED
    BY <1>4, <1>5, <1>6, <2>2
<1>8. PagingTypeOK'
  BY <1>1, <1>2, <1>5, <1>7 DEF PagingTypeOK
<1>9. ResultsInv'
  BY <1>1, <1>2, <1>3 DEF ResultsInv
<1>10. WindowInv'
  BY <1>1, <1>3, <1>5, <1>6 DEF WindowInv
<1>11. PagesInv'
  <2> DEFINE p == options.page  n == options.paginate
  <2> SUFFICES ASSUME options.groups = 0, n >= 1
               PROVE  /\ Plain(p * n) /\ p >= 1 => skip_' = options.skip + (p - 1) * n /\ paginate_' = n
                      /\ Plain(size + n) /\ p = -1 /\ options.skip < size =>
                            skip_' < size /\ size <= skip_' + n /\ paginate_' = n
    BY <1>1, <1>3 DEF PagesInv
  <2>1. ASSUME Plain(p * n), p >= 1 PROVE skip_' = options.skip + (p - 1) * n /\ paginate_' = n
    <3>1. skip_ = options.skip + (p - 1) * n /\ paginate_ = n
      BY <1>1, <1>2, <2>1 DEF PagesInv
    <3>2. (p - 1) * n \in Nat
      <4>1. p - 1 \in Nat /\ n \in Nat
        BY <1>4, <2>1
      <4> QED
        BY <4>1
    <3>3. options.skip \in Nat
      BY <1>4, <2>1 DEF Plain
    <3>4. skip_ >= 0 /\ skip_ \in Int
      BY <3>1, <3>2, <3>3
    <3>5. skip_' = skip_ /\ paginate_' = paginate_
      BY <1>1, <1>4, <3>1, <3>4 DEF AtLeast
    <3> QED
      BY <3>1, <3>5
  <2>2. ASSUME Plain(size + n), p = -1, options.skip < size
        PROVE  skip_' < size /\ size <= skip_' + n /\ paginate_' = n
    <3>1. skip_ < size /\ size <= skip_ + n /\ paginate_ = n
      BY <1>1, <1>2, <2>2 DEF PagesInv
    <3>2. options.skip >= 0
      BY <2>2 DEF Plain
    <3> QED
      BY <1>1, <1>4, <2>2, <3>1, <3>2 DEF AtLeast
  <2> QED
    BY <2>1, <2>2
<1>12. GroupsInv'
  <2> DEFINE p == options.page  g == options.groups  n == Remaining
             P == PartStart(p, n, g)  Z == PartSize(p, n, g)
  <2> SUFFICES ASSUME Plain(size + 1), g >= 1, 1 <= p, p <= g
               PROVE  \/ skip_' = options.skip + P /\ paginate_' = Z
                      \/ size <= options.skip + P /\ size <= skip_' /\ skip_' < IntMax /\ paginate_' = 1
    BY <1>1, <1>3 DEF GroupsInv
  <2>1. InPart(p)
    BY <1>1, <1>2 DEF GroupsInv
  <2>2. options.skip >= 0 /\ options.skip + size + 1 <= IntMax
    BY <1>4 DEF Plain
  <2>3. n \in Nat /\ (size > options.skip => n = size - options.skip) /\ g \in Nat \ {0} /\ p \in 1..g
    BY <1>4 DEF Remaining, AtLeast
  <2>4. P \in Nat /\ Z \in Nat /\ (Z = 0 => P = n) /\ P + Z <= n
    <3> HIDE DEF n, g, p
    <3> QED
      BY <2>3, Parts
  <2> HIDE DEF P, Z
  <2>5. CASE size <= options.skip
    <3>1. size <= skip_ /\ skip_ <= options.skip /\ paginate_ <= 0
      BY <2>1, <2>5 DEF InPart
    <3>2. size <= options.skip + P
      BY <1>4, <2>4, <2>5
    <3>3. skip_' = skip_ /\ paginate_' = 1
      BY <1>1, <1>4, <3>1 DEF AtLeast
    <3> QED
      BY <1>4, <2>2, <3>1, <3>2, <3>3
  <2>6. CASE size > options.skip
    <3>1. skip_ = options.skip + P /\ paginate_ = Z
      BY <1>4, <2>1, <2>6 DEF InPart, P, Z
    <3>2. skip_' = skip_
      BY <1>1, <1>4, <2>2, <2>4, <3>1 DEF AtLeast
    <3>3. CASE Z = 0
      <4>1. options.skip + P = size
        BY <1>4, <2>3, <2>4, <2>6, <3>3
      <4>2. paginate_' = 1
        BY <1>1, <3>1, <3>3 DEF AtLeast
      <4> QED
        BY <1>4, <2>2, <3>1, <3>2, <4>1, <4>2
    <3>4. CASE Z # 0
      <4>1. paginate_' = Z
        BY <1>1, <2>4, <3>1, <3>4 DEF AtLeast
      <4> QED
        BY <3>1, <3>2, <4>1
    <3> QED
      BY <3>3, <3>4
  <2> QED
    BY <1>4, <2>5, <2>6
<1> QED
  BY <1>8, <1>9, <1>10, <1>11, <1>12 DEF PagingInv

\* The results that match, and those of them that have contexts.
LEMMA MatchingType ==
    ASSUME PagingTypeOK
    PROVE  \A S : /\ Kept(UpTo(1, size), S) \in Seq(1..size)
                  /\ Len(Kept(UpTo(1, size), S)) \in Nat /\ Len(Kept(UpTo(1, size), S)) <= size
<1>1. size \in Nat
  BY Ints
<1>2. UpTo(1, size) \in Seq(1..size) /\ Len(UpTo(1, size)) = size
  BY <1>1, UpToOne
<1> QED
  BY <1>2, KeptType

\* Numbers of results are numbers.
LEMMA NatSeq ==
    ASSUME NEW S \in SUBSET Nat, NEW s \in Seq(S)
    PROVE  s \in Seq(Nat)
  BY SeqMonotonic

\* The loop that takes what matches returns numbers of results, and where all of
\* them have contexts, a slice of those that match.
LEMMA FilteredIs ==
    ASSUME PagingTypeOK, start \in Nat, end \in Int
    PROVE  /\ Filtered \in Seq(Nat) /\ Filtered \in Seq(1..size)
           /\ WithContext = 1..size => Filtered = Slice(Matching, start, AtLeast(end - start, 0))
<1> DEFINE M == Matching
           tail == SubSeq(M, start + 1, Len(M))
           rest == Kept(tail, WithContext)
           m == AtLeast(end - start, 0)
           cut == SubSeq(rest, 1, AtMost(m, Len(rest)))
<1>1. size \in Nat
  BY Ints
<1>2. M \in Seq(1..size)
  BY MatchingType DEF Matching
<1>3. m \in Nat
  BY DEF AtLeast
<1>4. cut = Filtered
  BY DEF Filtered
<1> HIDE DEF M, m
<1>5. tail \in Seq(1..size) /\ SubSeq(tail, 1, AtMost(m, Len(tail))) = Slice(M, start, m)
  BY <1>2, <1>3, CutTwice
<1> HIDE DEF tail
<1>6. rest \in Seq(1..size)
  BY <1>5, KeptType
<1>7. WithContext = 1..size => rest = tail
  BY <1>5, KeptAll
<1> HIDE DEF rest
<1>8. cut \in Seq(1..size)
  <2>1. cut = Slice(rest, 0, m)
    <3>1. 0 + m = m /\ 0 + 1 = 1
      BY <1>3
    <3> QED
      BY <3>1 DEF Slice
  <2>2. Slice(rest, 0, m) \in Seq(1..size)
    BY <1>3, <1>6, SliceType
  <2> QED
    BY <2>1, <2>2
<1>9. cut \in Seq(Nat)
  BY <1>1, <1>8, NatSeq
<1>10. WithContext = 1..size => cut = Slice(M, start, m)
  BY <1>5, <1>7
<1> QED
  BY <1>4, <1>8, <1>9, <1>10 DEF M, m

\* The loop over the window returns numbers of results, and where all of them
\* have contexts, the numbers of the window.
LEMMA UnfilteredIs ==
    ASSUME PagingTypeOK, start \in Nat, end \in Int, end <= size
    PROVE  /\ Unfiltered \in Seq(Nat) /\ Unfiltered \in Seq(1..size)
           /\ WithContext = 1..size => Unfiltered = UpTo(start + 1, end)
<1>1. size \in Nat /\ start + 1 \in Int
  BY Ints
<1>2. UpTo(start + 1, end) \in Seq((start + 1)..end)
  BY <1>1, UpToType
<1>3. (start + 1)..end \subseteq 1..size /\ 1..size \subseteq Nat
  BY <1>1
<1>4. UpTo(start + 1, end) \in Seq(1..size)
  BY <1>2, <1>3, SeqMonotonic
<1>5. Unfiltered \in Seq(1..size)
  BY <1>4, KeptType DEF Unfiltered
<1>6. WithContext = 1..size => Unfiltered = UpTo(start + 1, end)
  BY <1>4, KeptAll DEF Unfiltered
<1> QED
  BY <1>3, <1>5, <1>6, NatSeq

\* The numbers of a window are a slice of all numbers.
LEMMA UpToSlice ==
    ASSUME NEW n \in Nat, NEW a \in Nat, NEW c \in Nat
    PROVE  UpTo(a + 1, AtMost(a + c, n)) = Slice(UpTo(1, n), a, c)
<1> DEFINE u == UpTo(1, n)  e == AtMost(a + c, n)  v == UpTo(a + 1, e)  w == Slice(u, a, c)
<1>1. u \in Seq(1..n) /\ Len(u) = n /\ \A i \in 1..n : u[i] = i
  BY UpToOne
<1> HIDE DEF u
<1>2. e \in Nat /\ e <= n
  BY DEF AtMost
<1>3. w \in Seq(1..n) /\ Len(w) = AtLeast(e - a, 0) /\ \A i \in 1..Len(w) : w[i] = u[a + i]
  <2>1. /\ Slice(u, a, c) \in Seq(1..n) /\ Len(Slice(u, a, c)) = AtLeast(AtMost(a + c, Len(u)) - a, 0)
        /\ \A i \in 1..Len(Slice(u, a, c)) : Slice(u, a, c)[i] = u[a + i]
    BY <1>1, SliceType
  <2> QED
    BY <1>1, <2>1
<1> HIDE DEF w, e
<1>4. v \in Seq((a + 1)..e) /\ Len(v) = AtLeast(e - (a + 1) + 1, 0) /\ \A i \in 1..Len(v) : v[i] = a + 1 + i - 1
  BY <1>2, UpToType
<1> HIDE DEF v
<1>5. v \in Seq(1..n)
  <2>1. (a + 1)..e \subseteq 1..n
    BY <1>2
  <2> QED
    BY <1>4, <2>1, SeqMonotonic
<1>6. Len(v) = Len(w) /\ Len(v) \in Nat /\ (Len(v) > 0 => a + Len(v) = e)
  BY <1>2, <1>3, <1>4 DEF AtLeast
<1>7. ASSUME NEW i \in 1..Len(v) PROVE v[i] = w[i]
  <2>1. a + i \in 1..n /\ a + 1 + i - 1 = a + i
    BY <1>2, <1>6
  <2> QED
    BY <1>1, <1>3, <1>4, <1>6, <2>1
<1>8. v = w
  BY <1>3, <1>5, <1>6, <1>7, SeqEqual
<1> QED
  BY <1>8 DEF u, e, v, w

\* A slice from the start that is long enough is the whole.
LEMMA SliceWhole ==
    ASSUME NEW T, NEW s \in Seq(T), NEW c \in Nat, Len(s) <= c
    PROVE  Slice(s, 0, c) = s
<1>1. Len(s) \in Nat
  BY LenProperties
<1>2. 0 + 1 = 1 /\ AtMost(0 + c, Len(s)) = Len(s)
  BY <1>1 DEF AtMost
<1>3. Slice(s, 0, c) = SubSeq(s, 1, Len(s))
  BY <1>2 DEF Slice
<1> QED
  BY <1>3, SubSeqFull

\* The loops over the results return what is in the window, or, if it is to be
\* sorted, all that matches.
LEMMA CollectInv ==
    ASSUME PagingInv, Collect
    PROVE  PagingInv'
<1>1. /\ at = "collect" /\ at' = IF options.sortType = "None" THEN "done" ELSE "sort"
      /\ j' = j /\ page_' = page_ /\ options' = options /\ nodes' = nodes
      /\ paginate_' = paginate_ /\ skip_' = skip_ /\ start' = start /\ end' = end
      /\ contexts' = IF options.filter THEN Filtered ELSE Unfiltered
      /\ ordered' = Kept(UpTo(1, size), Match \cap WithContext)
  BY DEF Collect
<1>2. PagingTypeOK /\ ResultsInv /\ PagesInv /\ GroupsInv /\ WindowInv
  BY <1>1, Asked
<1>3. size' = size /\ Remaining' = Remaining /\ \A x : Plain(x)' <=> Plain(x)
  BY <1>1, SameResults
<1>4. /\ IntMax \in Nat \ {0} /\ int = (-IntMax - 1)..IntMax /\ size \in Nat /\ size <= IntMax
      /\ skip_ \in int /\ paginate_ \in int /\ skip_ >= 0 /\ paginate_ >= 1
      /\ skip_ \in Nat /\ paginate_ \in Nat
  BY <1>1, <1>2, Ints DEF ResultsInv, WindowInv
<1>5. /\ options.sortType = "None" => start = skip_ /\ end = AtMost(Wrap(paginate_ + skip_), size)
      /\ options.sortType # "None" => start = 0 /\ end = size
  BY <1>1, <1>2 DEF WindowInv
<1>6. start \in Nat /\ end \in Int /\ end <= size
  <2>1. paginate_ + skip_ \in Int
    BY <1>4
  <2>2. Wrap(paginate_ + skip_) \in int
    BY <2>1, WrapInt
  <2>3. AtMost(Wrap(paginate_ + skip_), size) \in Int /\ AtMost(Wrap(paginate_ + skip_), size) <= size
    BY <1>4, <2>2 DEF AtMost
  <2> QED
    BY <1>4, <1>5, <2>3
<1>7. contexts' \in Seq(Nat)
  BY <1>1, <1>2, <1>6, FilteredIs, UnfilteredIs
<1>8. ordered' \in Seq(1..size) /\ Len(ordered') \in Nat /\ Len(ordered') <= size /\ ordered' \in Seq(Nat)
  <2>1. ordered' \in Seq(1..size) /\ Len(ordered') \in Nat /\ Len(ordered') <= size
    BY <1>1, <1>2, MatchingType
  <2>2. 1..size \in SUBSET Nat
    BY <1>4
  <2> QED
    BY <2>1, <2>2, NatSeq
<1>9. PagingTypeOK'
  BY <1>1, <1>2, <1>7, <1>8 DEF PagingTypeOK
<1>10. ResultsInv'
  BY <1>1, <1>2, <1>3 DEF ResultsInv
<1>11. PagesInv'
  BY <1>1, <1>2, <1>3 DEF PagesInv
<1>12. GroupsInv'
  BY <1>1, <1>2, <1>3 DEF GroupsInv
<1>13. ASSUME Plain(0)
       PROVE  /\ ~options.filter => Len(ordered') = size
              /\ options.sortType # "None" => contexts' = ordered'
              /\ options.sortType = "None" /\ skip_ + paginate_ <= IntMax => contexts' = Slice(ordered', skip_, paginate_)
  <2>1. WithContext = 1..size
    BY <1>13 DEF Plain, WithContext
  <2>2. ordered' = Matching
    <3>1. Match \cap WithContext = Match
      BY <2>1 DEF Match
    <3> QED
      BY <1>1, <3>1 DEF Matching
  <2>3. options.sortType = "None" /\ skip_ + paginate_ <= IntMax => start = skip_ /\ end = AtMost(skip_ + paginate_, size)
    <3>1. skip_ + paginate_ = paginate_ + skip_ /\ paginate_ + skip_ \in Int
      BY <1>4
    <3>2. skip_ + paginate_ <= IntMax => paginate_ + skip_ \in int
      BY <1>4
    <3>3. skip_ + paginate_ <= IntMax => Wrap(paginate_ + skip_) = skip_ + paginate_
      BY <3>1, <3>2, WrapInt
    <3> QED
      BY <1>5, <3>3
  <2>4. CASE options.filter
    <3> DEFINE m == AtLeast(end - start, 0)
    <3>1. contexts' = Slice(ordered', start, m) /\ m \in Nat
      BY <1>1, <1>2, <1>6, <2>1, <2>2, <2>4, FilteredIs DEF AtLeast
    <3>2. options.sortType # "None" => contexts' = ordered'
      <4>1. options.sortType # "None" => start = 0 /\ m = size
        BY <1>4, <1>5 DEF AtLeast
      <4> HIDE DEF m
      <4> QED
        BY <1>4, <1>8, <3>1, <4>1, SliceWhole
    <3>3. ASSUME options.sortType = "None", skip_ + paginate_ <= IntMax
          PROVE  contexts' = Slice(ordered', skip_, paginate_)
      <4>1. start = skip_ /\ end = AtMost(skip_ + paginate_, size)
        BY <2>3, <3>3
      <4> DEFINE L == Len(ordered')
      <4>2. L \in Nat /\ L <= size
        BY <1>8
      <4> HIDE DEF L
      <4>3. \/ AtMost(skip_ + m, L) = AtMost(skip_ + paginate_, L)
            \/ AtMost(skip_ + m, L) <= skip_ /\ AtMost(skip_ + paginate_, L) <= skip_
        BY <1>4, <4>1, <4>2 DEF AtMost, AtLeast
      <4> HIDE DEF m
      <4>4. Slice(ordered', skip_, m) = Slice(ordered', skip_, paginate_)
        BY <1>4, <1>8, <3>1, <4>3, SameSlice DEF L
      <4> QED
        BY <3>1, <4>1, <4>4
    <3> QED
      BY <2>4, <3>2, <3>3
  <2>5. CASE ~options.filter
    <3>1. Match = 1..size
      BY <1>2, <2>5 DEF ResultsInv, Match
    <3>2. UpTo(1, size) \in Seq(1..size) /\ Len(UpTo(1, size)) = size
      BY <1>4, UpToOne
    <3>3. ordered' = UpTo(1, size)
      BY <2>2, <3>1, <3>2, KeptAll DEF Matching
    <3>4. contexts' = UpTo(start + 1, end)
      BY <1>1, <1>2, <1>6, <2>1, <2>5, UnfilteredIs
    <3>5. options.sortType # "None" => contexts' = ordered'
      <4>1. 0 + 1 = 1
        OBVIOUS
      <4> QED
        BY <1>5, <3>3, <3>4, <4>1
    <3>6. options.sortType = "None" /\ skip_ + paginate_ <= IntMax => contexts' = Slice(ordered', skip_, paginate_)
      BY <1>4, <2>3, <3>3, <3>4, UpToSlice
    <3> QED
      BY <3>2, <3>3, <3>5, <3>6
  <2> QED
    BY <2>4, <2>5
<1>14. WindowInv'
  BY <1>1, <1>3, <1>4, <1>8, <1>13 DEF WindowInv
<1> QED
  BY <1>9, <1>10, <1>11, <1>12, <1>14 DEF PagingInv

\* reverse, random_shuffle and sort neither lose nor add anything to the length.
LEMMA OrdersType ==
    ASSUME NEW c \in Seq(Nat), NEW s \in Orders(c), options.sortType \in {"Reverse", "Shuffle", "Specific"}
    PROVE  s \in Seq(Nat) /\ Len(s) = Len(c)
<1>1. Len(c) \in Nat /\ DOMAIN c = 1..Len(c) /\ \A i \in 1..Len(c) : c[i] \in Nat
  BY LenProperties, ElementOfSeq
<1> DEFINE all == {[i \in DOMAIN c |-> c[p[i]]] : p \in SetToSeqs(DOMAIN c)}
<1>2. Cardinality(DOMAIN c) = Len(c)
  BY <1>1, FS_Interval
<1>3. ASSUME s \in all PROVE s \in Seq(Nat) /\ Len(s) = Len(c)
  <2>1. PICK p \in SetToSeqs(DOMAIN c) : s = [i \in DOMAIN c |-> c[p[i]]]
    BY <1>3
  <2>2. p \in [1..Len(c) -> 1..Len(c)]
    BY <1>1, <1>2 DEF SetToSeqs
  <2>3. \A i \in 1..Len(c) : c[p[i]] \in Nat
    BY <1>1, <2>2
  <2> QED
    BY <1>1, <2>1, <2>3
<1>4. CASE options.sortType = "Reverse"
  <2>1. s = [i \in 1..Len(c) |-> c[(Len(c) - i) + 1]]
    BY <1>4 DEF Orders, Reverse
  <2>2. \A i \in 1..Len(c) : c[(Len(c) - i) + 1] \in Nat
    BY <1>1
  <2> QED
    BY <1>1, <2>1, <2>2
<1>5. CASE options.sortType = "Shuffle"
  BY <1>3, <1>5 DEF Orders
<1>6. CASE options.sortType = "Specific"
  <2>1. s \in Sorted(all, ToSet(c))
    BY <1>6 DEF Orders
  <2>2. Sorted(all, ToSet(c)) \subseteq all
    BY DEF Sorted
  <2> QED
    BY <1>3, <2>1, <2>2
<1> QED
  BY <1>4, <1>5, <1>6

\* What is cut out of the sorted contexts is in the window.
LEMMA SortInv ==
    ASSUME PagingInv, Sort
    PROVE  PagingInv'
<1>1. /\ at = "sort" /\ at' = "done" /\ j' = j /\ page_' = page_ /\ options' = options /\ nodes' = nodes
      /\ paginate_' = paginate_ /\ skip_' = skip_ /\ start' = start /\ end' = end
  BY DEF Sort
<1>2. PagingTypeOK /\ ResultsInv /\ PagesInv /\ GroupsInv /\ WindowInv
  BY <1>1, Asked
<1>3. size' = size /\ Remaining' = Remaining /\ \A x : Plain(x)' <=> Plain(x)
  BY <1>1, SameResults
<1>4. skip_ \in Nat /\ paginate_ \in Nat /\ skip_ >= 0 /\ paginate_ >= 1 /\ options.sortType \in {"Reverse", "Shuffle", "Specific"}
  BY <1>1, <1>2, Ints DEF WindowInv
<1>5. PICK s \in Orders(contexts) :
         /\ ordered' = s
         /\ contexts' = LET rest == SubSeq(s, AtMost(skip_, Len(s)) + 1, Len(s))
                        IN  SubSeq(rest, 1, AtMost(paginate_, Len(rest)))
  BY DEF Sort
<1>6. s \in Seq(Nat) /\ Len(s) = Len(contexts) /\ Len(s) \in Nat
  BY <1>2, <1>4, OrdersType, LenProperties DEF PagingTypeOK
<1> DEFINE b == AtMost(skip_, Len(s))
<1>7. b \in Nat /\ (b # skip_ => b >= Len(s) /\ skip_ >= Len(s)) /\ AtMost(b + paginate_, Len(s)) = AtMost(skip_ + paginate_, Len(s))
  BY <1>4, <1>6 DEF AtMost
<1> HIDE DEF b
<1>8. contexts' = Slice(s, b, paginate_)
  BY <1>4, <1>5, <1>6, <1>7, CutTwice DEF b
<1>9. Slice(s, b, paginate_) = Slice(s, skip_, paginate_)
  BY <1>4, <1>6, <1>7, SameSlice
<1>10. contexts' \in Seq(Nat)
  BY <1>4, <1>6, <1>8, <1>9, SliceType
<1>11. PagingTypeOK'
  BY <1>1, <1>2, <1>5, <1>6, <1>10 DEF PagingTypeOK
<1>12. ResultsInv'
  BY <1>1, <1>2, <1>3 DEF ResultsInv
<1>13. PagesInv'
  BY <1>1, <1>2, <1>3 DEF PagesInv
<1>14. GroupsInv'
  BY <1>1, <1>2, <1>3 DEF GroupsInv
<1>15. WindowInv'
  <2>1. Plain(0) => Len(s) <= size /\ (~options.filter => Len(s) = size)
    BY <1>1, <1>2, <1>6 DEF WindowInv
  <2> QED
    BY <1>1, <1>3, <1>4, <1>5, <1>8, <1>9, <2>1 DEF WindowInv
<1> QED
  BY <1>11, <1>12, <1>13, <1>14, <1>15 DEF PagingInv

\* Each step keeps the invariant.
LEMMA PagingStepInv ==
    PagingInv /\ [PagingNext]_pagingVars => PagingInv'
<1> SUFFICES ASSUME PagingInv, [PagingNext]_pagingVars PROVE PagingInv'
  OBVIOUS
<1>1. CASE query
  BY <1>1, QueryInv
<1>2. CASE GroupLoop
  BY <1>2, GroupLoopInv
<1>3. CASE GroupLoopEnds
  BY <1>3, GroupLoopEndsInv
<1>4. CASE PageStart
  BY <1>4, PageStartInv
<1>5. CASE Window
  BY <1>5, WindowInvKept
<1>6. CASE Collect
  BY <1>6, CollectInv
<1>7. CASE Sort
  BY <1>7, SortInv
<1>8. CASE UNCHANGED pagingVars
  <2>1. /\ options' = options /\ nodes' = nodes /\ at' = at /\ skip_' = skip_ /\ paginate_' = paginate_ /\ page_' = page_
        /\ j' = j /\ start' = start /\ end' = end /\ contexts' = contexts /\ ordered' = ordered
    BY <1>8 DEF pagingVars
  <2>2. size' = size /\ Remaining' = Remaining /\ \A x : Plain(x)' <=> Plain(x)
    BY <2>1, SameResults
  <2>3. PagingTypeOK /\ ResultsInv => PagingTypeOK' /\ ResultsInv'
    BY <2>1, <2>2 DEF PagingTypeOK, ResultsInv
  <2>4. Unasked => Unasked'
    BY <2>1 DEF Unasked
  <2>5. PagesInv => PagesInv'
    BY <2>1, <2>2 DEF PagesInv
  <2>6. \A i : InPart(i) => InPart(i)'
    BY <2>1, <2>2 DEF InPart
  <2>7. GroupsInv => GroupsInv'
    BY <2>1, <2>2 DEF GroupsInv, InPart
  <2>8. WindowInv => WindowInv'
    BY <2>1, <2>2 DEF WindowInv
  <2> QED
    BY <2>3, <2>4, <2>5, <2>7, <2>8 DEF PagingInv
<1> QED
  BY <1>1, <1>2, <1>3, <1>4, <1>5, <1>6, <1>7, <1>8 DEF PagingNext

\* The invariant of Response::query.
LEMMA PagingInvariant ==
    PagingSpec => []PagingInv
  BY PagingInitInv, PagingStepInv, PTL DEF PagingSpec

\* Whatever a client's options are, and whatever an overflow or an undefined
\* conversion made of them, the loop of Response::query over its window reads
\* only results that exist.
THEOREM PagingReadsInRange ==
    PagingSpec => []ReadsInRange
<1>1. PagingInv => ReadsInRange
  <2> SUFFICES ASSUME PagingInv, at = "collect" PROVE 0 <= start /\ end <= size
    BY DEF ReadsInRange
  <2>1. PagingTypeOK /\ ResultsInv /\ WindowInv
    BY Asked
  <2>2. IntMax \in Nat /\ int = (-IntMax - 1)..IntMax /\ size \in Nat /\ skip_ \in Nat /\ paginate_ \in Nat
    BY <2>1, Ints DEF WindowInv
  <2>3. Wrap(paginate_ + skip_) \in int
    <3>1. paginate_ + skip_ \in Int
      BY <2>2
    <3> QED
      BY <3>1, WrapInt
  <2>4. AtMost(Wrap(paginate_ + skip_), size) <= size
    BY <2>2, <2>3 DEF AtMost
  <2> QED
    BY <2>1, <2>2, <2>4 DEF WindowInv
<1> QED
  BY <1>1, PagingInvariant, PTL

\* Nothing has been returned before the first query, which is every page of nothing.
LEMMA SliceOfNothing ==
    ASSUME NEW a \in Nat, NEW c \in Nat
    PROVE  Slice(<<>>, a, c) = <<>>
<1>1. <<>> \in Seq(Nat) /\ Len(<<>>) = 0
  BY EmptySeq
<1>2. Slice(<<>>, a, c) \in Seq(Nat) /\ Len(Slice(<<>>, a, c)) = AtLeast(AtMost(a + c, Len(<<>>)) - a, 0)
  BY <1>1, SliceType
<1>3. Len(Slice(<<>>, a, c)) = 0
  BY <1>1, <1>2 DEF AtLeast, AtMost
<1> QED
  BY <1>2, <1>3, EmptySeq

\* Page p of n results is the p-th slice of n of the ordered and filtered results
\* behind the skipped ones, and the last page of an unfiltered query holds the
\* last result: for every option, list of results and size of an int.
THEOREM PagingPageIsSlice ==
    PagingSpec => []PageIsSlice
<1>1. PagingInv => PageIsSlice
  <2> DEFINE p == options.page  n == options.paginate
  <2> SUFFICES ASSUME PagingInv, at = "done", options.groups = 0, n >= 1
               PROVE  /\ Plain(p * n) /\ p >= 1 => contexts = Slice(ordered, options.skip + (p - 1) * n, n)
                      /\ Plain(size + n) /\ p = -1 /\ ~options.filter /\ options.skip < size =>
                            contexts # <<>> /\ Last(contexts) = Last(ordered) /\ Len(contexts) <= n
    BY DEF PageIsSlice
  <2>1. PagingTypeOK /\ ResultsInv
    BY DEF PagingInv
  <2>2. /\ IntMax \in Nat \ {0} /\ int = (-IntMax - 1)..IntMax /\ size \in Nat /\ skip_ \in Int /\ paginate_ \in Int
        /\ options.skip \in Int /\ n \in Nat /\ p \in Int
    BY <2>1, Ints
  <2>3. ASSUME NEW x \in Int, Plain(x) PROVE options.skip \in Nat /\ options.skip + x <= IntMax /\ Plain(0)
    BY <2>1, <2>2, <2>3, Ints DEF Plain
  <2>4. ASSUME Plain(p * n), p >= 1 PROVE contexts = Slice(ordered, options.skip + (p - 1) * n, n)
    <3> DEFINE m == (p - 1) * n
    <3>1. m \in Nat /\ p * n = m + n /\ p * n \in Int
      <4>1. p - 1 \in Nat
        BY <2>2, <2>4
      <4> QED
        BY <2>2, <4>1
    <3>2. options.skip \in Nat /\ options.skip + p * n <= IntMax /\ Plain(0)
      BY <2>3, <2>4, <3>1
    <3> HIDE DEF m
    <3>3. CASE Unasked
      <4>1. options.skip + m \in Nat
        BY <3>1, <3>2
      <4> QED
        BY <2>2, <3>3, <4>1, SliceOfNothing DEF Unasked, m
    <3>4. CASE PagesInv /\ GroupsInv /\ WindowInv
      <4>1. skip_ = options.skip + m /\ paginate_ = n
        BY <2>4, <3>4 DEF PagesInv, m
      <4>2. skip_ + paginate_ <= IntMax
        BY <2>2, <3>1, <3>2, <4>1
      <4> QED
        BY <3>2, <3>4, <4>1, <4>2 DEF WindowInv, m
    <3> QED
      BY <3>3, <3>4 DEF PagingInv
  <2>5. ASSUME Plain(size + n), p = -1, ~options.filter, options.skip < size
        PROVE  contexts # <<>> /\ Last(contexts) = Last(ordered) /\ Len(contexts) <= n
    <3>1. options.skip \in Nat /\ options.skip + size + n <= IntMax /\ Plain(0)
      BY <2>2, <2>3, <2>5
    <3>2. ~Unasked
      BY <2>2, <2>5, <3>1, EmptySeq DEF Unasked, size
    <3>3. PagesInv /\ WindowInv
      BY <3>2 DEF PagingInv
    <3>4. skip_ < size /\ size <= skip_ + n /\ paginate_ = n /\ skip_ \in Nat
      BY <2>2, <2>5, <3>3 DEF PagesInv, WindowInv
    <3>5. Len(ordered) = size /\ ordered \in Seq(Nat) /\ skip_ + n <= IntMax
      <4>1. Len(ordered) = size
        BY <2>5, <3>1, <3>3 DEF WindowInv
      <4>2. ordered \in Seq(Nat)
        BY <2>1 DEF PagingTypeOK
      <4>3. skip_ + n <= IntMax
        BY <2>2, <3>1, <3>4
      <4> QED
        BY <4>1, <4>2, <4>3
    <3>6. contexts = Slice(ordered, skip_, n)
      BY <3>1, <3>3, <3>4, <3>5 DEF WindowInv
    <3>7. /\ Slice(ordered, skip_, n) \in Seq(Nat) /\ Len(Slice(ordered, skip_, n)) = AtLeast(AtMost(skip_ + n, Len(ordered)) - skip_, 0)
          /\ \A i \in 1..Len(Slice(ordered, skip_, n)) : Slice(ordered, skip_, n)[i] = ordered[skip_ + i]
      <4>1. n \in Nat /\ skip_ \in Nat /\ ordered \in Seq(Nat)
        BY <2>2, <3>4, <3>5
      <4> HIDE DEF n
      <4> QED
        BY <4>1, SliceType
    <3>8. Len(contexts) = size - skip_ /\ size - skip_ \in 1..Len(contexts) /\ size - skip_ <= n
      <4>1. AtLeast(AtMost(skip_ + n, size) - skip_, 0) = size - skip_
        BY <2>2, <3>4 DEF AtLeast, AtMost
      <4>2. Len(contexts) = size - skip_
        BY <3>5, <3>6, <3>7, <4>1
      <4>3. size - skip_ \in Nat \ {0} /\ size - skip_ <= n
        BY <2>2, <3>4
      <4> QED
        BY <4>2, <4>3
    <3>9. contexts[size - skip_] = ordered[skip_ + (size - skip_)] /\ skip_ + (size - skip_) = size
      BY <2>2, <3>4, <3>6, <3>7, <3>8
    <3>10. Last(contexts) = Last(ordered)
      BY <3>5, <3>8, <3>9 DEF Last
    <3> QED
      BY <3>8, <3>10, EmptySeq
  <2> QED
    BY <2>4, <2>5
<1> QED
  BY <1>1, PagingInvariant, PTL

\* Page p of a query by groups is the p-th of as many parts of the results, whose
\* lengths differ by one at most: for every option, list of results and size of
\* an int.
THEOREM PagingGroupIsBalanced ==
    PagingSpec => []GroupIsBalanced
<1>1. PagingInv => GroupIsBalanced
  <2> DEFINE p == options.page  g == options.groups  n == Remaining
             P == PartStart(p, n, g)  Z == PartSize(p, n, g)
  <2> SUFFICES ASSUME PagingInv, at = "done", Plain(size + 1), g >= 1, 1 <= p, p <= g
               PROVE  contexts = Slice(ordered, options.skip + P, Z)
    BY DEF GroupIsBalanced
  <2>1. PagingTypeOK /\ ResultsInv
    BY DEF PagingInv
  <2>2. /\ IntMax \in Nat \ {0} /\ int = (-IntMax - 1)..IntMax /\ size \in Nat /\ skip_ \in Int /\ paginate_ \in Int
        /\ options.skip \in Int /\ g \in Nat \ {0} /\ p \in 1..g /\ ordered \in Seq(Nat)
    <3>1. ordered \in Seq(Nat)
      BY <2>1 DEF PagingTypeOK
    <3>2. IntMax \in Nat \ {0} /\ int = (-IntMax - 1)..IntMax /\ size \in Nat /\ skip_ \in int /\ paginate_ \in int
      BY <2>1, Ints
    <3>3. options.skip \in int /\ g \in int /\ p \in int
      BY <2>1, Ints
    <3>4. g \in Int /\ p \in Int /\ options.skip \in Int /\ skip_ \in Int /\ paginate_ \in Int
      BY <3>2, <3>3
    <3>5. g \in Nat \ {0} /\ p \in 1..g
      BY <3>4
    <3> QED
      BY <3>1, <3>2, <3>4, <3>5
  <2>3. options.skip \in Nat /\ options.skip + size + 1 <= IntMax /\ Plain(0)
    BY <2>2 DEF Plain
  <2>4. n \in Nat /\ (size <= options.skip => n = 0) /\ (size > options.skip => n = size - options.skip)
    BY <2>2 DEF Remaining, AtLeast
  <2>5. P \in Nat /\ Z \in Nat /\ P + Z <= n
    <3> HIDE DEF n, g, p
    <3> QED
      BY <2>2, <2>4, Parts
  <2> HIDE DEF P, Z
  <2>6. CASE Unasked
    <3>1. options.skip + P \in Nat
      BY <2>3, <2>5
    <3> QED
      BY <2>5, <2>6, <3>1, SliceOfNothing DEF Unasked
  <2>7. CASE PagesInv /\ GroupsInv /\ WindowInv
    <3>1. \/ skip_ = options.skip + P /\ paginate_ = Z
          \/ size <= options.skip + P /\ size <= skip_ /\ skip_ < IntMax /\ paginate_ = 1
      BY <2>7 DEF GroupsInv, P, Z
    <3>2. Len(ordered) <= size /\ Len(ordered) \in Nat /\ skip_ >= 0
      BY <2>2, <2>3, <2>7, LenProperties DEF WindowInv
    <3>3. skip_ + paginate_ <= IntMax
      BY <2>2, <2>3, <2>4, <2>5, <3>1
    <3>4. contexts = Slice(ordered, skip_, paginate_)
      BY <2>3, <2>7, <3>3 DEF WindowInv
    <3>5. CASE skip_ = options.skip + P /\ paginate_ = Z
      BY <3>4, <3>5
    <3>6. CASE size <= options.skip + P /\ size <= skip_ /\ paginate_ = 1
      <4> DEFINE a == options.skip + P
      <4>1. a \in Nat /\ skip_ \in Nat /\ paginate_ \in Nat /\ a >= Len(ordered) /\ skip_ >= Len(ordered)
        BY <2>2, <2>3, <2>5, <3>2, <3>6
      <4> HIDE DEF a
      <4>2. AtMost(skip_ + paginate_, Len(ordered)) = Len(ordered) /\ AtMost(a + Z, Len(ordered)) = Len(ordered)
        BY <2>5, <3>2, <4>1 DEF AtMost
      <4>3. Slice(ordered, skip_, paginate_) = Slice(ordered, a, Z)
        BY <2>2, <2>5, <4>1, <4>2, SameSlice
      <4> QED
        BY <3>4, <4>3 DEF a
    <3> QED
      BY <3>1, <3>5, <3>6
  <2> QED
    BY <2>6, <2>7 DEF PagingInv
<1> QED
  BY <1>1, PagingInvariant, PTL
-----------------------------------------------------------------------------
\* A strict weak order of V, as a set of pairs.
WeakOrder(V, L) ==
    \A x, y \in V :
       /\ ~(<<x, y>> \in L /\ <<y, x>> \in L)
       /\ \A z \in V : <<x, y>> \in L => <<x, z>> \in L \/ <<z, y>> \in L

Tied(L, x, y) == <<x, y>> \notin L /\ <<y, x>> \notin L

\* Sequences compared element by element, the k-th ones by L[k]; what ends first is less.
LexLess(L, x, y) ==
    \E i \in 1..Len(y) :
       /\ \A k \in 1..(i - 1) : k <= Len(x) /\ Tied(L[k], x[k], y[k])
       /\ i = Len(x) + 1 \/ (i <= Len(x) /\ <<x[i], y[i]>> \in L[i])

LexTied(L, x, y) ==
    Len(x) = Len(y) /\ \A k \in 1..Len(x) : Tied(L[k], x[k], y[k])

\* A sequence whose k-th element is in V[k].
Within(V, x) == Len(x) \in Nat /\ \A k \in 1..Len(x) : x[k] \in V[k]

WeakOrders(V, L) == \A k \in Nat \ {0} : WeakOrder(V[k], L[k])

\* Of three elements, two of which are tied.
LEMMA TiedOrder ==
    ASSUME NEW V, NEW L, WeakOrder(V, L), NEW x \in V, NEW y \in V, NEW z \in V
    PROVE  /\ Tied(L, x, y) => Tied(L, y, x)
           /\ Tied(L, x, y) /\ Tied(L, y, z) => Tied(L, x, z)
           /\ Tied(L, x, y) /\ <<y, z>> \in L => <<x, z>> \in L
           /\ <<x, y>> \in L /\ Tied(L, y, z) => <<x, z>> \in L
           /\ <<x, y>> \in L /\ <<y, z>> \in L => <<x, z>> \in L
           /\ ~(<<x, y>> \in L /\ <<y, x>> \in L)
  BY DEF WeakOrder, Tied


\* Where neither of two sequences is less they are tied, one by one.
LEMMA LexChoice ==
    ASSUME NEW V, NEW L, WeakOrders(V, L), NEW x, NEW y, Within(V, x), Within(V, y)
    PROVE  LexLess(L, x, y) \/ LexLess(L, y, x) \/ LexTied(L, x, y)
<1> DEFINE D == {k \in Nat \ {0} : k <= Len(x) /\ k <= Len(y) /\ ~Tied(L[k], x[k], y[k])}
<1>0. Len(x) \in Nat /\ Len(y) \in Nat
  BY DEF Within
<1>1. CASE D = {}
  <2>1. \A k \in 1..Len(x) : k <= Len(y) => Tied(L[k], x[k], y[k])
    BY <1>0, <1>1
  <2>2. \A k \in 1..Len(x) : k <= Len(y) => Tied(L[k], y[k], x[k])
    BY <2>1 DEF Tied
  <2>3. CASE Len(x) = Len(y)
    BY <1>0, <2>1, <2>3 DEF LexTied
  <2>4. CASE Len(x) < Len(y)
    <3>1. Len(x) + 1 \in 1..Len(y) /\ \A k \in 1..(Len(x) + 1 - 1) : k \in 1..Len(x) /\ k <= Len(x) /\ k <= Len(y)
      BY <1>0, <2>4
    <3>2. \A k \in 1..(Len(x) + 1 - 1) : k <= Len(x) /\ Tied(L[k], x[k], y[k])
      BY <2>1, <3>1
    <3> QED
      BY <3>1, <3>2 DEF LexLess
  <2>5. CASE Len(y) < Len(x)
    <3>1. Len(y) + 1 \in 1..Len(x) /\ \A k \in 1..(Len(y) + 1 - 1) : k \in 1..Len(x) /\ k <= Len(y)
      BY <1>0, <2>5
    <3>2. \A k \in 1..(Len(y) + 1 - 1) : k <= Len(y) /\ Tied(L[k], y[k], x[k])
      BY <2>2, <3>1
    <3> QED
      BY <3>1, <3>2 DEF LexLess
  <2> QED
    BY <1>0, <2>3, <2>4, <2>5
<1>2. CASE D # {}
  <2>1. PICK i \in D : \A k \in D : i <= k
    <3>1. D \subseteq Nat
      OBVIOUS
    <3> HIDE DEF D
    <3> QED
      BY <1>2, <3>1, LeastNat
  <2>2. i \in Nat \ {0} /\ i <= Len(x) /\ i <= Len(y) /\ ~Tied(L[i], x[i], y[i])
    OBVIOUS
  <2>3. ASSUME NEW k \in 1..(i - 1) PROVE k <= Len(x) /\ k <= Len(y) /\ Tied(L[k], x[k], y[k]) /\ Tied(L[k], y[k], x[k])
    <3>1. k \notin D /\ k \in Nat \ {0} /\ k <= Len(x) /\ k <= Len(y)
      BY <1>0, <2>1, <2>2
    <3>2. Tied(L[k], x[k], y[k])
      BY <3>1
    <3> QED
      BY <3>1, <3>2 DEF Tied
  <2>4. <<x[i], y[i]>> \in L[i] \/ <<y[i], x[i]>> \in L[i]
    BY <2>2 DEF Tied
  <2>5. i \in 1..Len(x) /\ i \in 1..Len(y)
    BY <1>0, <2>2
  <2> HIDE DEF D
  <2>6. CASE <<x[i], y[i]>> \in L[i]
    BY <2>2, <2>3, <2>5, <2>6 DEF LexLess
  <2>7. CASE <<y[i], x[i]>> \in L[i]
    BY <2>2, <2>3, <2>5, <2>7 DEF LexLess
  <2> QED
    BY <2>4, <2>6, <2>7
<1> QED
  BY <1>1, <1>2

\* No two sequences are less than each other.
LEMMA LexAsymmetric ==
    ASSUME NEW V, NEW L, WeakOrders(V, L), NEW x, NEW y, Within(V, x), Within(V, y), LexLess(L, x, y)
    PROVE  ~LexLess(L, y, x) /\ ~LexTied(L, x, y) /\ ~LexTied(L, y, x)
<1>0. Len(x) \in Nat /\ Len(y) \in Nat
  BY DEF Within
<1>1. PICK i \in 1..Len(y) : /\ \A k \in 1..(i - 1) : k <= Len(x) /\ Tied(L[k], x[k], y[k])
                             /\ i = Len(x) + 1 \/ (i <= Len(x) /\ <<x[i], y[i]>> \in L[i])
  BY DEF LexLess
<1>2. i \in 1..Len(x) => ~Tied(L[i], x[i], y[i]) /\ ~Tied(L[i], y[i], x[i])
  BY <1>0, <1>1 DEF Tied
<1>3. ~LexTied(L, x, y) /\ ~LexTied(L, y, x)
  BY <1>0, <1>1, <1>2 DEF LexTied
<1>4. ASSUME LexLess(L, y, x) PROVE FALSE
  <2>1. PICK h \in 1..Len(x) : /\ \A k \in 1..(h - 1) : k <= Len(y) /\ Tied(L[k], y[k], x[k])
                               /\ h = Len(y) + 1 \/ (h <= Len(y) /\ <<y[h], x[h]>> \in L[h])
    BY <1>4 DEF LexLess
  <2>2. CASE i < h
    <3>1. i \in 1..(h - 1) /\ i \in 1..Len(x)
      BY <1>0, <2>2
    <3> QED
      BY <1>2, <2>1, <3>1
  <2>3. CASE h < i
    <3>1. h \in 1..(i - 1) /\ h \in 1..Len(y) /\ h <= Len(y)
      BY <1>0, <2>3
    <3>2. Tied(L[h], x[h], y[h]) /\ <<y[h], x[h]>> \in L[h]
      BY <1>0, <1>1, <2>1, <3>1
    <3> QED
      BY <3>2 DEF Tied
  <2>4. CASE h = i
    <3>1. i \in 1..Len(x) /\ i \in 1..Len(y) /\ i # Len(x) + 1 /\ i # Len(y) + 1
      BY <1>0, <2>4
    <3>2. <<x[i], y[i]>> \in L[i] /\ <<y[i], x[i]>> \in L[i]
      BY <1>1, <2>1, <2>4, <3>1
    <3>3. WeakOrder(V[i], L[i]) /\ x[i] \in V[i] /\ y[i] \in V[i]
      BY <3>1 DEF WeakOrders, Within
    <3> QED
      BY <3>2, <3>3, TiedOrder
  <2> QED
    BY <1>0, <2>2, <2>3, <2>4
<1> QED
  BY <1>3, <1>4

\* What is less than, or tied with, a sequence is less than what that one is less than.
LEMMA LexTransitive ==
    ASSUME NEW V, NEW L, WeakOrders(V, L), NEW x, NEW y, NEW z, Within(V, x), Within(V, y), Within(V, z),
           LexLess(L, x, y) \/ LexTied(L, x, y), LexLess(L, y, z)
    PROVE  LexLess(L, x, z)
<1>0. Len(x) \in Nat /\ Len(y) \in Nat /\ Len(z) \in Nat
  BY DEF Within
<1>1. PICK h \in 1..Len(z) : /\ \A k \in 1..(h - 1) : k <= Len(y) /\ Tied(L[k], y[k], z[k])
                             /\ h = Len(y) + 1 \/ (h <= Len(y) /\ <<y[h], z[h]>> \in L[h])
  BY DEF LexLess
<1>2. ASSUME NEW k \in Nat \ {0}, k <= Len(x), k <= Len(y), k <= Len(z)
      PROVE  /\ Tied(L[k], x[k], y[k]) /\ Tied(L[k], y[k], z[k]) => Tied(L[k], x[k], z[k])
             /\ Tied(L[k], x[k], y[k]) /\ <<y[k], z[k]>> \in L[k] => <<x[k], z[k]>> \in L[k]
             /\ <<x[k], y[k]>> \in L[k] /\ Tied(L[k], y[k], z[k]) => <<x[k], z[k]>> \in L[k]
             /\ <<x[k], y[k]>> \in L[k] /\ <<y[k], z[k]>> \in L[k] => <<x[k], z[k]>> \in L[k]
  <2>1. k \in 1..Len(x) /\ k \in 1..Len(y) /\ k \in 1..Len(z)
    BY <1>0, <1>2
  <2>2. WeakOrder(V[k], L[k]) /\ x[k] \in V[k] /\ y[k] \in V[k] /\ z[k] \in V[k]
    BY <2>1 DEF WeakOrders, Within
  <2> QED
    BY <2>2, TiedOrder
<1>3. CASE LexTied(L, x, y)
  <2>1. Len(x) = Len(y) /\ \A k \in 1..Len(x) : Tied(L[k], x[k], y[k])
    BY <1>3 DEF LexTied
  <2>2. ASSUME NEW k \in 1..(h - 1) PROVE k <= Len(x) /\ Tied(L[k], x[k], z[k])
    <3>1. k \in 1..Len(x) /\ k \in Nat \ {0} /\ k <= Len(x) /\ k <= Len(y) /\ k <= Len(z)
      BY <1>0, <1>1, <2>1
    <3>2. Tied(L[k], x[k], y[k]) /\ Tied(L[k], y[k], z[k])
      BY <1>1, <2>1, <3>1
    <3> QED
      BY <1>2, <3>1, <3>2
  <2>3. h = Len(x) + 1 \/ (h <= Len(x) /\ <<x[h], z[h]>> \in L[h])
    <3>1. CASE h = Len(y) + 1
      BY <2>1, <3>1
    <3>2. CASE h # Len(y) + 1
      <4>1. h \in 1..Len(x) /\ h \in Nat \ {0} /\ h <= Len(x) /\ h <= Len(y) /\ h <= Len(z)
        BY <1>0, <1>1, <2>1, <3>2
      <4>2. Tied(L[h], x[h], y[h]) /\ <<y[h], z[h]>> \in L[h]
        BY <1>1, <2>1, <3>2, <4>1
      <4> QED
        BY <1>2, <4>1, <4>2
    <3> QED
      BY <3>1, <3>2
  <2> QED
    BY <2>2, <2>3 DEF LexLess
<1>4. CASE LexLess(L, x, y)
  <2>1. PICK i \in 1..Len(y) : /\ \A k \in 1..(i - 1) : k <= Len(x) /\ Tied(L[k], x[k], y[k])
                               /\ i = Len(x) + 1 \/ (i <= Len(x) /\ <<x[i], y[i]>> \in L[i])
    BY <1>4 DEF LexLess
  <2>2. ASSUME NEW k \in Nat \ {0}, k < i, k < h PROVE k <= Len(x) /\ Tied(L[k], x[k], z[k])
    <3>1. k \in 1..(i - 1) /\ k \in 1..(h - 1) /\ k <= Len(y) /\ k <= Len(z)
      BY <1>0, <2>2
    <3>2. k <= Len(x) /\ Tied(L[k], x[k], y[k]) /\ Tied(L[k], y[k], z[k])
      BY <1>1, <2>1, <3>1
    <3> QED
      BY <1>2, <3>1, <3>2
  <2>3. CASE i < h
    <3>1. i \in Nat \ {0} /\ i <= Len(y) /\ i <= Len(z) /\ i \in 1..Len(z) /\ i \in 1..(h - 1)
      BY <1>0, <2>3
    <3>2. Tied(L[i], y[i], z[i])
      BY <1>1, <3>1
    <3>3. i = Len(x) + 1 \/ (i <= Len(x) /\ <<x[i], z[i]>> \in L[i])
      BY <1>2, <2>1, <3>1, <3>2
    <3>4. \A k \in 1..(i - 1) : k <= Len(x) /\ Tied(L[k], x[k], z[k])
      BY <2>2, <2>3
    <3> QED
      BY <3>1, <3>3, <3>4 DEF LexLess
  <2>4. CASE h < i
    <3>1. h \in Nat \ {0} /\ h <= Len(y) /\ h <= Len(z) /\ h \in 1..Len(z) /\ h \in 1..(i - 1) /\ h # Len(y) + 1
      BY <1>0, <2>4
    <3>2. Tied(L[h], x[h], y[h]) /\ h <= Len(x) /\ <<y[h], z[h]>> \in L[h]
      BY <1>1, <2>1, <3>1
    <3>3. h <= Len(x) /\ <<x[h], z[h]>> \in L[h]
      BY <1>2, <3>1, <3>2
    <3>4. \A k \in 1..(h - 1) : k <= Len(x) /\ Tied(L[k], x[k], z[k])
      BY <2>2, <2>4
    <3> QED
      BY <3>1, <3>3, <3>4 DEF LexLess
  <2>5. CASE h = i
    <3>1. h \in Nat \ {0} /\ h <= Len(y) /\ h <= Len(z) /\ h # Len(y) + 1
      BY <1>0, <2>5
    <3>2. <<y[h], z[h]>> \in L[h]
      BY <1>1, <3>1
    <3>3. h = Len(x) + 1 \/ (h <= Len(x) /\ <<x[h], z[h]>> \in L[h])
      BY <1>2, <2>1, <2>5, <3>1, <3>2
    <3>4. \A k \in 1..(h - 1) : k <= Len(x) /\ Tied(L[k], x[k], z[k])
      BY <2>2, <2>5
    <3> QED
      BY <3>3, <3>4 DEF LexLess
  <2> QED
    BY <1>0, <2>3, <2>4, <2>5
<1> QED
  BY <1>3, <1>4

\* Sequences compared so are in a strict weak order, as their elements are.
LEMMA LexOrder ==
    ASSUME NEW V, NEW L, WeakOrders(V, L), NEW x, NEW y, NEW z, Within(V, x), Within(V, y), Within(V, z)
    PROVE  /\ ~(LexLess(L, x, y) /\ LexLess(L, y, x))
           /\ LexLess(L, x, y) => LexLess(L, x, z) \/ LexLess(L, z, y)
<1>1. ~(LexLess(L, x, y) /\ LexLess(L, y, x))
  BY LexAsymmetric
<1>2. ASSUME LexLess(L, x, y), ~LexLess(L, x, z) PROVE LexLess(L, z, y)
  <2>1. LexLess(L, z, x) \/ LexTied(L, z, x)
    BY <1>2, LexChoice
  <2> QED
    BY <1>2, <2>1, LexTransitive
<1> QED
  BY <1>1, <1>2

\* The characters, as Lex compares them.
Codes == [k \in Nat |-> Nat]
CodeLess == [k \in Nat |-> {p \in Nat \X Nat : p[1] < p[2]}]

\* Characters are the same where neither is less.
LEMMA CodeTied ==
    ASSUME NEW k \in Nat, NEW c \in Nat, NEW d \in Nat
    PROVE  /\ <<c, d>> \in CodeLess[k] <=> c < d
           /\ Tied(CodeLess[k], c, d) <=> c = d
<1>1. CodeLess[k] = {p \in Nat \X Nat : p[1] < p[2]}
  BY DEF CodeLess
<1>2. (<<c, d>> \in CodeLess[k] <=> c < d) /\ (<<d, c>> \in CodeLess[k] <=> d < c)
  BY <1>1
<1>3. Tied(CodeLess[k], c, d) <=> ~(c < d) /\ ~(d < c)
  BY <1>2 DEF Tied
<1>4. ~(c < d) /\ ~(d < c) <=> c = d
  OBVIOUS
<1> QED
  BY <1>2, <1>3, <1>4

\* Characters are in order, and a text is a sequence of them.
LEMMA CodeOrder ==
    /\ WeakOrders(Codes, CodeLess)
    /\ \A s \in Seq(Nat) : Within(Codes, s)
<1>1. \A k \in Nat : Codes[k] = Nat
  BY DEF Codes
<1>3. ASSUME NEW k \in Nat \ {0} PROVE WeakOrder(Codes[k], CodeLess[k])
  <2> SUFFICES ASSUME NEW x \in Nat, NEW y \in Nat, NEW z \in Nat
               PROVE  /\ ~(<<x, y>> \in CodeLess[k] /\ <<y, x>> \in CodeLess[k])
                      /\ <<x, y>> \in CodeLess[k] => <<x, z>> \in CodeLess[k] \/ <<z, y>> \in CodeLess[k]
    BY <1>1 DEF WeakOrder
  <2>1. /\ <<x, y>> \in CodeLess[k] <=> x < y
        /\ <<y, x>> \in CodeLess[k] <=> y < x
        /\ <<x, z>> \in CodeLess[k] <=> x < z
        /\ <<z, y>> \in CodeLess[k] <=> z < y
    BY CodeTied
  <2>2. ~(x < y /\ y < x) /\ (x < y => x < z \/ z < y)
    OBVIOUS
  <2> QED
    BY <2>1, <2>2
<1>4. ASSUME NEW s \in Seq(Nat) PROVE Within(Codes, s)
  <2>1. Len(s) \in Nat /\ \A k \in 1..Len(s) : s[k] \in Nat /\ k \in Nat
    BY LenProperties, ElementOfSeq
  <2> QED
    BY <1>1, <2>1 DEF Within
<1> QED
  BY <1>3, <1>4 DEF WeakOrders

\* The beginning of a sequence.
LEMMA Prefix ==
    ASSUME NEW S, NEW s \in Seq(S), NEW i \in Nat, i <= Len(s)
    PROVE  /\ SubSeq(s, 1, i) \in Seq(S) /\ Len(SubSeq(s, 1, i)) = i
           /\ \A k \in 1..i : SubSeq(s, 1, i)[k] = s[k]
<1>1. Len(s) \in Nat /\ \A k \in 1..Len(s) : s[k] \in S
  BY LenProperties, ElementOfSeq
<1>2. 1 \in Int /\ i \in Int /\ \A k \in 1..i : s[k] \in S
  BY <1>1
<1>3. /\ SubSeq(s, 1, i) \in Seq(S)
      /\ Len(SubSeq(s, 1, i)) = IF 1 <= i THEN i - 1 + 1 ELSE 0
      /\ \A k \in 1..(i - 1 + 1) : SubSeq(s, 1, i)[k] = s[1 + k - 1]
  BY <1>2, SubSeqProperties
<1> QED
  BY <1>3

\* The beginnings of two sequences.
LEMMA SamePrefix ==
    ASSUME NEW S, NEW s \in Seq(S), NEW t \in Seq(S), NEW i \in Nat, i <= Len(s), i <= Len(t)
    PROVE  SubSeq(s, 1, i) = SubSeq(t, 1, i) <=> \A k \in 1..i : s[k] = t[k]
<1>1. /\ SubSeq(s, 1, i) \in Seq(S) /\ Len(SubSeq(s, 1, i)) = i
      /\ \A k \in 1..i : SubSeq(s, 1, i)[k] = s[k]
  BY Prefix
<1>2. /\ SubSeq(t, 1, i) \in Seq(S) /\ Len(SubSeq(t, 1, i)) = i
      /\ \A k \in 1..i : SubSeq(t, 1, i)[k] = t[k]
  BY Prefix
<1>3. SubSeq(s, 1, i) = SubSeq(t, 1, i) => \A k \in 1..i : s[k] = t[k]
  BY <1>1, <1>2
<1>4. ASSUME \A k \in 1..i : s[k] = t[k] PROVE SubSeq(s, 1, i) = SubSeq(t, 1, i)
  <2> DEFINE p == SubSeq(s, 1, i)  q == SubSeq(t, 1, i)
  <2>1. p \in Seq(S) /\ q \in Seq(S) /\ Len(p) = Len(q) /\ \A k \in 1..Len(p) : p[k] = q[k]
    BY <1>1, <1>2, <1>4
  <2> HIDE DEF p, q
  <2>2. p = q
    BY <2>1, SeqEqual
  <2> QED
    BY <2>2 DEF p, q
<1> QED
  BY <1>3, <1>4

\* operator< of std::string compares character by character.
LEMMA PrecedesLess ==
    ASSUME NEW s \in Seq(Nat), NEW t \in Seq(Nat)
    PROVE  Precedes(s, t) <=> LexLess(CodeLess, s, t)
<1>1. /\ Len(s) \in Nat /\ \A k \in 1..Len(s) : s[k] \in Nat
      /\ Len(t) \in Nat /\ \A k \in 1..Len(t) : t[k] \in Nat
  BY LenProperties, ElementOfSeq
<1>2. ASSUME Precedes(s, t) PROVE LexLess(CodeLess, s, t)
  <2>1. PICK i \in 0..Len(s) : /\ i <= Len(t) /\ SubSeq(s, 1, i) = SubSeq(t, 1, i)
                               /\ i < Len(t) /\ (i = Len(s) \/ s[i + 1] < t[i + 1])
    BY <1>2 DEF Precedes
  <2>2. \A k \in 1..i : s[k] = t[k] /\ k <= Len(s) /\ k \in Nat \ {0} /\ s[k] \in Nat /\ t[k] \in Nat
    <3>1. i \in Nat /\ i <= Len(s) /\ i <= Len(t)
      BY <1>1, <2>1
    <3>2. \A k \in 1..i : s[k] = t[k]
      BY <2>1, <3>1, SamePrefix, Zenon
    <3>3. \A k \in 1..i : k \in 1..Len(s) /\ k \in 1..Len(t) /\ k <= Len(s) /\ k \in Nat \ {0}
      BY <1>1, <3>1
    <3> QED
      BY <1>1, <3>2, <3>3
  <2>3. \A k \in 1..(i + 1 - 1) : k <= Len(s) /\ Tied(CodeLess[k], s[k], t[k])
    <3> SUFFICES ASSUME NEW k \in 1..i PROVE k <= Len(s) /\ Tied(CodeLess[k], s[k], t[k])
      BY <2>1
    <3>1. k \in Nat /\ s[k] = t[k] /\ k <= Len(s) /\ s[k] \in Nat /\ t[k] \in Nat
      BY <2>2
    <3> QED
      BY <3>1, CodeTied
  <2>4. i = Len(s) \/ (i + 1 <= Len(s) /\ <<s[i + 1], t[i + 1]>> \in CodeLess[i + 1])
    <3>1. CASE i # Len(s)
      <4>1. i + 1 \in 1..Len(s) /\ i + 1 \in 1..Len(t) /\ i + 1 \in Nat \ {0}
        BY <1>1, <2>1, <3>1
      <4> QED
        BY <1>1, <2>1, <3>1, <4>1, CodeTied
    <3> QED
      BY <3>1
  <2>5. i + 1 \in 1..Len(t) /\ (i = Len(s) => i + 1 = Len(s) + 1)
    BY <1>1, <2>1
  <2> DEFINE h == i + 1
  <2>6. /\ h \in 1..Len(t) /\ \A k \in 1..(h - 1) : k <= Len(s) /\ Tied(CodeLess[k], s[k], t[k])
        /\ h = Len(s) + 1 \/ (h <= Len(s) /\ <<s[h], t[h]>> \in CodeLess[h])
    BY <2>3, <2>4, <2>5
  <2> HIDE DEF h
  <2> QED
    BY <2>6 DEF LexLess
<1>3. ASSUME LexLess(CodeLess, s, t) PROVE Precedes(s, t)
  <2>1. PICK i \in 1..Len(t) : /\ \A k \in 1..(i - 1) : k <= Len(s) /\ Tied(CodeLess[k], s[k], t[k])
                               /\ i = Len(s) + 1 \/ (i <= Len(s) /\ <<s[i], t[i]>> \in CodeLess[i])
    BY <1>3 DEF LexLess
  <2>2. i - 1 \in 0..Len(s) /\ i - 1 \in Nat /\ i - 1 <= Len(s) /\ i - 1 <= Len(t) /\ i - 1 < Len(t) /\ i - 1 + 1 = i
    BY <1>1, <2>1
  <2>3. \A k \in 1..(i - 1) : s[k] = t[k]
    <3>1. \A k \in 1..(i - 1) : k \in Nat \ {0} /\ s[k] \in Nat /\ t[k] \in Nat
      BY <1>1, <2>2
    <3> QED
      BY <2>1, <3>1, CodeTied
  <2>4. SubSeq(s, 1, i - 1) = SubSeq(t, 1, i - 1)
    BY <2>2, <2>3, SamePrefix
  <2>5. i - 1 = Len(s) \/ s[i - 1 + 1] < t[i - 1 + 1]
    <3>1. CASE i <= Len(s)
      <4>1. i \in 1..Len(s) /\ i \in Nat \ {0} /\ i # Len(s) + 1
        BY <1>1, <3>1
      <4> QED
        BY <1>1, <2>1, <2>2, <4>1, CodeTied
    <3> QED
      BY <1>1, <2>1, <3>1
  <2> QED
    BY <2>2, <2>4, <2>5 DEF Precedes
<1> QED
  BY <1>2, <1>3

\* It is a strict order of all texts, and nothing is before an empty one.
LEMMA TextOrder ==
    ASSUME NEW s \in Seq(Nat), NEW t \in Seq(Nat), NEW u \in Seq(Nat)
    PROVE  /\ ~(Precedes(s, t) /\ Precedes(t, s))
           /\ Precedes(s, t) => Precedes(s, u) \/ Precedes(u, t)
           /\ ~Precedes(s, t) /\ ~Precedes(t, s) <=> s = t
           /\ ~Precedes(s, <<>>) /\ (Precedes(<<>>, s) <=> s # <<>>)
<1>1. /\ Within(Codes, s) /\ Within(Codes, t) /\ Within(Codes, u) /\ WeakOrders(Codes, CodeLess)
  BY CodeOrder
<1>2. /\ ~(Precedes(s, t) /\ Precedes(t, s))
      /\ Precedes(s, t) => Precedes(s, u) \/ Precedes(u, t)
  BY <1>1, PrecedesLess, LexOrder
<1>3. ASSUME ~Precedes(s, t), ~Precedes(t, s) PROVE s = t
  <2>1. LexTied(CodeLess, s, t)
    BY <1>1, <1>3, PrecedesLess, LexChoice
  <2>2. /\ Len(s) \in Nat /\ \A k \in 1..Len(s) : s[k] \in Nat
        /\ Len(t) \in Nat /\ \A k \in 1..Len(t) : t[k] \in Nat
    BY LenProperties, ElementOfSeq
  <2>3. Len(s) = Len(t) /\ \A k \in 1..Len(s) : s[k] = t[k]
    <3>1. \A k \in 1..Len(s) : k \in Nat \ {0}
      OBVIOUS
    <3> QED
      BY <2>1, <2>2, <3>1, CodeTied DEF LexTied
  <2> QED
    BY <2>3, SeqEqual
<1>4. s = t => ~Precedes(s, t) /\ ~Precedes(t, s)
  <2>1. ~(Precedes(s, s) /\ Precedes(s, s))
    BY <1>1, PrecedesLess, LexOrder
  <2> QED
    BY <2>1
<1>5. <<>> \in Seq(Nat) /\ Len(<<>>) = 0
  BY EmptySeq
<1>6. ~Precedes(s, <<>>)
  <2>1. \A i \in Nat : ~(i < 0)
    OBVIOUS
  <2>2. \A i \in 0..Len(s) : i \in Nat
    BY LenProperties
  <2> QED
    BY <1>5, <2>1, <2>2 DEF Precedes
<1>7. Precedes(<<>>, s) <=> s # <<>>
  <2>1. CASE s = <<>>
    BY <1>6, <2>1
  <2>2. CASE s # <<>>
    <3>1. Len(s) \in Nat /\ Len(s) # 0
      BY <2>2, EmptySeq, LenProperties
    <3>2. \A k \in 1..0 : <<>>[k] = s[k]
      OBVIOUS
    <3>3. SubSeq(<<>>, 1, 0) = SubSeq(s, 1, 0)
      BY <1>5, <3>1, <3>2, SamePrefix
    <3>4. 0 \in 0..Len(<<>>) /\ 0 <= Len(s) /\ 0 < Len(s)
      BY <1>5, <3>1
    <3> QED
      BY <1>5, <2>2, <3>3, <3>4 DEF Precedes
  <2> QED
    BY <2>1, <2>2
<1> QED
  BY <1>2, <1>3, <1>4, <1>6, <1>7

\* A function of the numbers up to n that starts with a and goes on by step.
Goes(f, a, step, s, n) ==
    f[0] = a /\ \A i \in 1..n : f[i] = step[<<f[i - 1], s[i]>>]

\* There is one.
LEMMA FoldExists ==
    ASSUME NEW S, NEW C, NEW step \in [S \X C -> S], NEW a \in S, NEW s \in Seq(C)
    PROVE  \E f \in [0..Len(s) -> S] : Goes(f, a, step, s, Len(s))
<1> DEFINE P == {n \in Nat : \E f \in [0..n -> S] : Goes(f, a, step, s, n)}
<1>0. Len(s) \in Nat /\ \A i \in 1..Len(s) : s[i] \in C
  BY LenProperties, ElementOfSeq
<1>1. 0 \in P
  <2> DEFINE f == [i \in 0..0 |-> a]
  <2>1. f \in [0..0 -> S] /\ f[0] = a
    OBVIOUS
  <2>2. Goes(f, a, step, s, 0)
    BY <2>1 DEF Goes
  <2> QED
    BY <2>1, <2>2
<1>2. ASSUME NEW n \in 0..(Len(s) - 1), n \in P PROVE n + 1 \in P
  <2>1. PICK f \in [0..n -> S] : Goes(f, a, step, s, n)
    BY <1>2
  <2> DEFINE g == [i \in 0..(n + 1) |-> IF i <= n THEN f[i] ELSE step[<<f[n], s[n + 1]>>]]
  <2>2. n \in Nat /\ s[n + 1] \in C /\ f[n] \in S /\ step[<<f[n], s[n + 1]>>] \in S
    BY <1>0
  <2>3. g \in [0..(n + 1) -> S]
    BY <2>2
  <2>4. (\A i \in 0..n : g[i] = f[i]) /\ g[n + 1] = step[<<f[n], s[n + 1]>>]
    BY <2>2
  <2> HIDE DEF g
  <2>5. ASSUME NEW i \in 1..(n + 1) PROVE g[i] = step[<<g[i - 1], s[i]>>]
    <3>1. CASE i <= n
      <4>1. i \in 1..n /\ i \in 0..n /\ i - 1 \in 0..n
        BY <2>2, <3>1
      <4> QED
        BY <2>1, <2>4, <4>1 DEF Goes
    <3>2. CASE i = n + 1
      <4>1. i - 1 = n /\ n \in 0..n
        BY <2>2, <3>2
      <4> QED
        BY <2>4, <3>2, <4>1
    <3> QED
      BY <2>2, <3>1, <3>2
  <2>6. Goes(g, a, step, s, n + 1)
    <3>1. 0 \in 0..n
      BY <2>2
    <3> QED
      BY <2>1, <2>4, <2>5, <3>1 DEF Goes
  <2> QED
    BY <2>2, <2>3, <2>6
<1>3. \A n \in 0..Len(s) : n \in P
  <2> HIDE DEF P
  <2> QED
   BY <1>0, <1>1, <1>2, Induct
<1> QED
  BY <1>0, <1>3

\* What holds at first and is kept by every step holds throughout.
LEMMA Throughout ==
    ASSUME NEW n \in Nat, NEW f, NEW S, f[0] \in S, \A i \in 1..n : f[i - 1] \in S => f[i] \in S
    PROVE  \A i \in 0..n : f[i] \in S
<1> DEFINE P == {i \in Nat : f[i] \in S}
<1>1. 0 \in P
  OBVIOUS
<1>2. ASSUME NEW i \in 0..(n - 1), i \in P PROVE i + 1 \in P
  <2>1. i + 1 \in 1..n /\ i + 1 - 1 = i /\ i + 1 \in Nat
    OBVIOUS
  <2> QED
    BY <1>2, <2>1
<1>3. \A i \in 0..n : i \in P
  <2> HIDE DEF P
  <2> QED
    BY <1>1, <1>2, Induct
<1> QED
  BY <1>3

\* One character more makes an integer of an integer.
LEMMA ScanInt ==
    ASSUME NEW x \in Int, NEW c \in Nat
    PROVE  Scan(x, c) \in Int
  BY DEF Scan, Dot

\* The value of a number that is not measured yet.
LEMMA ScanSteps ==
    ASSUME NEW token \in Seq(Nat)
    PROVE  \E f : /\ lexical_cast(token) = f[Len(token)] * 10^(Decimals - Places(token))
                  /\ f[0] = 0 /\ \A i \in 1..Len(token) : f[i] = Scan(f[i - 1], token[i])
<1> DEFINE step == [p \in Int \X Nat |-> Scan(p[1], p[2])]
           rec(f) == f = [i \in 0..Len(token) |-> IF i = 0 THEN 0 ELSE Scan(f[i - 1], token[i])]
           v == CHOOSE f : rec(f)
<1>0. Len(token) \in Nat /\ \A i \in 1..Len(token) : token[i] \in Nat
  BY LenProperties, ElementOfSeq
<1>1. \A x \in Int : \A c \in Nat : Scan(x, c) \in Int
  BY ScanInt
<1>2. step \in [Int \X Nat -> Int] /\ \A x \in Int : \A c \in Nat : step[<<x, c>>] = Scan(x, c)
  BY <1>1
<1>3. \E f : rec(f)
  <2> HIDE DEF step
  <2>1. PICK f \in [0..Len(token) -> Int] : Goes(f, 0, step, token, Len(token))
    <3>1. 0 \in Int
      OBVIOUS
    <3>2. step \in [Int \X Nat -> Int]
      BY <1>2
    <3> QED
      BY <3>1, <3>2, FoldExists, Zenon
  <2>2. ASSUME NEW i \in 0..Len(token) PROVE f[i] = IF i = 0 THEN 0 ELSE Scan(f[i - 1], token[i])
    <3>1. CASE i = 0
      BY <2>1, <3>1 DEF Goes
    <3>2. CASE i # 0
      <4>1. i \in 1..Len(token) /\ i - 1 \in 0..Len(token)
        BY <1>0, <3>2
      <4>2. f[i] = step[<<f[i - 1], token[i]>>] /\ f[i - 1] \in Int /\ token[i] \in Nat
        BY <1>0, <2>1, <4>1 DEF Goes
      <4> QED
        BY <1>2, <3>2, <4>2
    <3> QED
      BY <3>1, <3>2
  <2>3. f = [i \in 0..Len(token) |-> f[i]]
    BY <2>1
  <2> QED
    BY <2>2, <2>3
<1>4. rec(v)
  BY <1>3
<1>5. lexical_cast(token) = v[Len(token)] * 10^(Decimals - Places(token))
  BY DEF lexical_cast
<1> HIDE DEF v
<1>6. v[0] = 0 /\ \A i \in 1..Len(token) : v[i] = Scan(v[i - 1], token[i])
  <2>1. \A i \in 0..Len(token) : v[i] = IF i = 0 THEN 0 ELSE Scan(v[i - 1], token[i])
    BY <1>4
  <2>2. 0 \in 0..Len(token) /\ \A i \in 1..Len(token) : i \in 0..Len(token) /\ i # 0
    BY <1>0
  <2> QED
    BY <2>1, <2>2
<1> QED
  BY <1>5, <1>6

\* A number with no more decimals than there are units for is a number of units.
LEMMA CastInt ==
    ASSUME NEW token \in Seq(Nat), Places(token) <= Decimals
    PROVE  lexical_cast(token) \in Int
<1>0. Len(token) \in Nat /\ \A i \in 1..Len(token) : token[i] \in Nat
  BY LenProperties, ElementOfSeq
<1>1. Places(token) \in Nat
  <2> DEFINE dots == {i \in 1..Len(token) : token[i] = Dot}
  <2>1. CASE dots = {}
    BY <2>1 DEF Places
  <2>2. CASE dots # {}
    <3>1. dots \subseteq Nat /\ dots \subseteq 1..Len(token)
      BY <1>0
    <3>2. Places(token) = Len(token) - Min(dots)
      BY <2>2 DEF Places
    <3> HIDE DEF dots
    <3>3. \E n \in dots : \A m \in dots : n <= m
      BY <2>2, <3>1, LeastNat
    <3>4. Min(dots) \in dots
      BY <3>3 DEF Min
    <3>5. Min(dots) \in 1..Len(token)
      BY <3>1, <3>4
    <3>6. Len(token) - Min(dots) \in Nat
      BY <1>0, <3>5
    <3> QED
      BY <3>2, <3>6
  <2> QED
    BY <2>1, <2>2
<1>2. PICK f : /\ lexical_cast(token) = f[Len(token)] * 10^(Decimals - Places(token))
               /\ f[0] = 0 /\ \A i \in 1..Len(token) : f[i] = Scan(f[i - 1], token[i])
  BY ScanSteps
<1>3. \A i \in 0..Len(token) : f[i] \in Int
  <2>1. f[0] \in Int
    BY <1>2
  <2>2. \A i \in 1..Len(token) : f[i - 1] \in Int => f[i] \in Int
    BY <1>0, <1>2, ScanInt
  <2> QED
    BY <1>0, <2>1, <2>2, Throughout, Zenon
<1>4. Decimals - Places(token) \in Nat
  BY <1>1, NaturalOrderAssumption DEF NaturalOrderAssumption
<1>5. 10^(Decimals - Places(token)) \in Int
  BY <1>4
<1>6. f[Len(token)] \in Int
  BY <1>0, <1>3
<1> QED
  BY <1>2, <1>5, <1>6

\* Texts and numbers take turns, the first one a text; any of them may be empty.
Placed(k, t) == IF k % 2 = 0 THEN t = <<>> \/ IsNumber(t) ELSE ~IsNumber(t)

Tokens == {t \in Seq(Seq(Nat)) : \A k \in 1..Len(t) : Placed(k, t[k])}

\* Odd and even places take turns.
LEMMA Turn ==
    ASSUME NEW n \in Nat
    PROVE  (n + 1) % 2 = 0 <=> n % 2 # 0
  OBVIOUS

\* And do so together.
LEMMA Odd ==
    ASSUME NEW n \in Nat, NEW m \in Nat, n % 2 = m % 2
    PROVE  (n + 1) % 2 = (m + 1) % 2
  OBVIOUS

\* A token keeps its kind when another character of that kind follows.
LEMMA AppendPlaced ==
    ASSUME NEW k \in Nat, NEW t \in Seq(Nat), NEW c \in Nat, Placed(k, t), isdigit(c) = (k % 2 = 0)
    PROVE  Append(t, c) \in Seq(Nat) /\ Placed(k, Append(t, c))
<1>1. /\ Append(t, c) \in Seq(Nat) /\ Len(Append(t, c)) = Len(t) + 1 /\ Len(t) \in Nat
      /\ \A i \in 1..Len(t) : Append(t, c)[i] = t[i]
      /\ Append(t, c)[Len(t) + 1] = c
  BY AppendProperties, LenProperties
<1>2. Append(t, c) # <<>>
  BY <1>1, EmptySeq
<1>3. CASE t = <<>>
  <2>1. Len(t) = 0 /\ Append(t, c)[1] = c
    BY <1>1, <1>3, EmptySeq
  <2> QED
    BY <1>1, <1>2, <2>1 DEF Placed, IsNumber
<1>4. CASE t # <<>>
  <2>1. Len(t) # 0 /\ Append(t, c)[1] = t[1]
    BY <1>1, <1>4, EmptySeq
  <2> QED
    BY <1>1, <1>2, <1>4, <2>1 DEF Placed, IsNumber
<1> QED
  BY <1>3, <1>4

\* A token more.
LEMMA AppendTokens ==
    ASSUME NEW tokens \in Tokens, NEW t \in Seq(Nat), Placed(Len(tokens) + 1, t)
    PROVE  Append(tokens, t) \in Tokens /\ Len(Append(tokens, t)) = Len(tokens) + 1 /\ Len(tokens) \in Nat
<1>1. tokens \in Seq(Seq(Nat)) /\ \A k \in 1..Len(tokens) : Placed(k, tokens[k])
  BY DEF Tokens
<1>2. /\ Append(tokens, t) \in Seq(Seq(Nat)) /\ Len(Append(tokens, t)) = Len(tokens) + 1 /\ Len(tokens) \in Nat
      /\ \A i \in 1..Len(tokens) : Append(tokens, t)[i] = tokens[i]
      /\ Append(tokens, t)[Len(tokens) + 1] = t
  BY <1>1, AppendProperties, LenProperties
<1>3. ASSUME NEW k \in 1..(Len(tokens) + 1) PROVE Placed(k, Append(tokens, t)[k])
  <2>1. k \in 1..Len(tokens) \/ k = Len(tokens) + 1
    BY <1>2
  <2> QED
    BY <1>1, <1>2, <2>1
<1> QED
  BY <1>2, <1>3 DEF Tokens

\* One character of token_end's loop.
LEMMA ExtendType ==
    ASSUME NEW tokens \in Tokens, Len(tokens) >= 1, NEW c \in Nat
    PROVE  Extend(tokens, c) \in Tokens /\ Len(Extend(tokens, c)) >= 1
<1> DEFINE n == Len(tokens)
<1>1. tokens \in Seq(Seq(Nat)) /\ n \in Nat /\ \A k \in 1..n : Placed(k, tokens[k]) /\ tokens[k] \in Seq(Nat)
  BY LenProperties, ElementOfSeq DEF Tokens
<1>2. CASE isdigit(c) = (n % 2 = 0)
  <2> DEFINE last == Append(tokens[n], c)
  <2>1. n \in 1..n
    BY <1>1
  <2>2. last \in Seq(Nat) /\ Placed(n, last)
    BY <1>1, <1>2, <2>1, AppendPlaced
  <2>3. Extend(tokens, c) = [tokens EXCEPT ![n] = last]
    BY <1>2 DEF Extend
  <2> HIDE DEF last
  <2>4. /\ [tokens EXCEPT ![n] = last] \in Seq(Seq(Nat)) /\ Len([tokens EXCEPT ![n] = last]) = n
        /\ \A k \in 1..n : [tokens EXCEPT ![n] = last][k] = IF k = n THEN last ELSE tokens[k]
    BY <1>1, <2>1, <2>2, ExceptSeq
  <2>5. \A k \in 1..n : Placed(k, [tokens EXCEPT ![n] = last][k])
    BY <1>1, <2>2, <2>4
  <2> QED
    BY <2>3, <2>4, <2>5 DEF Tokens
<1>3. CASE ~(isdigit(c) = (n % 2 = 0))
  <2>1. Extend(tokens, c) = Append(tokens, <<c>>)
    BY <1>3 DEF Extend
  <2>2. <<c>> \in Seq(Nat) /\ <<c>> # <<>> /\ <<c>>[1] = c
    OBVIOUS
  <2>3. (n + 1) % 2 = 0 <=> n % 2 # 0
    BY <1>1, Turn
  <2>4. Placed(n + 1, <<c>>)
    BY <1>3, <2>2, <2>3 DEF Placed, IsNumber, isdigit
  <2>5. Append(tokens, <<c>>) \in Tokens /\ Len(Append(tokens, <<c>>)) = n + 1
    BY <2>2, <2>4, AppendTokens
  <2> QED
    BY <1>1, <2>1, <2>5
<1> QED
  BY <1>2, <1>3

\* Two numbers with a dot between them become one.
LEMMA MergeType ==
    ASSUME NEW out \in Tokens, NEW r \in Seq(Nat), Placed(Len(out) + 1, r)
    PROVE  Merge(out, r) \in Tokens /\ Len(Merge(out, r)) % 2 = (Len(out) + 1) % 2 /\ Len(Merge(out, r)) \in Nat
<1> DEFINE n == Len(out)
<1>1. out \in Seq(Seq(Nat)) /\ n \in Nat /\ \A k \in 1..n : Placed(k, out[k]) /\ out[k] \in Seq(Nat)
  BY LenProperties, ElementOfSeq DEF Tokens
<1> DEFINE B == /\ n >= 2 /\ out[n] = <<Dot>> /\ r # <<>>
                /\ IsNumber(out[n - 1]) /\ ~Contains(out[n - 1], Dot)
           front == SubSeq(out, 1, n - 2)
           num == out[n - 1] \o out[n] \o r
<1>2. CASE B
  <2>1. Merge(out, r) = Append(front, num)
    BY <1>2 DEF Merge
  <2>2. n - 2 \in Nat /\ n - 2 <= n /\ n - 1 \in 1..n /\ n \in 1..n
    BY <1>1, <1>2
  <2>3. front \in Seq(Seq(Nat)) /\ Len(front) = n - 2 /\ \A k \in 1..(n - 2) : front[k] = out[k]
    BY <1>1, <2>2, Prefix
  <2>4. front \in Tokens
    <3>1. \A k \in 1..(n - 2) : k \in 1..n
      BY <1>1
    <3> QED
      BY <1>1, <2>3, <3>1 DEF Tokens
  <2> DEFINE l == out[n - 1]
  <2>5. l \in Seq(Nat) /\ out[n] \in Seq(Nat) /\ Placed(n - 1, l) /\ IsNumber(l) /\ l # <<>>
    BY <1>1, <1>2, <2>2 DEF IsNumber
  <2> HIDE DEF l
  <2>6. /\ l \o out[n] \in Seq(Nat) /\ Len(l \o out[n]) = Len(l) + Len(out[n])
        /\ \A i \in 1..(Len(l) + Len(out[n])) : (l \o out[n])[i] = IF i <= Len(l) THEN l[i] ELSE out[n][i - Len(l)]
    BY <2>5, ConcatProperties
  <2> DEFINE m == l \o out[n]
  <2>7. Len(l) \in Nat /\ Len(l) # 0 /\ Len(out[n]) \in Nat /\ Len(r) \in Nat
    BY <2>5, LenProperties, EmptySeq
  <2>8. m \in Seq(Nat) /\ Len(m) \in Nat /\ Len(m) >= 1 /\ m[1] = l[1]
    BY <2>6, <2>7
  <2> HIDE DEF m
  <2>9. /\ m \o r \in Seq(Nat) /\ Len(m \o r) = Len(m) + Len(r)
        /\ \A i \in 1..(Len(m) + Len(r)) : (m \o r)[i] = IF i <= Len(m) THEN m[i] ELSE r[i - Len(m)]
    BY <2>8, ConcatProperties
  <2>10. num = m \o r
    BY DEF m, l
  <2>11. num \in Seq(Nat) /\ num # <<>> /\ num[1] = l[1]
    BY <2>7, <2>8, <2>9, <2>10, EmptySeq
  <2>12. IsNumber(num)
    BY <2>5, <2>11 DEF IsNumber
  <2>13. (n - 1) % 2 = 0
    BY <2>5 DEF Placed
  <2> HIDE DEF num, front
  <2>14. Placed(Len(front) + 1, num)
    <3>1. Len(front) + 1 = n - 1
      BY <1>1, <2>3
    <3> QED
      BY <2>12, <2>13, <3>1 DEF Placed
  <2>15. Append(front, num) \in Tokens /\ Len(Append(front, num)) = n - 1
    BY <1>1, <2>3, <2>4, <2>11, <2>14, AppendTokens
  <2>16. (n - 1) % 2 = (n + 1) % 2 /\ n - 1 \in Nat
    BY <1>1, <2>2
  <2> QED
    BY <2>1, <2>15, <2>16
<1>3. CASE ~B
  <2>1. Merge(out, r) = Append(out, r)
    BY <1>3 DEF Merge
  <2> QED
    BY <1>1, <2>1, AppendTokens
<1> QED
  BY <1>2, <1>3

\* tokenize_string, character by character.
LEMMA TokenizeSteps ==
    ASSUME NEW s \in Seq(Nat)
    PROVE  \E f : /\ tokenize_string(s) = IF s = <<>> THEN f[0] ELSE Append(f[Len(s)], <<>>)
                  /\ f[0] = <<<<>>>> /\ \A i \in 1..Len(s) : f[i] = Extend(f[i - 1], s[i])
<1> DEFINE S == {t \in Tokens : Len(t) >= 1}
           step == [p \in S \X Nat |-> Extend(p[1], p[2])]
           rec(f) == f = [i \in 0..Len(s) |-> IF i = 0 THEN <<<<>>>> ELSE Extend(f[i - 1], s[i])]
           v == CHOOSE f : rec(f)
<1>0. Len(s) \in Nat /\ \A i \in 1..Len(s) : s[i] \in Nat
  BY LenProperties, ElementOfSeq
<1>1. \A x \in S : \A c \in Nat : Extend(x, c) \in S
  BY ExtendType
<1>2. step \in [S \X Nat -> S] /\ \A x \in S : \A c \in Nat : step[<<x, c>>] = Extend(x, c)
  <2> HIDE DEF S
  <2> QED
    BY <1>1
<1>3. <<<<>>>> \in S
  <2>1. <<<<>>>> \in Seq(Seq(Nat)) /\ Len(<<<<>>>>) = 1 /\ <<<<>>>>[1] = <<>>
    OBVIOUS
  <2>2. Placed(1, <<>>)
    BY DEF Placed, IsNumber
  <2> QED
    BY <2>1, <2>2 DEF Tokens
<1>4. \E f : rec(f)
  <2> HIDE DEF step, S
  <2>1. PICK f \in [0..Len(s) -> S] : Goes(f, <<<<>>>>, step, s, Len(s))
    <3>1. step \in [S \X Nat -> S]
      BY <1>2
    <3> QED
      BY <1>3, <3>1, FoldExists, Zenon
  <2>2. ASSUME NEW i \in 0..Len(s) PROVE f[i] = IF i = 0 THEN <<<<>>>> ELSE Extend(f[i - 1], s[i])
    <3>1. CASE i = 0
      BY <2>1, <3>1 DEF Goes
    <3>2. CASE i # 0
      <4>1. i \in 1..Len(s) /\ i - 1 \in 0..Len(s)
        BY <1>0, <3>2
      <4>2. f[i] = step[<<f[i - 1], s[i]>>] /\ f[i - 1] \in S /\ s[i] \in Nat
        BY <1>0, <2>1, <4>1 DEF Goes
      <4> QED
        BY <1>2, <3>2, <4>2
    <3> QED
      BY <3>1, <3>2
  <2>3. f = [i \in 0..Len(s) |-> f[i]]
    BY <2>1
  <2> QED
    BY <2>2, <2>3
<1>5. rec(v)
  BY <1>4
<1>6. tokenize_string(s) = IF s = <<>> THEN v[0] ELSE Append(v[Len(s)], <<>>)
  BY DEF tokenize_string
<1> HIDE DEF v
<1>7. v[0] = <<<<>>>> /\ \A i \in 1..Len(s) : v[i] = Extend(v[i - 1], s[i])
  <2>1. \A i \in 0..Len(s) : v[i] = IF i = 0 THEN <<<<>>>> ELSE Extend(v[i - 1], s[i])
    BY <1>5
  <2>2. 0 \in 0..Len(s) /\ \A i \in 1..Len(s) : i \in 0..Len(s) /\ i # 0
    BY <1>0
  <2> QED
    BY <2>1, <2>2
<1> QED
  BY <1>6, <1>7

\* merge_floats, token by token.
LEMMA MergeSteps ==
    ASSUME NEW s \in Seq(Seq(Nat))
    PROVE  \E f : /\ merge_floats(s) = f[Len(s)]
                  /\ f[0] = <<>> /\ \A i \in 1..Len(s) : f[i] = Merge(f[i - 1], s[i])
<1> DEFINE S == Seq(Seq(Nat))
           step == [p \in S \X Seq(Nat) |-> Merge(p[1], p[2])]
           rec(f) == f = [i \in 0..Len(s) |-> IF i = 0 THEN <<>> ELSE Merge(f[i - 1], s[i])]
           v == CHOOSE f : rec(f)
<1>0. Len(s) \in Nat /\ \A i \in 1..Len(s) : s[i] \in Seq(Nat)
  BY LenProperties, ElementOfSeq
<1>1. ASSUME NEW x \in S, NEW r \in Seq(Nat) PROVE Merge(x, r) \in S
  <2> DEFINE n == Len(x)
  <2>1. n \in Nat /\ \A k \in 1..n : x[k] \in Seq(Nat)
    BY LenProperties, ElementOfSeq
  <2>2. CASE n >= 2
    <3>1. n - 2 \in Nat /\ n - 2 <= n /\ n - 1 \in 1..n /\ n \in 1..n
      BY <2>1, <2>2
    <3>2. SubSeq(x, 1, n - 2) \in S
      BY <3>1, Prefix
    <3>3. x[n - 1] \in Seq(Nat) /\ x[n] \in Seq(Nat)
      BY <2>1, <3>1
    <3>4. x[n - 1] \o x[n] \in Seq(Nat)
      BY <3>3, ConcatProperties
    <3>5. x[n - 1] \o x[n] \o r \in Seq(Nat)
      BY <3>4, ConcatProperties
    <3>6. Append(SubSeq(x, 1, n - 2), x[n - 1] \o x[n] \o r) \in S /\ Append(x, r) \in S
      BY <3>2, <3>5, AppendProperties
    <3> QED
      BY <3>6 DEF Merge
  <2>3. CASE ~(n >= 2)
    <3>1. Append(x, r) \in S
      BY AppendProperties
    <3> QED
      BY <2>3, <3>1 DEF Merge
  <2> QED
    BY <2>2, <2>3
<1>2. step \in [S \X Seq(Nat) -> S] /\ \A x \in S : \A c \in Seq(Nat) : step[<<x, c>>] = Merge(x, c)
  <2> HIDE DEF S
  <2> QED
    BY <1>1
<1>3. <<>> \in S
  OBVIOUS
<1>4. \E f : rec(f)
  <2>0. s \in Seq(Seq(Nat))
    OBVIOUS
  <2> HIDE DEF step, S
  <2>1. PICK f \in [0..Len(s) -> S] : Goes(f, <<>>, step, s, Len(s))
    <3>1. step \in [S \X Seq(Nat) -> S]
      BY <1>2
    <3> QED
      BY <1>3, <2>0, <3>1, FoldExists, Zenon
  <2>2. ASSUME NEW i \in 0..Len(s) PROVE f[i] = IF i = 0 THEN <<>> ELSE Merge(f[i - 1], s[i])
    <3>1. CASE i = 0
      BY <2>1, <3>1 DEF Goes
    <3>2. CASE i # 0
      <4>1. i \in 1..Len(s) /\ i - 1 \in 0..Len(s)
        BY <1>0, <3>2
      <4>2. f[i] = step[<<f[i - 1], s[i]>>] /\ f[i - 1] \in S /\ s[i] \in Seq(Nat)
        BY <1>0, <2>1, <4>1 DEF Goes
      <4> QED
        BY <1>2, <3>2, <4>2
    <3> QED
      BY <3>1, <3>2
  <2>3. f = [i \in 0..Len(s) |-> f[i]]
    BY <2>1
  <2> QED
    BY <2>2, <2>3
<1>5. rec(v)
  BY <1>4
<1>6. merge_floats(s) = v[Len(s)]
  BY DEF merge_floats
<1> HIDE DEF v
<1>7. v[0] = <<>> /\ \A i \in 1..Len(s) : v[i] = Merge(v[i - 1], s[i])
  <2>1. \A i \in 0..Len(s) : v[i] = IF i = 0 THEN <<>> ELSE Merge(v[i - 1], s[i])
    BY <1>5
  <2>2. 0 \in 0..Len(s) /\ \A i \in 1..Len(s) : i \in 0..Len(s) /\ i # 0
    BY <1>0
  <2> QED
    BY <2>1, <2>2
<1> QED
  BY <1>6, <1>7

\* The tokens of a text, merged or not.
LEMMA TokenizeType ==
    ASSUME NEW s \in Seq(Nat)
    PROVE  tokenize_string(s) \in Tokens
<1>0. Len(s) \in Nat /\ \A i \in 1..Len(s) : s[i] \in Nat
  BY LenProperties, ElementOfSeq
<1>1. PICK f : /\ tokenize_string(s) = IF s = <<>> THEN f[0] ELSE Append(f[Len(s)], <<>>)
               /\ f[0] = <<<<>>>> /\ \A i \in 1..Len(s) : f[i] = Extend(f[i - 1], s[i])
  BY TokenizeSteps
<1> DEFINE S == {t \in Tokens : Len(t) >= 1}
<1>2. f[0] \in S
  <2>1. <<<<>>>> \in Seq(Seq(Nat)) /\ Len(<<<<>>>>) = 1 /\ <<<<>>>>[1] = <<>>
    OBVIOUS
  <2>2. Placed(1, <<>>)
    BY DEF Placed, IsNumber
  <2> QED
    BY <1>1, <2>1, <2>2 DEF Tokens
<1>3. \A i \in 1..Len(s) : f[i - 1] \in S => f[i] \in S
  BY <1>0, <1>1, ExtendType
<1>4. \A i \in 0..Len(s) : f[i] \in S
  <2> HIDE DEF S
  <2> QED
    BY <1>0, <1>2, <1>3, Throughout, Zenon
<1>5. f[Len(s)] \in Tokens
  BY <1>0, <1>4
<1>6. \A k : Placed(k, <<>>)
  BY DEF Placed, IsNumber
<1>7. Append(f[Len(s)], <<>>) \in Tokens
  <2>1. <<>> \in Seq(Nat)
    OBVIOUS
  <2> QED
    BY <1>5, <1>6, <2>1, AppendTokens
<1> QED
  BY <1>1, <1>2, <1>7

LEMMA MergedType ==
    ASSUME NEW s \in Tokens
    PROVE  merge_floats(s) \in Tokens
<1>0. s \in Seq(Seq(Nat)) /\ Len(s) \in Nat /\ \A i \in 1..Len(s) : s[i] \in Seq(Nat) /\ Placed(i, s[i])
  BY LenProperties, ElementOfSeq DEF Tokens
<1>1. PICK f : /\ merge_floats(s) = f[Len(s)]
               /\ f[0] = <<>> /\ \A i \in 1..Len(s) : f[i] = Merge(f[i - 1], s[i])
  BY <1>0, MergeSteps
<1> DEFINE P == {i \in Nat : f[i] \in Tokens /\ Len(f[i]) \in Nat /\ Len(f[i]) % 2 = i % 2}
<1>2. 0 \in P
  <2>1. <<>> \in Seq(Seq(Nat)) /\ Len(<<>>) = 0 /\ 1..0 = {}
    OBVIOUS
  <2> QED
    BY <1>1, <2>1 DEF Tokens
<1>3. ASSUME NEW i \in 0..(Len(s) - 1), i \in P PROVE i + 1 \in P
  <2>1. i + 1 \in 1..Len(s) /\ i + 1 - 1 = i /\ i \in Nat /\ i + 1 \in Nat
    BY <1>0
  <2>2. f[i + 1] = Merge(f[i], s[i + 1]) /\ s[i + 1] \in Seq(Nat) /\ Placed(i + 1, s[i + 1])
    BY <1>0, <1>1, <2>1
  <2>3. f[i] \in Tokens /\ Len(f[i]) \in Nat /\ Len(f[i]) % 2 = i % 2
    BY <1>3
  <2>4. (Len(f[i]) + 1) % 2 = (i + 1) % 2
    <3> DEFINE n == Len(f[i])
    <3>1. n \in Nat /\ n % 2 = i % 2
      BY <2>3
    <3> HIDE DEF n
    <3> QED
      BY <2>1, <3>1, Odd DEF n
  <2>5. Placed(Len(f[i]) + 1, s[i + 1])
    BY <2>2, <2>4 DEF Placed
  <2>6. f[i + 1] \in Tokens /\ Len(f[i + 1]) \in Nat /\ Len(f[i + 1]) % 2 = (i + 1) % 2
    BY <2>2, <2>3, <2>4, <2>5, MergeType
  <2> QED
    BY <2>1, <2>6
<1>4. \A i \in 0..Len(s) : i \in P
  <2> HIDE DEF P
  <2> QED
    BY <1>0, <1>2, <1>3, Induct
<1>5. Len(s) \in 0..Len(s)
  BY <1>0
<1>6. f[Len(s)] \in Tokens
  BY <1>4, <1>5
<1> QED
  BY <1>1, <1>6

Tok(s) == merge_floats(tokenize_string(s))

\* The tokens at each place whose numbers are in N, and their order.
TokensOf(N) ==
    [k \in Nat |-> {t \in Seq(Nat) : Placed(k, t) /\ (IsNumber(t) => lexical_cast(t) \in N)}]
TokenLess == [k \in Nat |-> {p \in Seq(Nat) \X Seq(Nat) : Before(p[1], p[2])}]

\* Numbers of which no two are close.
Apart(N) == N \subseteq Int /\ \A x, y \in N : Near(x, y) => x = y

\* Of numbers of which no two are close, those are near that are the same.
LEMMA NearIs ==
    ASSUME NEW N, Apart(N), NEW x \in N, NEW y \in N
    PROVE  Near(x, y) <=> ~(x < y) /\ ~(y < x)
<1>1. x \in Int /\ y \in Int /\ EPS \in Nat \ {0}
  BY NaturalOrderAssumption DEF Apart, NaturalOrderAssumption
<1>2. x = y => Near(x, y)
  BY <1>1 DEF Near
<1>3. Near(x, y) => x = y
  BY DEF Apart
<1>4. x = y <=> ~(x < y) /\ ~(y < x)
  BY <1>1
<1> QED
  BY <1>2, <1>3, <1>4

\* Tokens at the same place are in a strict weak order, in which those are tied
\* that leave the decision to the following ones.
LEMMA TokenOrder ==
    ASSUME NEW N, Apart(N), NEW k \in Nat,
           NEW s \in TokensOf(N)[k], NEW t \in TokensOf(N)[k], NEW u \in TokensOf(N)[k]
    PROVE  /\ ~(Before(s, t) /\ Before(t, s))
           /\ Before(s, t) => Before(s, u) \/ Before(u, t)
           /\ Same(s, t) <=> ~Before(s, t) /\ ~Before(t, s)
<1>1. /\ s \in Seq(Nat) /\ Placed(k, s) /\ (IsNumber(s) => lexical_cast(s) \in N)
      /\ t \in Seq(Nat) /\ Placed(k, t) /\ (IsNumber(t) => lexical_cast(t) \in N)
      /\ u \in Seq(Nat) /\ Placed(k, u) /\ (IsNumber(u) => lexical_cast(u) \in N)
  BY DEF TokensOf
<1>2. CASE k % 2 = 0
  <2>1. ASSUME NEW x \in {s, t, u}, NEW y \in {s, t, u}
        PROVE  /\ IsNumber(x) /\ IsNumber(y) => (Before(x, y) <=> lexical_cast(x) < lexical_cast(y))
               /\ ~IsNumber(x) \/ ~IsNumber(y) => (Before(x, y) <=> ~IsNumber(x) /\ IsNumber(y))
               /\ IsNumber(x) => lexical_cast(x) \in Int /\ lexical_cast(x) \in N
    <3>1. /\ x \in Seq(Nat) /\ (~IsNumber(x) <=> x = <<>>)
          /\ y \in Seq(Nat) /\ (~IsNumber(y) <=> y = <<>>)
      BY <1>1, <1>2 DEF Placed, IsNumber
    <3>2. ~Precedes(x, <<>>) /\ (Precedes(<<>>, y) <=> y # <<>>)
      BY <3>1, TextOrder
    <3>3. ~IsNumber(x) \/ ~IsNumber(y) => (Before(x, y) <=> Precedes(x, y))
      BY DEF Before
    <3>4. ~IsNumber(x) \/ ~IsNumber(y) => (Before(x, y) <=> ~IsNumber(x) /\ IsNumber(y))
      BY <3>1, <3>2, <3>3
    <3>5. IsNumber(x) => lexical_cast(x) \in Int /\ lexical_cast(x) \in N
      BY <1>1 DEF Apart
    <3> QED
      BY <3>4, <3>5 DEF Before
  <2>2. ~(Before(s, t) /\ Before(t, s))
    BY <2>1
  <2>3. Before(s, t) => Before(s, u) \/ Before(u, t)
    BY <2>1
  <2>4. Same(s, t) <=> ~Before(s, t) /\ ~Before(t, s)
    <3>1. CASE IsNumber(s) /\ IsNumber(t)
      <4>1. Same(s, t) <=> Near(lexical_cast(s), lexical_cast(t))
        BY <3>1 DEF Same
      <4>2. lexical_cast(s) \in N /\ lexical_cast(t) \in N
        BY <2>1, <3>1
      <4>3. (Before(s, t) <=> lexical_cast(s) < lexical_cast(t)) /\ (Before(t, s) <=> lexical_cast(t) < lexical_cast(s))
        BY <2>1, <3>1
      <4> QED
        BY <4>1, <4>2, <4>3, NearIs
    <3>2. CASE ~(IsNumber(s) /\ IsNumber(t))
      <4>1. Same(s, t) <=> s = t
        BY <3>2 DEF Same
      <4>2. (~IsNumber(s) <=> s = <<>>) /\ (~IsNumber(t) <=> t = <<>>)
        BY <1>1, <1>2 DEF Placed, IsNumber
      <4>3. /\ Before(s, t) <=> ~IsNumber(s) /\ IsNumber(t)
            /\ Before(t, s) <=> ~IsNumber(t) /\ IsNumber(s)
        BY <2>1, <3>2
      <4> QED
        BY <3>2, <4>1, <4>2, <4>3
    <3> QED
      BY <3>1, <3>2
  <2> QED
    BY <2>2, <2>3, <2>4
<1>3. CASE k % 2 # 0
  <2>1. ~IsNumber(s) /\ ~IsNumber(t) /\ ~IsNumber(u)
    BY <1>1, <1>3 DEF Placed
  <2>2. /\ Before(s, t) <=> Precedes(s, t)
        /\ Before(t, s) <=> Precedes(t, s)
        /\ Before(s, u) <=> Precedes(s, u)
        /\ Before(u, t) <=> Precedes(u, t)
        /\ Same(s, t) <=> s = t
    BY <2>1 DEF Before, Same
  <2> QED
    BY <1>1, <2>2, TextOrder
<1> QED
  BY <1>2, <1>3

\* The same of sets of pairs.
LEMMA TokenWeak ==
    ASSUME NEW N, Apart(N)
    PROVE  /\ WeakOrders(TokensOf(N), TokenLess)
           /\ \A k \in Nat : \A s, t \in TokensOf(N)[k] :
                 /\ <<s, t>> \in TokenLess[k] <=> Before(s, t)
                 /\ Tied(TokenLess[k], s, t) <=> Same(s, t)
<1>1. ASSUME NEW k \in Nat, NEW s \in TokensOf(N)[k], NEW t \in TokensOf(N)[k]
      PROVE  <<s, t>> \in TokenLess[k] <=> Before(s, t)
  <2>1. TokenLess[k] = {p \in Seq(Nat) \X Seq(Nat) : Before(p[1], p[2])}
    BY DEF TokenLess
  <2>2. s \in Seq(Nat) /\ t \in Seq(Nat)
    BY DEF TokensOf
  <2> QED
    BY <2>1, <2>2
<1>2. ASSUME NEW k \in Nat, NEW s \in TokensOf(N)[k], NEW t \in TokensOf(N)[k]
      PROVE  Tied(TokenLess[k], s, t) <=> Same(s, t)
  BY <1>1, TokenOrder DEF Tied
<1>3. ASSUME NEW k \in Nat \ {0} PROVE WeakOrder(TokensOf(N)[k], TokenLess[k])
  BY <1>1, TokenOrder DEF WeakOrder
<1> QED
  BY <1>1, <1>2, <1>3 DEF WeakOrders

\* str_compare_nat compares the tokens one by one.
LEMMA CompareLess ==
    ASSUME NEW N, Apart(N), NEW s1, NEW s2, Within(TokensOf(N), Tok(s1)), Within(TokensOf(N), Tok(s2)),
           DOMAIN Tok(s1) = 1..Len(Tok(s1)), DOMAIN Tok(s2) = 1..Len(Tok(s2))
    PROVE  /\ str_compare_nat(s1, s2) \in {-1, 0, 1}
           /\ str_compare_nat(s1, s2) = 1 <=> LexLess(TokenLess, Tok(s1), Tok(s2))
           /\ str_compare_nat(s1, s2) = -1 <=> LexLess(TokenLess, Tok(s2), Tok(s1))
<1> DEFINE x == Tok(s1)  y == Tok(s2)  L == TokenLess  V == TokensOf(N)
           differ == {i \in DOMAIN x \cap DOMAIN y : ~Same(x[i], y[i])}
           c == str_compare_nat(s1, s2)
<1>1. c = IF differ # {} THEN IF Before(x[Min(differ)], y[Min(differ)]) THEN 1 ELSE -1
          ELSE IF Len(x) = Len(y) THEN 0 ELSE IF Len(x) < Len(y) THEN 1 ELSE -1
  BY DEF str_compare_nat, Tok
<1>2. /\ Len(x) \in Nat /\ \A k \in 1..Len(x) : x[k] \in V[k]
      /\ Len(y) \in Nat /\ \A k \in 1..Len(y) : y[k] \in V[k]
  BY DEF Within
<1>3. /\ WeakOrders(V, L) /\ Within(V, x) /\ Within(V, y)
      /\ \A k \in Nat : \A s, t \in V[k] : (<<s, t>> \in L[k] <=> Before(s, t)) /\ (Tied(L[k], s, t) <=> Same(s, t))
  BY TokenWeak
<1>4. DOMAIN x = 1..Len(x) /\ DOMAIN y = 1..Len(y)
  OBVIOUS
<1> HIDE DEF x, y, c, L, V
<1>5. \A k : k \in differ <=> k \in 1..Len(x) /\ k \in 1..Len(y) /\ ~Same(x[k], y[k])
  BY <1>4
<1> HIDE DEF differ
<1>6. ASSUME NEW k \in 1..Len(x), k \in 1..Len(y), k \notin differ PROVE Tied(L[k], x[k], y[k]) /\ Tied(L[k], y[k], x[k])
  <2>1. Same(x[k], y[k]) /\ k \in Nat /\ x[k] \in V[k] /\ y[k] \in V[k]
    BY <1>2, <1>5, <1>6
  <2>2. Tied(L[k], x[k], y[k])
    BY <1>3, <2>1
  <2> QED
    BY <2>2 DEF Tied
<1>7. CASE differ # {}
  <2> DEFINE i == Min(differ)
  <2>1. i \in differ /\ \A k \in differ : i <= k
    <3>1. differ \subseteq Nat
      BY <1>2, <1>5
    <3>2. \E n \in differ : \A m \in differ : n <= m
      BY <1>7, <3>1, LeastNat
    <3> QED
      BY <3>2 DEF Min
  <2> HIDE DEF i
  <2>2. i \in 1..Len(x) /\ i \in 1..Len(y) /\ ~Same(x[i], y[i]) /\ i \in Nat /\ i <= Len(x) /\ i <= Len(y)
    BY <1>2, <1>5, <2>1
  <2>3. x[i] \in V[i] /\ y[i] \in V[i]
    BY <1>2, <2>2
  <2>4. /\ <<x[i], y[i]>> \in L[i] <=> Before(x[i], y[i])
        /\ <<x[i], y[i]>> \in L[i] \/ <<y[i], x[i]>> \in L[i]
    BY <1>3, <2>2, <2>3 DEF Tied
  <2>5. ASSUME NEW k \in 1..(i - 1)
        PROVE  k <= Len(x) /\ Tied(L[k], x[k], y[k]) /\ k <= Len(y) /\ Tied(L[k], y[k], x[k])
    <3>1. k \in 1..Len(x) /\ k \in 1..Len(y) /\ k \notin differ /\ k <= Len(x) /\ k <= Len(y)
      BY <1>2, <2>1, <2>2
    <3> QED
      BY <1>6, <3>1
  <2>6. CASE Before(x[i], y[i])
    <3>1. LexLess(L, x, y)
      BY <2>2, <2>4, <2>5, <2>6 DEF LexLess
    <3>2. c = 1 /\ ~LexLess(L, y, x)
      BY <1>1, <1>3, <1>7, <2>6, <3>1, LexAsymmetric DEF i
    <3> QED
      BY <3>1, <3>2 DEF c, x, y, L
  <2>7. CASE ~Before(x[i], y[i])
    <3>1. LexLess(L, y, x)
      BY <2>2, <2>4, <2>5, <2>7 DEF LexLess
    <3>2. c = -1 /\ ~LexLess(L, x, y)
      BY <1>1, <1>3, <1>7, <2>7, <3>1, LexAsymmetric DEF i
    <3> QED
      BY <3>1, <3>2 DEF c, x, y, L
  <2> QED
    BY <2>6, <2>7
<1>8. CASE differ = {}
  <2>1. CASE Len(x) = Len(y)
    <3>1. LexTied(L, x, y) /\ LexTied(L, y, x)
      BY <1>6, <1>8, <2>1 DEF LexTied
    <3>2. ~LexLess(L, x, y) /\ ~LexLess(L, y, x)
      BY <1>3, <3>1, LexAsymmetric
    <3>3. c = 0
      BY <1>1, <1>8, <2>1
    <3> QED
      BY <3>2, <3>3 DEF c, x, y, L
  <2>2. CASE Len(x) < Len(y)
    <3> DEFINE i == Len(x) + 1
    <3>1. i \in 1..Len(y) /\ \A k \in 1..(i - 1) : k \in 1..Len(x) /\ k \in 1..Len(y) /\ k <= Len(x)
      BY <1>2, <2>2
    <3>2. \A k \in 1..(i - 1) : k <= Len(x) /\ Tied(L[k], x[k], y[k])
      BY <1>6, <1>8, <3>1
    <3>3. LexLess(L, x, y)
      BY <3>1, <3>2 DEF LexLess
    <3>4. c = 1 /\ ~LexLess(L, y, x)
      BY <1>1, <1>2, <1>3, <1>8, <2>2, <3>3, LexAsymmetric
    <3> QED
      BY <3>3, <3>4 DEF c, x, y, L
  <2>3. CASE Len(y) < Len(x)
    <3> DEFINE i == Len(y) + 1
    <3>1. i \in 1..Len(x) /\ \A k \in 1..(i - 1) : k \in 1..Len(x) /\ k \in 1..Len(y) /\ k <= Len(y)
      BY <1>2, <2>3
    <3>2. \A k \in 1..(i - 1) : k <= Len(y) /\ Tied(L[k], y[k], x[k])
      BY <1>6, <1>8, <3>1
    <3>3. LexLess(L, y, x)
      BY <3>1, <3>2 DEF LexLess
    <3>4. c = -1 /\ ~LexLess(L, x, y)
      BY <1>1, <1>2, <1>3, <1>8, <2>3, <3>3, LexAsymmetric
    <3> QED
      BY <3>3, <3>4 DEF c, x, y, L
  <2> QED
    BY <1>2, <2>1, <2>2, <2>3
<1> QED
  BY <1>7, <1>8

\* Results that are sorted, and what is known of them.
Comparable(E) ==
    /\ E \subseteq 1..size /\ nodes \in Seq(Node) /\ options \in Option
    /\ \A i \in 1..size : Measured(nodes[i].data)

\* The numbers in the texts of E.
AllNumbers(E) == UNION {NumbersOf(nodes[a].data) : a \in E}

\* A result as SMT sees it.
LEMMA NodeType ==
    ASSUME NEW E, Comparable(E), NEW a \in E
    PROVE  nodes[a].id \in Nat /\ nodes[a].count \in Nat /\ nodes[a].data \in Seq(Nat) /\ Measured(nodes[a].data)
<1>1. a \in 1..size /\ nodes \in Seq(Node)
  BY DEF Comparable
<1>2. nodes[a] \in Node
  BY <1>1, ElementOfSeq DEF size
<1>3. nodes[a].id \in Nat /\ nodes[a].count \in Nat /\ nodes[a].data \in Seq(48..57 \cup {Dot} \cup 97..122)
  BY <1>2 DEF Node
<1>4. 48..57 \cup {Dot} \cup 97..122 \subseteq Nat
  BY DEF Dot
<1>5. nodes[a].data \in Seq(Nat)
  <2> DEFINE C == 48..57 \cup {Dot} \cup 97..122
  <2>1. nodes[a].data \in Seq(C) /\ C \subseteq Nat
    BY <1>3, <1>4
  <2> HIDE DEF C
  <2> QED
    BY <2>1, SeqMonotonic, Zenon
<1> QED
  BY <1>1, <1>3, <1>5 DEF Comparable

\* Its tokens.
LEMMA DataTokens ==
    ASSUME NEW E, Comparable(E), NEW a \in E
    PROVE  /\ Within(TokensOf(AllNumbers(E)), Tok(nodes[a].data))
           /\ DOMAIN Tok(nodes[a].data) = 1..Len(Tok(nodes[a].data))
           /\ NumbersOf(nodes[a].data) \subseteq Int
<1> DEFINE s == nodes[a].data  x == Tok(nodes[a].data)  N == AllNumbers(E)
<1>1. s \in Seq(Nat) /\ Measured(s)
  BY NodeType
<1>2. x \in Tokens
  BY <1>1, TokenizeType, MergedType DEF Tok
<1>3. x \in Seq(Seq(Nat)) /\ Len(x) \in Nat /\ DOMAIN x = 1..Len(x) /\ \A k \in 1..Len(x) : x[k] \in Seq(Nat) /\ Placed(k, x[k])
  BY <1>2, LenProperties, ElementOfSeq DEF Tokens
<1>4. \A k \in 1..Len(x) : IsNumber(x[k]) => Places(x[k]) <= Decimals
  BY <1>1, <1>3 DEF Measured, Tok
<1>5. NumbersOf(s) = {lexical_cast(x[i]) : i \in {k \in DOMAIN x : IsNumber(x[k])}}
  BY DEF NumbersOf, Tok
<1>6. NumbersOf(s) \subseteq N
  BY DEF AllNumbers
<1> HIDE DEF x, N, s
<1>7. \A k \in 1..Len(x) : IsNumber(x[k]) => lexical_cast(x[k]) \in Int
  BY <1>3, <1>4, CastInt
<1>8. \A k \in 1..Len(x) : IsNumber(x[k]) => lexical_cast(x[k]) \in N
  BY <1>3, <1>5, <1>6
<1>9. ASSUME NEW k \in 1..Len(x) PROVE x[k] \in TokensOf(N)[k]
  BY <1>3, <1>8 DEF TokensOf
<1>10. NumbersOf(s) \subseteq Int
  BY <1>3, <1>5, <1>7
<1> QED
  BY <1>3, <1>9, <1>10 DEF Within, x, N, s

\* Results without close numbers have numbers of which no two are close.
LEMMA NumbersApart ==
    ASSUME NEW E, Comparable(E), ~CloseNumbers(E)
    PROVE  Apart(AllNumbers(E))
<1>1. AllNumbers(E) \subseteq Int
  BY DataTokens DEF AllNumbers
<1>2. ASSUME NEW x \in AllNumbers(E), NEW y \in AllNumbers(E), Near(x, y) PROVE x = y
  <2>1. PICK a \in E : x \in NumbersOf(nodes[a].data)
    BY DEF AllNumbers
  <2>2. PICK b \in E : y \in NumbersOf(nodes[b].data)
    BY DEF AllNumbers
  <2> QED
    BY <1>2, <2>1, <2>2 DEF CloseNumbers
<1> QED
  BY <1>1, <1>2 DEF Apart

\* The texts of results without close numbers are in a strict weak order.
LEMMA DataOrder ==
    ASSUME NEW E, Comparable(E), ~CloseNumbers(E), NEW a \in E, NEW b \in E, NEW c \in E
    PROVE  LET cmp(x, y) == str_compare_nat(nodes[x].data, nodes[y].data)
           IN  /\ cmp(a, b) \in {-1, 0, 1} /\ (cmp(a, b) = 1 <=> cmp(b, a) = -1)
               /\ ~(cmp(a, b) = 1 /\ cmp(b, a) = 1)
               /\ cmp(a, b) = 1 => cmp(a, c) = 1 \/ cmp(c, b) = 1
<1> DEFINE N == AllNumbers(E)
           cmp(x, y) == str_compare_nat(nodes[x].data, nodes[y].data)
           T(x) == Tok(nodes[x].data)
           less(x, y) == LexLess(TokenLess, T(x), T(y))
<1>1. Apart(N)
  BY NumbersApart
<1>2. \A x \in E : Within(TokensOf(N), T(x)) /\ DOMAIN T(x) = 1..Len(T(x))
  BY DataTokens
<1>3. WeakOrders(TokensOf(N), TokenLess)
  BY <1>1, TokenWeak
<1>4. ASSUME NEW x \in E, NEW y \in E
      PROVE  /\ cmp(x, y) \in {-1, 0, 1} /\ (cmp(x, y) = 1 <=> less(x, y))
             /\ (cmp(x, y) = -1 <=> less(y, x))
  <2> HIDE DEF N
  <2> QED
    BY <1>1, <1>2, CompareLess
<1>5. /\ ~(less(a, b) /\ less(b, a))
      /\ less(a, b) => less(a, c) \/ less(c, b)
  <2> HIDE DEF N, T
  <2> QED
    BY <1>2, <1>3, LexOrder
<1>6. /\ cmp(a, b) \in {-1, 0, 1} /\ (cmp(a, b) = 1 <=> cmp(b, a) = -1)
      /\ ~(cmp(a, b) = 1 /\ cmp(b, a) = 1)
      /\ cmp(a, b) = 1 => cmp(a, c) = 1 \/ cmp(c, b) = 1
  <2>1. (cmp(a, b) = 1 <=> less(a, b)) /\ cmp(a, b) \in {-1, 0, 1}
    BY <1>4
  <2>2. (cmp(b, a) = 1 <=> less(b, a)) /\ (cmp(b, a) = -1 <=> less(a, b))
    BY <1>4
  <2>3. (cmp(a, c) = 1 <=> less(a, c)) /\ (cmp(c, b) = 1 <=> less(c, b))
    BY <1>4
  <2> HIDE DEF cmp, less
  <2> QED
    BY <1>5, <2>1, <2>2, <2>3
<1> QED
  BY <1>6

\* What one field says of two results.
FieldLess(f, a, b) ==
    IF f.field = "id" THEN IF f.direction = "Asc" THEN nodes[a].id < nodes[b].id ELSE nodes[b].id < nodes[a].id
    ELSE IF f.direction = "Asc" THEN Compare(f, nodes[a], nodes[b]) > 0 ELSE Compare(f, nodes[a], nodes[b]) < 0

\* Each field gives a strict weak order.
LEMMA FieldOrder ==
    ASSUME NEW E, Comparable(E), NEW f \in SortField, f.field = "data" => ~CloseNumbers(E),
           NEW a \in E, NEW b \in E, NEW c \in E
    PROVE  /\ ~(FieldLess(f, a, b) /\ FieldLess(f, b, a))
           /\ FieldLess(f, a, b) => FieldLess(f, a, c) \/ FieldLess(f, c, b)
           /\ f.field # "id" => (Compare(f, nodes[a], nodes[b]) = 0 <=> ~FieldLess(f, a, b) /\ ~FieldLess(f, b, a))
           /\ f.field = "id" => Compare(f, nodes[a], nodes[b]) # 0
           /\ (f.field = "id" => f.direction = "Asc" \/ nodes[a].id # nodes[b].id) /\ Compare(f, nodes[a], nodes[b]) # 0
                 => (FieldLess(f, a, b) <=> (Compare(f, nodes[a], nodes[b]) > 0) = (f.direction = "Asc"))
<1>1. f.field \in {"id", "data", "count"} /\ f.direction \in {"Asc", "Desc"}
  BY DEF SortField
<1>2. /\ nodes[a].id \in Nat /\ nodes[b].id \in Nat /\ nodes[c].id \in Nat
      /\ nodes[a].count \in Nat /\ nodes[b].count \in Nat /\ nodes[c].count \in Nat
  BY NodeType
<1>3. CASE f.field = "id"
  <2>1. f.direction = "Asc" => \A x, y : FieldLess(f, x, y) <=> nodes[x].id < nodes[y].id
    BY <1>3 DEF FieldLess
  <2>2. f.direction # "Asc" => \A x, y : FieldLess(f, x, y) <=> nodes[y].id < nodes[x].id
    BY <1>3 DEF FieldLess
  <2>3. Compare(f, nodes[a], nodes[b]) = IF nodes[a].id < nodes[b].id THEN 1 ELSE -1
    BY <1>3 DEF Compare
  <2> QED
    BY <1>2, <1>3, <2>1, <2>2, <2>3
<1>4. CASE f.field = "count"
  <2>1. \A x, y : Compare(f, nodes[x], nodes[y]) = nodes[y].count - nodes[x].count
    BY <1>4 DEF Compare
  <2>2. f.direction = "Asc" => \A x, y \in E : FieldLess(f, x, y) <=> nodes[y].count - nodes[x].count > 0
    BY <1>4, <2>1 DEF FieldLess
  <2>3. f.direction # "Asc" => \A x, y \in E : FieldLess(f, x, y) <=> nodes[y].count - nodes[x].count < 0
    BY <1>4, <2>1 DEF FieldLess
  <2>4. f.field # "id"
    BY <1>4
  <2> DEFINE d == nodes[a].count  e == nodes[b].count  g == nodes[c].count
  <2>5. CASE f.direction = "Asc"
    <3>1. /\ FieldLess(f, a, b) <=> e - d > 0
          /\ FieldLess(f, b, a) <=> d - e > 0
          /\ FieldLess(f, a, c) <=> g - d > 0
          /\ FieldLess(f, c, b) <=> e - g > 0
          /\ Compare(f, nodes[a], nodes[b]) = e - d
      BY <2>1, <2>2, <2>5
    <3> HIDE DEF d, e, g
    <3>2. d \in Nat /\ e \in Nat /\ g \in Nat
      BY <1>2 DEF d, e, g
    <3> QED
      BY <2>4, <2>5, <3>1, <3>2
  <2>6. CASE f.direction # "Asc"
    <3>1. /\ FieldLess(f, a, b) <=> e - d < 0
          /\ FieldLess(f, b, a) <=> d - e < 0
          /\ FieldLess(f, a, c) <=> g - d < 0
          /\ FieldLess(f, c, b) <=> e - g < 0
          /\ Compare(f, nodes[a], nodes[b]) = e - d
      BY <2>1, <2>3, <2>6
    <3> HIDE DEF d, e, g
    <3>2. d \in Nat /\ e \in Nat /\ g \in Nat
      BY <1>2 DEF d, e, g
    <3> QED
      BY <2>4, <2>6, <3>1, <3>2
  <2> QED
    BY <2>5, <2>6
<1>5. CASE f.field = "data"
  <2> DEFINE cmp(x, y) == str_compare_nat(nodes[x].data, nodes[y].data)
  <2>1. \A x, y : Compare(f, nodes[x], nodes[y]) = cmp(x, y)
    BY <1>5 DEF Compare
  <2>2. ASSUME NEW x \in E, NEW y \in E
        PROVE  /\ cmp(x, y) \in {-1, 0, 1} /\ (cmp(x, y) = 1 <=> cmp(y, x) = -1)
               /\ ~(cmp(x, y) = 1 /\ cmp(y, x) = 1)
    BY <1>5, DataOrder
  <2>3. /\ cmp(a, b) = 1 => cmp(a, c) = 1 \/ cmp(c, b) = 1
        /\ cmp(b, a) = 1 => cmp(b, c) = 1 \/ cmp(c, a) = 1
    BY <1>5, DataOrder
  <2> HIDE DEF cmp
  <2>4. f.direction = "Asc" => \A x, y \in E : FieldLess(f, x, y) <=> cmp(x, y) = 1
    BY <1>5, <2>1, <2>2 DEF FieldLess
  <2>5. f.direction # "Asc" => \A x, y \in E : FieldLess(f, x, y) <=> cmp(y, x) = 1
    BY <1>5, <2>1, <2>2 DEF FieldLess
  <2>6. /\ ~(FieldLess(f, a, b) /\ FieldLess(f, b, a))
        /\ FieldLess(f, a, b) => FieldLess(f, a, c) \/ FieldLess(f, c, b)
    BY <2>2, <2>3, <2>4, <2>5
  <2>7. cmp(a, b) = 0 <=> ~FieldLess(f, a, b) /\ ~FieldLess(f, b, a)
    BY <2>2, <2>4, <2>5
  <2>8. cmp(a, b) # 0 => (FieldLess(f, a, b) <=> (cmp(a, b) > 0) = (f.direction = "Asc"))
    <3>1. CASE f.direction = "Asc"
      BY <2>2, <2>4, <3>1
    <3>2. CASE f.direction # "Asc"
      BY <2>2, <2>5, <3>2
    <3> QED
      BY <3>1, <3>2
  <2> QED
    BY <1>5, <2>1, <2>6, <2>7, <2>8
<1> QED
  BY <1>1, <1>3, <1>4, <1>5

\* What sortCallback must not be given: equal ids for a descending order of them,
\* or close numbers for an order by texts.
Clear(E) ==
    /\ "id" \in FieldsUsed("Desc") => \A a, b \in E : a # b => nodes[a].id # nodes[b].id
    /\ "data" \in FieldsUsed("Asc") \cup FieldsUsed("Desc") => ~CloseNumbers(E)

\* The fields up to the first id, behind which none is looked at.
Looked ==
    LET ids == {k \in 1..Len(options.sortFields) : options.sortFields[k].field = "id"}
    IN  IF ids = {} THEN Len(options.sortFields) ELSE Min(ids)

Rows(E) == [k \in Nat |-> E]
RowLess(E) == [k \in Nat |-> {p \in E \X E : k \in 1..Looked /\ FieldLess(options.sortFields[k], p[1], p[2])}]
Row(a) == [k \in 1..Looked |-> a]

\* The fields that are looked at, as SMT sees them.
LEMMA LookedIs ==
    ASSUME options \in Option
    PROVE  LET F == options.sortFields
           IN  /\ F \in Seq(SortField) /\ Len(F) \in Nat /\ DOMAIN F = 1..Len(F)
               /\ Looked \in 0..Len(F)
               /\ \A k \in 1..Looked : F[k] \in SortField /\ (k < Looked => F[k].field # "id")
               /\ Looked < Len(F) => Looked >= 1 /\ F[Looked].field = "id"
<1> DEFINE F == options.sortFields
           ids == {k \in 1..Len(F) : F[k].field = "id"}
<1>1. F \in Seq(SortField)
  BY DEF Option
<1>2. Len(F) \in Nat /\ DOMAIN F = 1..Len(F) /\ \A k \in 1..Len(F) : F[k] \in SortField
  BY <1>1, LenProperties, ElementOfSeq
<1>3. Looked = IF ids = {} THEN Len(F) ELSE Min(ids)
  BY DEF Looked
<1> HIDE DEF F
<1>4. CASE ids = {}
  BY <1>1, <1>2, <1>3, <1>4 DEF F
<1>5. CASE ids # {}
  <2>1. Min(ids) \in ids /\ \A k \in ids : Min(ids) <= k
    <3>1. ids \subseteq Nat
      OBVIOUS
    <3> HIDE DEF ids
    <3>2. \E n \in ids : \A m \in ids : n <= m
      BY <1>5, <3>1, LeastNat
    <3> QED
      BY <3>2 DEF Min
  <2>2. Looked \in ids /\ \A k \in ids : Looked <= k
    BY <1>3, <1>5, <2>1
  <2>3. Looked \in 1..Len(F) /\ F[Looked].field = "id" /\ Looked \in Nat
    BY <2>2
  <2>4. ASSUME NEW k \in 1..Looked PROVE k \in 1..Len(F) /\ (k < Looked => F[k].field # "id")
    BY <1>2, <2>2, <2>3
  <2> QED
    BY <1>1, <1>2, <2>3, <2>4 DEF F
<1> QED
  BY <1>4, <1>5

\* No field that is looked at finds anything that is not clear.
LEMMA ClearFields ==
    ASSUME NEW E, Comparable(E), Clear(E), NEW k \in 1..Looked
    PROVE  LET f == options.sortFields[k]
           IN  /\ f \in SortField /\ (f.field = "data" => ~CloseNumbers(E))
               /\ f.field = "id" /\ f.direction # "Asc" => \A a, b \in E : a # b => nodes[a].id # nodes[b].id
<1> DEFINE F == options.sortFields  f == options.sortFields[k]
<1>1. options \in Option
  BY DEF Comparable
<1>2. k \in DOMAIN F /\ f \in SortField
  BY <1>1, LookedIs
<1>3. f.field \in FieldsUsed(f.direction)
  BY <1>2 DEF FieldsUsed
<1>4. f.direction \in {"Asc", "Desc"}
  BY <1>2 DEF SortField
<1>5. f.field = "data" => ~CloseNumbers(E)
  BY <1>3, <1>4 DEF Clear
<1>6. f.field = "id" /\ f.direction # "Asc" => \A a, b \in E : a # b => nodes[a].id # nodes[b].id
  BY <1>3, <1>4 DEF Clear
<1> QED
  BY <1>2, <1>5, <1>6

\* One result in a row is compared with another field by field.
LEMMA RowOrder ==
    ASSUME NEW E, Comparable(E), Clear(E)
    PROVE  /\ WeakOrders(Rows(E), RowLess(E))
           /\ \A k \in 1..Looked : \A a, b \in E : <<a, b>> \in RowLess(E)[k] <=> FieldLess(options.sortFields[k], a, b)
           /\ \A a \in E : Within(Rows(E), Row(a)) /\ Len(Row(a)) = Looked /\ \A k \in 1..Looked : Row(a)[k] = a
<1>0. Looked \in Nat
  <2>1. options \in Option
    BY DEF Comparable
  <2> QED
    BY <2>1, LookedIs
<1>1. ASSUME NEW k \in Nat, NEW a \in E, NEW b \in E
      PROVE  <<a, b>> \in RowLess(E)[k] <=> k \in 1..Looked /\ FieldLess(options.sortFields[k], a, b)
  BY DEF RowLess
<1>2. ASSUME NEW k \in Nat \ {0} PROVE WeakOrder(Rows(E)[k], RowLess(E)[k])
  <2>1. Rows(E)[k] = E
    BY DEF Rows
  <2> SUFFICES ASSUME NEW x \in E, NEW y \in E, NEW z \in E
               PROVE  /\ ~(<<x, y>> \in RowLess(E)[k] /\ <<y, x>> \in RowLess(E)[k])
                      /\ <<x, y>> \in RowLess(E)[k] => <<x, z>> \in RowLess(E)[k] \/ <<z, y>> \in RowLess(E)[k]
    BY <2>1 DEF WeakOrder
  <2>2. CASE k \in 1..Looked
    <3> DEFINE f == options.sortFields[k]
    <3>1. f \in SortField /\ (f.field = "data" => ~CloseNumbers(E))
      BY <2>2, ClearFields
    <3>2. /\ <<x, y>> \in RowLess(E)[k] <=> FieldLess(f, x, y)
          /\ <<y, x>> \in RowLess(E)[k] <=> FieldLess(f, y, x)
          /\ <<x, z>> \in RowLess(E)[k] <=> FieldLess(f, x, z)
          /\ <<z, y>> \in RowLess(E)[k] <=> FieldLess(f, z, y)
      BY <1>1, <2>2
    <3> HIDE DEF f
    <3> QED
      BY <3>1, <3>2, FieldOrder
  <2>3. CASE k \notin 1..Looked
    BY <1>1, <2>3
  <2> QED
    BY <2>2, <2>3
<1>3. ASSUME NEW a \in E
      PROVE  Within(Rows(E), Row(a)) /\ Len(Row(a)) = Looked /\ \A k \in 1..Looked : Row(a)[k] = a
  <2>1. Len(Row(a)) = Looked /\ \A k \in 1..Looked : Row(a)[k] = a
    BY <1>0 DEF Row
  <2>2. \A k \in 1..Looked : Rows(E)[k] = E
    BY <1>0 DEF Rows
  <2> QED
    BY <1>0, <2>1, <2>2 DEF Within
<1>4. \A k \in 1..Looked : k \in Nat
  BY <1>0
<1> QED
  BY <1>1, <1>2, <1>3, <1>4 DEF WeakOrders

\* sortCallback compares different results field by field.
LEMMA SoonerLess ==
    ASSUME NEW E, Comparable(E), Clear(E), NEW a \in E, NEW b \in E, a # b
    PROVE  Sooner(a, b) <=> LexLess(RowLess(E), Row(a), Row(b))
<1> DEFINE F == options.sortFields
           cmp(k) == Compare(F[k], nodes[a], nodes[b])
           deciding == {k \in DOMAIN F : cmp(k) # 0}
           L == RowLess(E)  x == Row(a)  y == Row(b)
<1>0. options \in Option
  BY DEF Comparable
<1>1. /\ Len(F) \in Nat /\ DOMAIN F = 1..Len(F) /\ Looked \in 0..Len(F)
      /\ \A k \in 1..Looked : F[k] \in SortField /\ (k < Looked => F[k].field # "id")
      /\ Looked < Len(F) => Looked >= 1 /\ F[Looked].field = "id"
  BY <1>0, LookedIs
<1>2. Sooner(a, b) <=> deciding # {} /\ (cmp(Min(deciding)) > 0) = (F[Min(deciding)].direction = "Asc")
  BY DEF Sooner, sortCallback
<1>3. ASSUME NEW k \in 1..Looked
      PROVE  /\ F[k].field # "id" => (cmp(k) = 0 <=> Tied(L[k], a, b))
             /\ F[k].field = "id" => cmp(k) # 0
             /\ cmp(k) # 0 => (<<a, b>> \in L[k] <=> (cmp(k) > 0) = (F[k].direction = "Asc"))
  <2> DEFINE f == F[k]
  <2>1. /\ f \in SortField /\ (f.field = "data" => ~CloseNumbers(E))
        /\ f.field = "id" => f.direction = "Asc" \/ nodes[a].id # nodes[b].id
    BY ClearFields
  <2>2. (<<a, b>> \in L[k] <=> FieldLess(f, a, b)) /\ (<<b, a>> \in L[k] <=> FieldLess(f, b, a))
    BY RowOrder
  <2> HIDE DEF f
  <2>3. /\ f.field # "id" => (Compare(f, nodes[a], nodes[b]) = 0 <=> ~FieldLess(f, a, b) /\ ~FieldLess(f, b, a))
        /\ f.field = "id" => Compare(f, nodes[a], nodes[b]) # 0
        /\ Compare(f, nodes[a], nodes[b]) # 0
              => (FieldLess(f, a, b) <=> (Compare(f, nodes[a], nodes[b]) > 0) = (f.direction = "Asc"))
    BY <2>1, FieldOrder
  <2> QED
    BY <2>2, <2>3 DEF Tied, f
<1>4. /\ Len(x) = Looked /\ \A k \in 1..Looked : x[k] = a
      /\ Len(y) = Looked /\ \A k \in 1..Looked : y[k] = b
  BY RowOrder
<1> HIDE DEF F, cmp, L, x, y
<1>5. ASSUME Sooner(a, b) PROVE LexLess(L, x, y)
  <2> DEFINE i == Min(deciding)
  <2>1. i \in deciding /\ \A k \in deciding : i <= k
    <3>1. deciding \subseteq Nat /\ deciding # {}
      BY <1>1, <1>2, <1>5
    <3> HIDE DEF deciding
    <3>2. \E n \in deciding : \A m \in deciding : n <= m
      BY <3>1, LeastNat
    <3> QED
      BY <3>2 DEF Min
  <2>2. (cmp(i) > 0) = (F[i].direction = "Asc")
    BY <1>2, <1>5
  <2> HIDE DEF i
  <2>3. i \in 1..Len(F) /\ cmp(i) # 0
    BY <1>1, <2>1
  <2>4. i \in 1..Looked
    <3>1. CASE Looked = Len(F)
      BY <2>3, <3>1
    <3>2. CASE Looked # Len(F)
      <4>1. Looked < Len(F)
        <5>1. Looked \in 0..Len(F) /\ Len(F) \in Nat /\ Looked # Len(F)
          BY <1>1, <3>2
        <5> QED
          BY <5>1
      <4>2. Looked >= 1 /\ F[Looked].field = "id"
        BY <1>1, <4>1
      <4>3. Looked \in 1..Len(F) /\ Looked \in 1..Looked
        BY <1>1, <4>2
      <4>4. Looked \in 1..Looked /\ Looked \in DOMAIN F /\ F[Looked].field = "id"
        BY <1>1, <4>2, <4>3
      <4>5. Looked \in deciding
        <5>1. cmp(Looked) # 0
          BY <1>3, <4>4
        <5> QED
          BY <4>4, <5>1
      <4>6. i <= Looked
        BY <2>1, <4>5
      <4> QED
        BY <1>1, <2>3, <4>6
    <3> QED
      BY <3>1, <3>2
  <2>5. ASSUME NEW k \in 1..(i - 1) PROVE k <= Len(x) /\ Tied(L[k], x[k], y[k])
    <3>1. k \in 1..Looked /\ k \in DOMAIN F /\ k < i /\ k < Looked
      BY <1>1, <2>4
    <3>2. cmp(k) = 0
      BY <2>1, <2>4, <3>1
    <3>3. Tied(L[k], a, b)
      BY <1>3, <3>1, <3>2
    <3> QED
      BY <1>1, <1>4, <3>1, <3>3
  <2>6. <<a, b>> \in L[i]
    BY <1>3, <2>2, <2>3, <2>4
  <2>7. i \in 1..Len(y) /\ i <= Len(x) /\ x[i] = a /\ y[i] = b
    BY <1>1, <1>4, <2>4
  <2> QED
    BY <2>5, <2>6, <2>7 DEF LexLess
<1>6. ASSUME LexLess(L, x, y) PROVE Sooner(a, b)
  <2>1. PICK i \in 1..Len(y) : /\ \A k \in 1..(i - 1) : k <= Len(x) /\ Tied(L[k], x[k], y[k])
                               /\ i = Len(x) + 1 \/ (i <= Len(x) /\ <<x[i], y[i]>> \in L[i])
    BY <1>6 DEF LexLess
  <2>2. i \in 1..Looked /\ i # Len(x) + 1 /\ i \in DOMAIN F /\ i \in Nat
    BY <1>1, <1>4
  <2>3. <<a, b>> \in L[i]
    BY <1>4, <2>1, <2>2
  <2>4. cmp(i) # 0
    BY <1>3, <2>2, <2>3 DEF Tied
  <2>5. ASSUME NEW k \in deciding PROVE i <= k
    <3>1. k \in DOMAIN F /\ cmp(k) # 0
      OBVIOUS
    <3> SUFFICES ASSUME k < i PROVE FALSE
      BY <1>1, <2>2, <3>1
    <3>2. k \in 1..(i - 1) /\ k \in 1..Looked /\ k < Looked
      BY <1>1, <2>2, <3>1
    <3>3. Tied(L[k], a, b)
      BY <1>4, <2>1, <3>2
    <3> QED
      BY <1>1, <1>3, <3>1, <3>2, <3>3
  <2>6. i \in deciding
    BY <2>2, <2>4
  <2>7. deciding \subseteq Nat
    BY <1>1
  <2> HIDE DEF deciding
  <2>8. Min(deciding) \in deciding /\ \A k \in deciding : Min(deciding) <= k
    BY <2>5, <2>6 DEF Min
  <2>9. Min(deciding) = i
    <3>1. Min(deciding) <= i /\ i <= Min(deciding) /\ Min(deciding) \in Nat
      BY <2>5, <2>6, <2>7, <2>8
    <3> QED
      BY <2>2, <3>1
  <2>10. (cmp(i) > 0) = (F[i].direction = "Asc")
    BY <1>3, <2>2, <2>3, <2>4
  <2> QED
    BY <1>2, <2>6, <2>9, <2>10
<1> QED
  BY <1>5, <1>6 DEF L, x, y

\* sortCallback is a strict weak order where nothing is unclear.
LEMMA ComparesWell ==
    ASSUME NEW E, Comparable(E), Clear(E)
    PROVE  StrictWeakOrder(E, Sooner)
<1> DEFINE less(a, b) == LexLess(RowLess(E), Row(a), Row(b))
<1>1. ASSUME NEW a \in E, NEW b \in E, NEW c \in E
      PROVE  /\ ~(less(a, b) /\ less(b, a))
             /\ less(a, b) => less(a, c) \/ less(c, b)
  <2>1. /\ WeakOrders(Rows(E), RowLess(E))
        /\ Within(Rows(E), Row(a)) /\ Within(Rows(E), Row(b)) /\ Within(Rows(E), Row(c))
    BY RowOrder
  <2> QED
    BY <2>1, LexOrder
<1>2. \A a \in E : \A b \in E \ {a} : Sooner(a, b) <=> less(a, b)
  BY SoonerLess
<1> HIDE DEF less
<1>3. ASSUME NEW a \in E, NEW b \in E \ {a}
      PROVE  ~(Sooner(a, b) /\ Sooner(b, a))
  BY <1>1, <1>2
<1>4. ASSUME NEW a \in E, NEW b \in E \ {a}, NEW c \in E \ {a, b}
      PROVE  /\ Sooner(a, b) /\ Sooner(b, c) => Sooner(a, c)
             /\ (~Sooner(a, b) /\ ~Sooner(b, a)) /\ (~Sooner(b, c) /\ ~Sooner(c, b)) => (~Sooner(a, c) /\ ~Sooner(c, a))
  <2>1. /\ Sooner(a, b) <=> less(a, b)
        /\ Sooner(b, a) <=> less(b, a)
        /\ Sooner(b, c) <=> less(b, c)
        /\ Sooner(c, b) <=> less(c, b)
        /\ Sooner(a, c) <=> less(a, c)
        /\ Sooner(c, a) <=> less(c, a)
    BY <1>2
  <2>2. /\ ~(less(b, c) /\ less(c, b))
        /\ less(a, b) => less(a, c) \/ less(c, b)
        /\ less(a, c) => less(a, b) \/ less(b, c)
        /\ less(c, a) => less(c, b) \/ less(b, a)
    BY <1>1
  <2> QED
    BY <2>1, <2>2
<1> QED
  BY <1>3, <1>4 DEF StrictWeakOrder

\* The window that is read.
LEMMA WindowRange ==
    ASSUME PagingInv, at = "collect"
    PROVE  PagingTypeOK /\ start \in Nat /\ end \in Int /\ end <= size
<1>1. PagingTypeOK /\ ResultsInv /\ WindowInv
  BY Asked
<1>2. IntMax \in Nat /\ int = (-IntMax - 1)..IntMax /\ size \in Nat /\ skip_ \in Nat /\ paginate_ \in Nat
  BY <1>1, Ints DEF WindowInv
<1>3. Wrap(paginate_ + skip_) \in int
  <2>1. paginate_ + skip_ \in Int
    BY <1>2
  <2> QED
    BY <2>1, WrapInt
<1>4. AtMost(Wrap(paginate_ + skip_), size) <= size /\ AtMost(Wrap(paginate_ + skip_), size) \in Int
  BY <1>2, <1>3 DEF AtMost
<1> QED
  BY <1>1, <1>2, <1>4 DEF WindowInv

\* std::sort neither loses nor adds anything, and sorts.
LEMMA SortedIs ==
    ASSUME NEW T, NEW c \in Seq(T), NEW s \in Orders(c), options.sortType = "Specific"
    PROVE  s \in Seq(T) /\ InOrder(s)
<1>1. Len(c) \in Nat /\ DOMAIN c = 1..Len(c) /\ \A i \in 1..Len(c) : c[i] \in T
  BY LenProperties, ElementOfSeq
<1> DEFINE all == {[i \in DOMAIN c |-> c[p[i]]] : p \in SetToSeqs(DOMAIN c)}
           D == 1..Len(c)
<1>2. Cardinality(DOMAIN c) = Len(c) /\ IsFiniteSet(DOMAIN c)
  <2>1. 1 \in Int /\ Len(c) \in Int
    BY <1>1
  <2>2. IsFiniteSet(1..Len(c)) /\ Cardinality(1..Len(c)) = IF 1 > Len(c) THEN 0 ELSE Len(c) - 1 + 1
    BY <2>1, FS_Interval, Zenon
  <2> QED
    BY <1>1, <2>2
<1>3. s \in Sorted(all, ToSet(c))
  BY DEF Orders
<1>4. s \in all /\ (StrictWeakOrder(ToSet(c), Sooner) => \A i, k \in DOMAIN s : i < k => ~Sooner(s[k], s[i]))
  <2> HIDE DEF all
  <2> QED
    BY <1>3 DEF Sorted
<1>5. PICK p \in SetToSeqs(DOMAIN c) : s = [i \in DOMAIN c |-> c[p[i]]]
  BY <1>4
<1>6. p \in [D -> D] /\ \A i, h \in D : i # h => p[i] # p[h]
  BY <1>1, <1>2 DEF SetToSeqs
<1>7. p \in Injection(D, D)
  BY <1>6 DEF Injection, IsInjective
<1>8. p \in Surjection(D, D)
  <2>1. IsFiniteSet(D)
    BY <1>1, <1>2
  <2> HIDE DEF D
  <2> QED
    BY <1>7, <2>1, FS_Injection
<1>9. \A i \in D : \E h \in D : p[h] = i
  BY <1>8 DEF Surjection
<1>10. s \in Seq(T) /\ DOMAIN s = D /\ \A i \in D : s[i] = c[p[i]]
  <2>1. \A i \in 1..Len(c) : c[p[i]] \in T
    BY <1>1, <1>6
  <2> QED
    BY <1>1, <1>5, <2>1
<1>11. ToSet(s) = ToSet(c)
  <2>1. ToSet(s) = {s[i] : i \in D} /\ ToSet(c) = {c[i] : i \in D}
    BY <1>1, <1>10 DEF ToSet
  <2>2. ToSet(s) \subseteq ToSet(c)
    BY <1>6, <1>10, <2>1
  <2>3. ToSet(c) \subseteq ToSet(s)
    BY <1>9, <1>10, <2>1
  <2> QED
    BY <2>2, <2>3
<1> QED
  BY <1>4, <1>10, <1>11 DEF InOrder

\* Before the first query there is nothing to sort.
LEMMA OrderInitInv ==
    PagingInit => OrderInv
<1> SUFFICES ASSUME PagingInit PROVE OrderInv
  OBVIOUS
<1>1. nodes = <<>> /\ size = 0 /\ ordered = <<>> /\ at = "done" /\ 1..0 = {}
  BY EmptySeq DEF PagingInit, size
<1>2. ordered \in Seq(1..size) /\ DOMAIN ordered = {}
  BY <1>1, EmptySeq
<1> QED
  BY <1>1, <1>2 DEF OrderInv, InOrder

\* What is known of the order stays known while the results stay the same.
LEMMA SameOrder ==
    ASSUME options' = options, nodes' = nodes
    PROVE  size' = size /\ (\A a, b : Sooner(a, b)' <=> Sooner(a, b))
  BY DEF size, Sooner, sortCallback

\* Every step keeps what is known of the order.
LEMMA OrderStepInv ==
    PagingInv /\ OrderInv /\ [PagingNext]_pagingVars => OrderInv'
<1> SUFFICES ASSUME PagingInv, OrderInv, [PagingNext]_pagingVars PROVE OrderInv'
  OBVIOUS
<1>1. CASE query
  <2>1. PICK r \in Results(options) : Enter(options, r)
    BY <1>1 DEF query
  <2>2. r \in Lists(options) /\ options \in Options
    BY DEF Results, PagingInv, PagingTypeOK
  <2>3. r \in Seq(Node) /\ \A i \in DOMAIN r : Measured(r[i].data)
    BY <2>2, PagingAssumption DEF PagingAssumption
  <2>4. DOMAIN r = 1..Len(r)
    BY <2>3, LenProperties
  <2>5. nodes' = r /\ size' = Len(r) /\ at' \in {"groups", "pages"}
    BY <2>1 DEF Enter, size
  <2> QED
    BY <2>3, <2>4, <2>5 DEF OrderInv
<1>2. CASE GroupLoop \/ GroupLoopEnds \/ PageStart \/ Window
  <2>1. options' = options /\ nodes' = nodes /\ at' \notin {"sort", "done"}
    BY <1>2 DEF GroupLoop, GroupLoopEnds, PageStart, Window
  <2>2. size' = size
    BY <2>1, SameOrder
  <2> QED
    BY <2>1, <2>2 DEF OrderInv
<1>3. CASE Collect
  <2>1. /\ options' = options /\ nodes' = nodes /\ at = "collect"
        /\ at' = IF options.sortType = "None" THEN "done" ELSE "sort"
        /\ contexts' = IF options.filter THEN Filtered ELSE Unfiltered
    BY <1>3 DEF Collect
  <2>2. size' = size
    BY <2>1, SameOrder
  <2>3. contexts' \in Seq(1..size)
    BY <2>1, WindowRange, FilteredIs, UnfilteredIs
  <2>4. ~(at' = "done" /\ options'.sortType = "Specific")
    BY <2>1
  <2> QED
    BY <2>1, <2>2, <2>3, <2>4 DEF OrderInv
<1>4. CASE Sort
  <2>1. options' = options /\ nodes' = nodes /\ at = "sort" /\ at' = "done" /\ ordered' \in Orders(contexts)
    BY <1>4 DEF Sort
  <2>2. size' = size /\ (\A a, b : Sooner(a, b)' <=> Sooner(a, b))
    BY <2>1, SameOrder
  <2>3. contexts \in Seq(1..size)
    BY <2>1 DEF OrderInv
  <2>4. PICK s \in Orders(contexts) : ordered' = s
    BY <2>1
  <2>5. options.sortType = "Specific" => s \in Seq(1..size) /\ InOrder(s)
    BY <2>3, SortedIs
  <2>6. options.sortType = "Specific" => InOrder(ordered)'
    BY <2>2, <2>4, <2>5 DEF InOrder, StrictWeakOrder
  <2> QED
    BY <2>1, <2>2, <2>4, <2>5, <2>6 DEF OrderInv
<1>5. CASE UNCHANGED pagingVars
  <2>1. options' = options /\ nodes' = nodes /\ at' = at /\ contexts' = contexts /\ ordered' = ordered
    BY <1>5 DEF pagingVars
  <2>2. size' = size /\ (\A a, b : Sooner(a, b)' <=> Sooner(a, b))
    BY <2>1, SameOrder
  <2>3. InOrder(ordered)' <=> InOrder(ordered)
    BY <2>1, <2>2 DEF InOrder, StrictWeakOrder
  <2> QED
    BY <2>1, <2>2, <2>3 DEF OrderInv
<1> QED
  BY <1>1, <1>2, <1>3, <1>4, <1>5 DEF PagingNext

\* Both hold always.
LEMMA OrderInvariant ==
    PagingSpec => [](PagingInv /\ OrderInv)
  BY PagingInitInv, PagingStepInv, OrderInitInv, OrderStepInv, PTL DEF PagingSpec

\* The comparison by which Response::query sorts is the strict weak order that
\* std::sort demands, of all contexts that any query may find, whatever texts,
\* ids and counts they have and whatever fields they are sorted by, unless ids
\* in descending order are equal or numbers in texts are close.
THEOREM PagingComparesConsistently ==
    PagingSpec => []ComparesConsistently
<1>1. PagingInv /\ OrderInv => ComparesConsistently
  <2> SUFFICES ASSUME PagingInv, OrderInv, at = "sort", options.sortType = "Specific",
                      ~(/\ "id" \in FieldsUsed("Desc")
                        /\ \E a, b \in ToSet(contexts) : a # b /\ nodes[a].id = nodes[b].id),
                      ~("data" \in FieldsUsed("Asc") \cup FieldsUsed("Desc") /\ CloseNumbers(ToSet(contexts)))
               PROVE  StrictWeakOrder(ToSet(contexts), Sooner)
    BY DEF ComparesConsistently, Compared
  <2>1. contexts \in Seq(1..size) /\ \A i \in 1..size : Measured(nodes[i].data)
    BY DEF OrderInv
  <2>2. ToSet(contexts) \subseteq 1..size
    <3>1. DOMAIN contexts = 1..Len(contexts) /\ \A i \in 1..Len(contexts) : contexts[i] \in 1..size
      BY <2>1, LenProperties, ElementOfSeq
    <3> QED
      BY <3>1 DEF ToSet
  <2>3. nodes \in Seq(Node) /\ options \in Option
    BY PagingAssumption DEF PagingInv, PagingTypeOK, PagingAssumption
  <2>4. Comparable(ToSet(contexts))
    BY <2>1, <2>2, <2>3 DEF Comparable
  <2>5. Clear(ToSet(contexts))
    BY DEF Clear
  <2> QED
    BY <2>4, <2>5, ComparesWell
<1> QED
  BY <1>1, OrderInvariant, PTL

\* A sequence with one more element, and one with another element, are known by
\* their elements.
LEMMA AppendIs ==
    ASSUME NEW T, NEW s \in Seq(T), NEW t \in Seq(T), NEW e \in T, Len(t) = Len(s) + 1,
           \A i \in 1..Len(s) : t[i] = s[i], t[Len(s) + 1] = e
    PROVE  Append(s, e) = t
<1>1. /\ Append(s, e) \in Seq(T) /\ Len(Append(s, e)) = Len(s) + 1 /\ Len(s) \in Nat
      /\ \A i \in 1..Len(s) : Append(s, e)[i] = s[i]
      /\ Append(s, e)[Len(s) + 1] = e
  BY AppendProperties, LenProperties
<1>2. ASSUME NEW i \in 1..(Len(s) + 1) PROVE Append(s, e)[i] = t[i]
  <2>1. i \in 1..Len(s) \/ i = Len(s) + 1
    BY <1>1
  <2> QED
    BY <1>1, <2>1
<1> QED
  BY <1>1, <1>2, SeqEqual

LEMMA ExceptIs ==
    ASSUME NEW T, NEW s \in Seq(T), NEW t \in Seq(T), NEW h \in 1..Len(s), Len(t) = Len(s), t[h] \in T,
           \A i \in 1..Len(s) : i # h => t[i] = s[i]
    PROVE  [s EXCEPT ![h] = t[h]] = t
<1> DEFINE e == t[h]  u == [s EXCEPT ![h] = e]
<1>1. e \in T
  OBVIOUS
<1> HIDE DEF e
<1>2. u \in Seq(T) /\ Len(u) = Len(s) /\ \A i \in 1..Len(s) : u[i] = IF i = h THEN e ELSE s[i]
  BY <1>1, ExceptSeq
<1> HIDE DEF u
<1>3. Len(u) = Len(t) /\ \A i \in 1..Len(u) : u[i] = t[i]
  BY <1>2 DEF e
<1>4. u = t
  BY <1>2, <1>3, SeqEqual
<1> QED
  BY <1>4 DEF u, e

\* Short sequences, written out.
LEMMA Append1 ==
    ASSUME NEW T, NEW x \in T
    PROVE  Append(<<>>, x) = <<x>>
<1> DEFINE s == <<>>  t == <<x>>
<1>1. /\ Len(t) = 1 /\ Len(s) = 0 /\ t[1] = x /\ s \in Seq(T) /\ t \in Seq(T)
  OBVIOUS
<1> HIDE DEF s, t
<1>2. Len(t) = Len(s) + 1 /\ t[Len(s) + 1] = x /\ x \in T
  BY <1>1
<1>3. \A i \in 1..Len(s) : FALSE
  BY <1>1
<1>4. \A i \in 1..Len(s) : t[i] = s[i]
  BY <1>1, <1>3
<1>5. Append(s, x) = t
  BY <1>1, <1>2, <1>4, AppendIs
<1> QED
  BY <1>5 DEF s, t

LEMMA Append2 ==
    ASSUME NEW T, NEW x \in T, NEW y \in T
    PROVE  Append(<<x>>, y) = <<x, y>>
<1> DEFINE s == <<x>>  t == <<x, y>>
<1>1. /\ Len(t) = 2 /\ Len(s) = 1 /\ t[2] = y /\ s \in Seq(T) /\ t \in Seq(T)
      /\ t[1] = s[1]
  OBVIOUS
<1> HIDE DEF s, t
<1>2. Len(t) = Len(s) + 1 /\ t[Len(s) + 1] = y /\ y \in T
  BY <1>1
<1>3. \A i \in 1..Len(s) : i = 1
  BY <1>1
<1>4. \A i \in 1..Len(s) : t[i] = s[i]
  BY <1>1, <1>3
<1>5. Append(s, y) = t
  BY <1>1, <1>2, <1>4, AppendIs
<1> QED
  BY <1>5 DEF s, t

LEMMA Append3 ==
    ASSUME NEW T, NEW x \in T, NEW y \in T, NEW z \in T
    PROVE  Append(<<x, y>>, z) = <<x, y, z>>
<1> DEFINE s == <<x, y>>  t == <<x, y, z>>
<1>1. /\ Len(t) = 3 /\ Len(s) = 2 /\ t[3] = z /\ s \in Seq(T) /\ t \in Seq(T)
      /\ t[1] = s[1]
      /\ t[2] = s[2]
  OBVIOUS
<1> HIDE DEF s, t
<1>2. Len(t) = Len(s) + 1 /\ t[Len(s) + 1] = z /\ z \in T
  BY <1>1
<1>3. \A i \in 1..Len(s) : i = 1 \/ i = 2
  BY <1>1
<1>4. \A i \in 1..Len(s) : t[i] = s[i]
  BY <1>1, <1>3
<1>5. Append(s, z) = t
  BY <1>1, <1>2, <1>4, AppendIs
<1> QED
  BY <1>5 DEF s, t

LEMMA Append4 ==
    ASSUME NEW T, NEW x \in T, NEW y \in T, NEW z \in T, NEW w \in T
    PROVE  Append(<<x, y, z>>, w) = <<x, y, z, w>>
<1> DEFINE s == <<x, y, z>>  t == <<x, y, z, w>>
<1>1. /\ Len(t) = 4 /\ Len(s) = 3 /\ t[4] = w /\ s \in Seq(T) /\ t \in Seq(T)
      /\ t[1] = s[1]
      /\ t[2] = s[2]
      /\ t[3] = s[3]
  OBVIOUS
<1> HIDE DEF s, t
<1>2. Len(t) = Len(s) + 1 /\ t[Len(s) + 1] = w /\ w \in T
  BY <1>1
<1>3. \A i \in 1..Len(s) : i = 1 \/ i = 2 \/ i = 3
  BY <1>1
<1>4. \A i \in 1..Len(s) : t[i] = s[i]
  BY <1>1, <1>3
<1>5. Append(s, w) = t
  BY <1>1, <1>2, <1>4, AppendIs
<1> QED
  BY <1>5 DEF s, t

LEMMA Append5 ==
    ASSUME NEW T, NEW x \in T, NEW y \in T, NEW z \in T, NEW w \in T, NEW v \in T
    PROVE  Append(<<x, y, z, w>>, v) = <<x, y, z, w, v>>
<1> DEFINE s == <<x, y, z, w>>  t == <<x, y, z, w, v>>
<1>1. /\ Len(t) = 5 /\ Len(s) = 4 /\ t[5] = v /\ s \in Seq(T) /\ t \in Seq(T)
      /\ t[1] = s[1]
      /\ t[2] = s[2]
      /\ t[3] = s[3]
      /\ t[4] = s[4]
  OBVIOUS
<1> HIDE DEF s, t
<1>2. Len(t) = Len(s) + 1 /\ t[Len(s) + 1] = v /\ v \in T
  BY <1>1
<1>3. \A i \in 1..Len(s) : i = 1 \/ i = 2 \/ i = 3 \/ i = 4
  BY <1>1
<1>4. \A i \in 1..Len(s) : t[i] = s[i]
  BY <1>1, <1>3
<1>5. Append(s, v) = t
  BY <1>1, <1>2, <1>4, AppendIs
<1> QED
  BY <1>5 DEF s, t

LEMMA Except2 ==
    ASSUME NEW T, NEW x \in T, NEW y \in T, NEW v \in T
    PROVE  [<<x, y>> EXCEPT ![2] = v] = <<x, v>>
<1> DEFINE s == <<x, y>>  t == <<x, v>>
<1>1. /\ Len(t) = 2 /\ Len(s) = 2 /\ t[2] = v /\ s \in Seq(T) /\ t \in Seq(T)
      /\ t[1] = s[1]
  OBVIOUS
<1> HIDE DEF s, t
<1>2. 2 \in 1..Len(s) /\ t[2] \in T /\ Len(t) = Len(s)
  BY <1>1
<1>3. \A i \in 1..Len(s) : i = 1 \/ i = 2
  BY <1>1
<1>4. \A i \in 1..Len(s) : i # 2 => t[i] = s[i]
  BY <1>1, <1>3
<1>5. [s EXCEPT ![2] = t[2]] = t
  BY <1>1, <1>2, <1>4, ExceptIs
<1> QED
  BY <1>1, <1>5 DEF s, t

LEMMA Except4 ==
    ASSUME NEW T, NEW x \in T, NEW y \in T, NEW z \in T, NEW w \in T, NEW v \in T
    PROVE  [<<x, y, z, w>> EXCEPT ![4] = v] = <<x, y, z, v>>
<1> DEFINE s == <<x, y, z, w>>  t == <<x, y, z, v>>
<1>1. /\ Len(t) = 4 /\ Len(s) = 4 /\ t[4] = v /\ s \in Seq(T) /\ t \in Seq(T)
      /\ t[1] = s[1]
      /\ t[2] = s[2]
      /\ t[3] = s[3]
  OBVIOUS
<1> HIDE DEF s, t
<1>2. 4 \in 1..Len(s) /\ t[4] \in T /\ Len(t) = Len(s)
  BY <1>1
<1>3. \A i \in 1..Len(s) : i = 1 \/ i = 2 \/ i = 3 \/ i = 4
  BY <1>1
<1>4. \A i \in 1..Len(s) : i # 4 => t[i] = s[i]
  BY <1>1, <1>3
<1>5. [s EXCEPT ![4] = t[4]] = t
  BY <1>1, <1>2, <1>4, ExceptIs
<1> QED
  BY <1>1, <1>5 DEF s, t

\* token_end's loop on the few tokens of a decimal number.
LEMMA ExtendOne ==
    ASSUME NEW x \in Seq(Nat), NEW c \in Nat, isdigit(c)
    PROVE  Extend(<<x>>, c) = <<x, <<c>>>>
<1>1. Len(<<x>>) = 1 /\ 1 % 2 # 0
  OBVIOUS
<1>2. Extend(<<x>>, c) = Append(<<x>>, <<c>>)
  BY <1>1 DEF Extend, isdigit
<1>3. <<c>> \in Seq(Nat)
  OBVIOUS
<1> QED
  BY <1>2, <1>3, Append2

\* With two tokens, the last of which is a number.
LEMMA ExtendTwo ==
    ASSUME NEW x \in Seq(Nat), NEW y \in Seq(Nat), NEW c \in Nat
    PROVE  /\ isdigit(c) => Extend(<<x, y>>, c) = <<x, Append(y, c)>>
           /\ ~isdigit(c) => Extend(<<x, y>>, c) = <<x, y, <<c>>>>
<1> DEFINE e == Append(y, c)  u == <<c>>
<1>1. Len(<<x, y>>) = 2 /\ 2 % 2 = 0
  OBVIOUS
<1>2. e \in Seq(Nat) /\ u \in Seq(Nat)
  BY AppendProperties
<1>3. isdigit(c) => Extend(<<x, y>>, c) = [<<x, y>> EXCEPT ![2] = e]
  BY <1>1 DEF Extend, isdigit
<1>4. ~isdigit(c) => Extend(<<x, y>>, c) = Append(<<x, y>>, u)
  BY <1>1 DEF Extend, isdigit
<1> HIDE DEF e, u
<1>5. [<<x, y>> EXCEPT ![2] = e] = <<x, e>> /\ Append(<<x, y>>, u) = <<x, y, u>>
  BY <1>2, Except2, Append3
<1> QED
  BY <1>3, <1>4, <1>5 DEF e, u

\* With three tokens, the last of which is the dot.
LEMMA ExtendThree ==
    ASSUME NEW x \in Seq(Nat), NEW y \in Seq(Nat), NEW z \in Seq(Nat), NEW c \in Nat, isdigit(c)
    PROVE  Extend(<<x, y, z>>, c) = <<x, y, z, <<c>>>>
<1> DEFINE u == <<c>>
<1>1. Len(<<x, y, z>>) = 3 /\ 3 % 2 # 0
  OBVIOUS
<1>2. u \in Seq(Nat)
  OBVIOUS
<1>3. Extend(<<x, y, z>>, c) = Append(<<x, y, z>>, u)
  BY <1>1 DEF Extend, isdigit
<1> HIDE DEF u
<1>4. Append(<<x, y, z>>, u) = <<x, y, z, u>>
  BY <1>2, Append4
<1> QED
  BY <1>3, <1>4 DEF u

\* With four tokens, the last of which are the decimals.
LEMMA ExtendFour ==
    ASSUME NEW x \in Seq(Nat), NEW y \in Seq(Nat), NEW z \in Seq(Nat), NEW w \in Seq(Nat), NEW c \in Nat, isdigit(c)
    PROVE  Extend(<<x, y, z, w>>, c) = <<x, y, z, Append(w, c)>>
<1> DEFINE e == Append(w, c)
<1>1. Len(<<x, y, z, w>>) = 4 /\ 4 % 2 = 0
  OBVIOUS
<1>2. e \in Seq(Nat)
  BY AppendProperties
<1>3. Extend(<<x, y, z, w>>, c) = [<<x, y, z, w>> EXCEPT ![4] = e]
  BY <1>1 DEF Extend, isdigit
<1> HIDE DEF e
<1>4. [<<x, y, z, w>> EXCEPT ![4] = e] = <<x, y, z, e>>
  BY <1>2, Except4
<1> QED
  BY <1>3, <1>4 DEF e

\* merge_floats on them.
LEMMA MergeFirst ==
    ASSUME NEW x \in Seq(Nat)
    PROVE  Merge(<<>>, x) = <<x>>
<1>1. Merge(<<>>, x) = Append(<<>>, x)
  BY DEF Merge
<1> QED
  BY <1>1, Append1

LEMMA MergeSecond ==
    ASSUME NEW x \in Seq(Nat), NEW y \in Seq(Nat)
    PROVE  Merge(<<x>>, y) = <<x, y>>
<1>1. Len(<<x>>) = 1
  OBVIOUS
<1>2. Merge(<<x>>, y) = Append(<<x>>, y)
  BY <1>1 DEF Merge
<1> QED
  BY <1>2, Append2

LEMMA MergeThird ==
    ASSUME NEW x \in Seq(Nat), NEW y \in Seq(Nat), NEW z \in Seq(Nat), z = <<>> \/ IsNumber(y)
    PROVE  Merge(<<x, y>>, z) = <<x, y, z>>
<1>1. Len(<<x, y>>) = 2
  OBVIOUS
<1>2. z = <<>> \/ y # <<Dot>>
  BY DEF IsNumber, isdigit, Dot
<1>3. Merge(<<x, y>>, z) = Append(<<x, y>>, z)
  BY <1>1, <1>2 DEF Merge
<1> QED
  BY <1>3, Append3

LEMMA MergeDecimal ==
    ASSUME NEW x \in Seq(Nat), NEW y \in Seq(Nat), NEW z \in Seq(Nat),
           IsNumber(y), ~Contains(y, Dot), z # <<>>
    PROVE  Merge(<<x, y, <<Dot>>>>, z) = <<x, y \o <<Dot>> \o z>>
<1> DEFINE t == <<x, y, <<Dot>>>>  u == y \o <<Dot>> \o z
<1>1. <<Dot>> \in Seq(Nat) /\ u \in Seq(Nat)
  <2>1. <<Dot>> \in Seq(Nat)
    BY DEF Dot
  <2>2. y \o <<Dot>> \in Seq(Nat)
    BY <2>1, ConcatProperties
  <2> QED
    BY <2>1, <2>2, ConcatProperties
<1>2. /\ t \in Seq(Seq(Nat)) /\ Len(t) = 3 /\ t[3] = <<Dot>> /\ t[2] = y /\ t[1] = x
      /\ 3 - 1 = 2 /\ 3 - 2 = 1 /\ 3 >= 2
  BY <1>1
<1> HIDE DEF t
<1>3. SubSeq(t, 1, 1) = <<x>>
  <2>1. 1 \in Nat /\ 1 <= Len(t) /\ t \in Seq(Seq(Nat))
    BY <1>2
  <2>2. /\ SubSeq(t, 1, 1) \in Seq(Seq(Nat)) /\ Len(SubSeq(t, 1, 1)) = 1
        /\ \A k \in 1..1 : SubSeq(t, 1, 1)[k] = t[k]
    BY <2>1, Prefix, Zenon
  <2>3. <<x>> \in Seq(Seq(Nat)) /\ Len(<<x>>) = 1 /\ <<x>>[1] = x
    OBVIOUS
  <2>4. \A k \in 1..1 : SubSeq(t, 1, 1)[k] = <<x>>[k]
    BY <1>2, <2>2, <2>3
  <2> QED
    BY <2>2, <2>3, <2>4, SeqEqual
<1>4. Merge(t, z) = Append(SubSeq(t, 1, 1), u)
  BY <1>2 DEF Merge
<1> HIDE DEF u
<1>5. Append(<<x>>, u) = <<x, u>>
  BY <1>1, Append2
<1> QED
  BY <1>3, <1>4, <1>5 DEF t, u

\* A part of a text, and the part that is a character longer.
LEMMA Part ==
    ASSUME NEW s \in Seq(Nat), NEW a \in Nat, NEW i \in Nat, a <= i, i < Len(s)
    PROVE  /\ SubSeq(s, a + 1, i) \in Seq(Nat)
           /\ Append(SubSeq(s, a + 1, i), s[i + 1]) = SubSeq(s, a + 1, i + 1)
<1>1. Len(s) \in Nat /\ \A k \in 1..Len(s) : s[k] \in Nat
  BY LenProperties, ElementOfSeq
<1>2. a + 1 \in Int /\ i \in Int /\ i + 1 \in Int /\ s[i + 1] \in Nat
  BY <1>1
<1>3. /\ SubSeq(s, a + 1, i) \in Seq(Nat)
      /\ Len(SubSeq(s, a + 1, i)) = IF a + 1 <= i THEN i - (a + 1) + 1 ELSE 0
      /\ \A k \in 1..(i - (a + 1) + 1) : SubSeq(s, a + 1, i)[k] = s[a + 1 + k - 1]
  <2>1. \A k \in (a + 1)..i : s[k] \in Nat
    BY <1>1
  <2> QED
    BY <1>2, <2>1, SubSeqProperties
<1>4. /\ SubSeq(s, a + 1, i + 1) \in Seq(Nat)
      /\ Len(SubSeq(s, a + 1, i + 1)) = IF a + 1 <= i + 1 THEN i + 1 - (a + 1) + 1 ELSE 0
      /\ \A k \in 1..(i + 1 - (a + 1) + 1) : SubSeq(s, a + 1, i + 1)[k] = s[a + 1 + k - 1]
  <2>1. \A k \in (a + 1)..(i + 1) : s[k] \in Nat
    BY <1>1
  <2> QED
    BY <1>2, <2>1, SubSeqProperties
<1> DEFINE p == SubSeq(s, a + 1, i)  q == SubSeq(s, a + 1, i + 1)
<1>5. Len(p) = i - a /\ \A k \in 1..(i - a) : p[k] = s[a + k]
  BY <1>3
<1>6. Len(q) = i + 1 - a /\ \A k \in 1..(i + 1 - a) : q[k] = s[a + k]
  <2>1. i + 1 - (a + 1) + 1 = i + 1 - a /\ a + 1 <= i + 1
    OBVIOUS
  <2>2. \A k \in 1..(i + 1 - a) : a + 1 + k - 1 = a + k
    OBVIOUS
  <2> HIDE DEF q
  <2>3. q = SubSeq(s, a + 1, i + 1)
    BY DEF q
  <2>4. Len(q) = i + 1 - a /\ \A k \in 1..(i + 1 - a) : q[k] = s[a + 1 + k - 1]
    BY <1>4, <2>1, <2>3, Zenon
  <2> QED
    BY <2>2, <2>4
<1>7. p \in Seq(Nat) /\ q \in Seq(Nat)
  BY <1>3, <1>4
<1> HIDE DEF p, q
<1>8. Len(q) = Len(p) + 1 /\ (\A k \in 1..Len(p) : q[k] = p[k]) /\ q[Len(p) + 1] = s[i + 1]
  <2>1. i - a \in Nat /\ i + 1 - a = i - a + 1 /\ a + (i - a + 1) = i + 1
    OBVIOUS
  <2>2. Len(q) = Len(p) + 1
    BY <1>5, <1>6, <2>1
  <2>3. \A k \in 1..Len(p) : q[k] = p[k]
    <3>1. \A k \in 1..(i - a) : k \in 1..(i + 1 - a)
      BY <2>1
    <3> QED
      BY <1>5, <1>6, <3>1
  <2>4. q[Len(p) + 1] = s[i + 1]
    <3>1. i - a + 1 \in 1..(i + 1 - a)
      BY <2>1
    <3>2. q[i - a + 1] = s[a + (i - a + 1)]
      BY <1>6, <3>1
    <3> QED
      BY <1>5, <2>1, <3>2
  <2> QED
    BY <2>2, <2>3, <2>4
<1>9. Append(p, s[i + 1]) = q
  <2> DEFINE e == s[i + 1]
  <2>1. e \in Nat /\ q[Len(p) + 1] = e
    BY <1>2, <1>8
  <2> HIDE DEF e
  <2>2. Append(p, e) = q
    BY <1>7, <1>8, <2>1, AppendIs
  <2> QED
    BY <2>2 DEF e
<1> QED
  BY <1>7, <1>9 DEF p, q

\* A part of one character.
LEMMA PartOne ==
    ASSUME NEW s \in Seq(Nat), NEW a \in Nat, a < Len(s)
    PROVE  SubSeq(s, a + 1, a + 1) = <<s[a + 1]>>
<1>1. Len(s) \in Nat /\ \A k \in 1..Len(s) : s[k] \in Nat
  BY LenProperties, ElementOfSeq
<1>2. a + 1 \in Int /\ s[a + 1] \in Nat /\ \A k \in (a + 1)..(a + 1) : s[k] \in Nat
  BY <1>1
<1>3. /\ SubSeq(s, a + 1, a + 1) \in Seq(Nat)
      /\ Len(SubSeq(s, a + 1, a + 1)) = IF a + 1 <= a + 1 THEN a + 1 - (a + 1) + 1 ELSE 0
      /\ \A k \in 1..(a + 1 - (a + 1) + 1) : SubSeq(s, a + 1, a + 1)[k] = s[a + 1 + k - 1]
  BY <1>2, SubSeqProperties
<1> DEFINE p == SubSeq(s, a + 1, a + 1)  q == <<s[a + 1]>>
<1>4. Len(p) = 1 /\ p[1] = s[a + 1] /\ p \in Seq(Nat)
  <2>1. a + 1 - (a + 1) + 1 = 1 /\ a + 1 <= a + 1 /\ a + 1 + 1 - 1 = a + 1
    OBVIOUS
  <2> HIDE DEF p
  <2>2. p = SubSeq(s, a + 1, a + 1)
    BY DEF p
  <2>3. p \in Seq(Nat) /\ Len(p) = 1 /\ \A k \in 1..1 : p[k] = s[a + 1 + k - 1]
    BY <1>3, <2>1, <2>2, Zenon
  <2>4. p[1] = s[a + 1 + 1 - 1]
    BY <2>3
  <2> QED
    BY <2>1, <2>3, <2>4
<1>5. Len(q) = 1 /\ q[1] = s[a + 1] /\ q \in Seq(Nat)
  BY <1>2
<1> HIDE DEF p, q
<1>6. Len(p) = Len(q) /\ \A k \in 1..Len(p) : p[k] = q[k]
  BY <1>4, <1>5
<1>7. p = q
  BY <1>4, <1>5, <1>6, SeqEqual
<1> QED
  BY <1>7 DEF p, q

\* The tokens of a decimal number without a dot, and of one with a dot.
LEMMA TokenizeDecimal ==
    ASSUME NEW s \in Seq(Nat), NEW d \in Nat, d > 1, d <= Len(s) + 1, d # Len(s),
           \A i \in 1..Len(s) : i # d => isdigit(s[i]), d <= Len(s) => s[d] = Dot
    PROVE  tokenize_string(s) = IF d = Len(s) + 1 THEN <<<<>>, s, <<>>>>
                                ELSE <<<<>>, SubSeq(s, 1, d - 1), <<Dot>>, SubSeq(s, d + 1, Len(s)), <<>>>>
<1> DEFINE n == Len(s)  pre(i) == SubSeq(s, 1, i)  post(i) == SubSeq(s, d + 1, i)
<1>1. n \in Nat /\ n >= 1 /\ s # <<>> /\ \A i \in 1..n : s[i] \in Nat
  <2>1. n \in Nat /\ n >= 1 /\ \A i \in 1..n : s[i] \in Nat
    BY LenProperties, ElementOfSeq
  <2> QED
    BY <2>1, EmptySeq
<1>2. PICK f : /\ tokenize_string(s) = IF s = <<>> THEN f[0] ELSE Append(f[n], <<>>)
               /\ f[0] = <<<<>>>> /\ \A i \in 1..n : f[i] = Extend(f[i - 1], s[i])
  BY TokenizeSteps
<1>3. /\ \A i \in 0..(n - 1) : pre(i) \in Seq(Nat) /\ Append(pre(i), s[i + 1]) = pre(i + 1)
      /\ <<s[1]>> = pre(1)
  <2>1. \A i \in 0..(n - 1) : SubSeq(s, 0 + 1, i) \in Seq(Nat) /\ Append(SubSeq(s, 0 + 1, i), s[i + 1]) = SubSeq(s, 0 + 1, i + 1)
    <3> SUFFICES ASSUME NEW i \in 0..(n - 1)
                 PROVE  SubSeq(s, 0 + 1, i) \in Seq(Nat) /\ Append(SubSeq(s, 0 + 1, i), s[i + 1]) = SubSeq(s, 0 + 1, i + 1)
      OBVIOUS
    <3>1. 0 \in Nat /\ i \in Nat /\ 0 <= i /\ i < n
      BY <1>1
    <3> QED
      BY <3>1, Part, Zenon
  <2>2. 0 \in Nat /\ 0 < n
    BY <1>1
  <2>3. SubSeq(s, 0 + 1, 0 + 1) = <<s[0 + 1]>>
    BY <2>2, PartOne, Zenon
  <2>4. 0 + 1 = 1
    OBVIOUS
  <2> QED
    BY <2>1, <2>3, <2>4
<1>4. \A i \in d..(n - 1) : post(i) \in Seq(Nat) /\ Append(post(i), s[i + 1]) = post(i + 1)
  BY <1>1, Part
<1>5. d <= n => <<s[d + 1]>> = post(d + 1)
  BY <1>1, PartOne
<1> HIDE DEF pre, post
<1>6. isdigit(s[1]) /\ (d <= n => ~isdigit(s[d])) /\ <<>> \in Seq(Nat)
  BY <1>1 DEF isdigit, Dot
<1>7. f[1] = <<<<>>, pre(1)>>
  <2>1. f[1] = Extend(<<<<>>>>, s[1])
    <3>1. 1 \in 1..n /\ 1 - 1 = 0
      BY <1>1
    <3> QED
      BY <1>2, <3>1
  <2>2. Extend(<<<<>>>>, s[1]) = <<<<>>, <<s[1]>>>>
    <3>1. s[1] \in Nat
      BY <1>1
    <3> QED
      BY <1>6, <3>1, ExtendOne
  <2> QED
    BY <1>3, <2>1, <2>2
<1> DEFINE dot == <<Dot>>
<1>20. dot = <<Dot>> /\ dot \in Seq(Nat)
  BY DEF Dot
<1> HIDE DEF dot
<1> DEFINE g(i) == IF i < d THEN <<<<>>, pre(i)>>
                   ELSE IF i = d THEN <<<<>>, pre(d - 1), dot>>
                   ELSE <<<<>>, pre(d - 1), dot, post(i)>>
           P == {i \in Nat : f[i + 1] = g(i + 1)}
<1>8. 0 \in P
  <2>1. 0 + 1 = 1 /\ 1 < d
    OBVIOUS
  <2> QED
    BY <1>7, <2>1
<1>9. ASSUME NEW i \in 0..(n - 1 - 1), i \in P PROVE i + 1 \in P
  <2> DEFINE h == i + 1
  <2>1. h \in 1..(n - 1) /\ h \in Nat /\ h + 1 \in 1..n /\ h + 1 - 1 = h /\ s[h + 1] \in Nat /\ i + 1 \in Nat /\ i + 1 = h
        /\ h \in 0..(n - 1)
    BY <1>1
  <2>2. f[h] = g(h)
    BY <1>9
  <2> HIDE DEF h
  <2>3. f[h + 1] = Extend(g(h), s[h + 1])
    BY <1>2, <2>1, <2>2
  <2>4. Extend(g(h), s[h + 1]) = g(h + 1)
    <3>0. d \in Nat /\ pre(h) \in Seq(Nat)
      BY <1>3, <2>1
    <3>1. CASE h + 1 < d
      <4>1. isdigit(s[h + 1]) /\ h < d
        BY <2>1, <3>1
      <4>2. Extend(<<<<>>, pre(h)>>, s[h + 1]) = <<<<>>, Append(pre(h), s[h + 1])>>
        BY <1>6, <2>1, <3>0, <4>1, ExtendTwo
      <4> QED
        BY <1>3, <2>1, <3>1, <4>1, <4>2
    <3>2. CASE h + 1 = d
      <4>1. d <= n /\ s[h + 1] = Dot /\ ~isdigit(s[h + 1]) /\ h < d /\ h = d - 1
        BY <1>6, <2>1, <3>2
      <4>2. Extend(<<<<>>, pre(h)>>, s[h + 1]) = <<<<>>, pre(h), <<s[h + 1]>>>>
        BY <1>6, <2>1, <3>0, <4>1, ExtendTwo
      <4>3. g(h) = <<<<>>, pre(h)>>
        BY <4>1
      <4>4. g(h + 1) = <<<<>>, pre(d - 1), dot>>
        BY <3>2
      <4>5. <<s[h + 1]>> = dot /\ pre(h) = pre(d - 1)
        BY <1>20, <4>1
      <4> HIDE DEF g
      <4> QED
        BY <4>2, <4>3, <4>4, <4>5
    <3>3. CASE h = d
      <4>1. isdigit(s[h + 1]) /\ d <= n /\ d - 1 \in 0..(n - 1) /\ ~(h + 1 < d) /\ h + 1 # d
        BY <2>1, <3>3
      <4>2. pre(d - 1) \in Seq(Nat) /\ dot \in Seq(Nat)
        BY <1>3, <1>20, <4>1
      <4>3. Extend(<<<<>>, pre(d - 1), dot>>, s[h + 1]) = <<<<>>, pre(d - 1), dot, <<s[h + 1]>>>>
        <5>1. <<>> \in Seq(Nat) /\ s[h + 1] \in Nat /\ isdigit(s[h + 1])
          BY <1>6, <2>1, <4>1
        <5> QED
          BY <4>2, <5>1, ExtendThree, Zenon
      <4> QED
        BY <1>5, <3>3, <4>1, <4>3
    <3>4. CASE h > d
      <4>1. isdigit(s[h + 1]) /\ d <= n /\ d - 1 \in 0..(n - 1) /\ h \in d..(n - 1) /\ ~(h < d) /\ h # d /\ ~(h + 1 < d) /\ h + 1 # d
        BY <2>1, <3>4
      <4>2. pre(d - 1) \in Seq(Nat) /\ dot \in Seq(Nat) /\ post(h) \in Seq(Nat) /\ Append(post(h), s[h + 1]) = post(h + 1)
        BY <1>3, <1>4, <1>20, <4>1
      <4>3. Extend(<<<<>>, pre(d - 1), dot, post(h)>>, s[h + 1]) = <<<<>>, pre(d - 1), dot, Append(post(h), s[h + 1])>>
        <5> DEFINE x == <<>>  y == pre(d - 1)  w == post(h)  c == s[h + 1]
        <5>1. x \in Seq(Nat) /\ y \in Seq(Nat) /\ dot \in Seq(Nat) /\ w \in Seq(Nat) /\ c \in Nat /\ isdigit(c)
          BY <1>6, <2>1, <4>1, <4>2
        <5> HIDE DEF x, y, w, c
        <5>2. Extend(<<x, y, dot, w>>, c) = <<x, y, dot, Append(w, c)>>
          BY <5>1, ExtendFour, SMTT(60)
        <5> QED
          BY <5>2 DEF x, y, w, c
      <4>4. g(h) = <<<<>>, pre(d - 1), dot, post(h)>> /\ g(h + 1) = <<<<>>, pre(d - 1), dot, post(h + 1)>>
        BY <4>1
      <4> HIDE DEF g
      <4> QED
        BY <4>2, <4>3, <4>4
    <3> QED
      BY <2>1, <3>0, <3>1, <3>2, <3>3, <3>4
  <2> HIDE DEF g
  <2>5. f[h + 1] = g(h + 1)
    BY <2>3, <2>4
  <2> QED
    BY <2>1, <2>5
<1>10. f[n] = g(n)
  <2>1. n - 1 \in Nat /\ n - 1 \in 0..(n - 1) /\ n - 1 + 1 = n
    BY <1>1
  <2> HIDE DEF P
  <2>2. \A i \in 0..(n - 1) : i \in P
    BY <1>8, <1>9, <2>1, Induct
  <2>3. n - 1 \in P
    BY <2>1, <2>2
  <2> QED
    BY <2>1, <2>3 DEF P
<1>11. tokenize_string(s) = Append(g(n), <<>>)
  BY <1>1, <1>2, <1>10
<1>12. CASE d = n + 1
  <2>1. pre(n) = s
    <3>1. n \in Nat /\ n <= Len(s)
      BY <1>1
    <3>2. /\ SubSeq(s, 1, n) \in Seq(Nat) /\ Len(SubSeq(s, 1, n)) = n
          /\ \A k \in 1..n : SubSeq(s, 1, n)[k] = s[k]
      BY <3>1, Prefix
    <3> QED
      BY <3>2, SeqEqual DEF pre
  <2>2. g(n) = <<<<>>, s>>
    BY <1>1, <1>12, <2>1
  <2>3. Append(<<<<>>, s>>, <<>>) = <<<<>>, s, <<>>>>
    BY <1>6, Append3
  <2> HIDE DEF g
  <2> QED
    BY <1>11, <1>12, <2>2, <2>3
<1>13. CASE d # n + 1
  <2>1. d - 1 \in 0..(n - 1) /\ n > d /\ d \in d..(n - 1)
    BY <1>1, <1>13
  <2>2. pre(d - 1) \in Seq(Nat) /\ dot \in Seq(Nat) /\ post(n) \in Seq(Nat)
    <3>1. n - 1 \in d..(n - 1) /\ n - 1 + 1 = n /\ s[n] \in Nat
      BY <1>1, <2>1
    <3>2. Append(post(n - 1), s[n]) = post(n) /\ post(n - 1) \in Seq(Nat)
      BY <1>4, <3>1
    <3>3. Append(post(n - 1), s[n]) \in Seq(Nat)
      BY <3>1, <3>2, AppendProperties
    <3> QED
      BY <1>3, <1>20, <2>1, <3>2, <3>3
  <2>3. g(n) = <<<<>>, pre(d - 1), dot, post(n)>>
    BY <1>1, <2>1
  <2>4. Append(<<<<>>, pre(d - 1), dot, post(n)>>, <<>>) = <<<<>>, pre(d - 1), dot, post(n), <<>>>>
    <3> DEFINE x == <<>>  y == pre(d - 1)  w == post(n)
    <3>1. x \in Seq(Nat) /\ y \in Seq(Nat) /\ dot \in Seq(Nat) /\ w \in Seq(Nat)
      BY <1>6, <2>2
    <3> HIDE DEF x, y, w
    <3>2. Append(<<x, y, dot, w>>, x) = <<x, y, dot, w, x>>
      BY <3>1, Append5
    <3> QED
      BY <3>2 DEF x, y, w
  <2>5. tokenize_string(s) = <<<<>>, pre(d - 1), dot, post(n), <<>>>>
    <3> HIDE DEF g
    <3> QED
      BY <1>11, <2>3, <2>4
  <2> QED
    BY <1>13, <2>5 DEF pre, post, dot
<1> QED
  BY <1>12, <1>13

\* Where the dot of a decimal number is, or behind the number if it has none.
LEMMA DotOf ==
    ASSUME NEW s \in Seq(Nat), IsDecimal(s)
    PROVE  \E d \in Nat : /\ d > 1 /\ d <= Len(s) + 1 /\ d # Len(s)
                          /\ \A i \in 1..Len(s) : i # d => isdigit(s[i])
                          /\ d <= Len(s) => s[d] = Dot
<1>1. Len(s) \in Nat /\ Len(s) >= 1 /\ DOMAIN s = 1..Len(s)
  <2>1. Len(s) \in Nat /\ Len(s) # 0 /\ DOMAIN s = 1..Len(s)
    BY LenProperties, EmptySeq DEF IsDecimal
  <2> QED
    BY <2>1
<1>2. isdigit(s[1]) /\ isdigit(s[Len(s)])
  BY DEF IsDecimal, Last
<1>3. \A i, k \in 1..Len(s) : ~isdigit(s[i]) /\ ~isdigit(s[k]) => i = k /\ s[i] = Dot
  BY <1>1 DEF IsDecimal
<1> DEFINE n == Len(s)
           At(d) == /\ d > 1 /\ d <= n + 1 /\ d # n
                    /\ \A i \in 1..n : i # d => isdigit(s[i])
                    /\ d <= n => s[d] = Dot
<1>4. n \in Nat /\ n >= 1 /\ isdigit(s[n])
  BY <1>1, <1>2
<1> HIDE DEF n
<1>5. ASSUME \A i \in 1..n : isdigit(s[i]) PROVE \E d \in Nat : At(d)
  <2>1. n + 1 \in Nat /\ n + 1 > 1 /\ n + 1 <= n + 1 /\ n + 1 # n /\ ~(n + 1 <= n)
    BY <1>4
  <2>2. At(n + 1)
    BY <1>5, <2>1
  <2> HIDE DEF At
  <2> QED
    BY <2>1, <2>2
<1>6. ASSUME NEW d \in 1..n, ~isdigit(s[d]) PROVE d \in Nat /\ At(d)
  <2>1. d # 1 /\ d # n
    BY <1>2, <1>4, <1>6
  <2>2. d \in Nat /\ d > 1 /\ d <= n + 1
    BY <1>4, <2>1
  <2>3. s[d] = Dot /\ \A i \in 1..n : i # d => isdigit(s[i])
    BY <1>3, <1>6 DEF n
  <2> QED
    BY <2>1, <2>2, <2>3
<1>7. \E d \in Nat : At(d)
  <2> HIDE DEF At
  <2>1. CASE \E d \in 1..n : ~isdigit(s[d])
    BY <1>6, <2>1
  <2>2. CASE ~\E d \in 1..n : ~isdigit(s[d])
    BY <1>5, <2>2, Zenon
  <2> QED
    BY <2>1, <2>2
<1> QED
  BY <1>7 DEF n

\* A decimal number is one token, between two empty ones.
LEMMA DecimalTok ==
    ASSUME NEW s \in Seq(Nat), IsDecimal(s)
    PROVE  Tok(s) = <<<<>>, s, <<>>>>
<1> DEFINE n == Len(s)
<1>1. PICK d \in Nat : /\ d > 1 /\ d <= n + 1 /\ d # n
                       /\ \A i \in 1..n : i # d => isdigit(s[i])
                       /\ d <= n => s[d] = Dot
  BY DotOf
<1> DEFINE e == <<>>  p == SubSeq(s, 1, d - 1)  q == SubSeq(s, d + 1, n)
<1>2. tokenize_string(s) = IF d = n + 1 THEN <<e, s, e>> ELSE <<e, p, <<Dot>>, q, e>>
  BY <1>1, TokenizeDecimal
<1>3. n \in Nat /\ n >= 1 /\ s # <<>> /\ e \in Seq(Nat) /\ IsNumber(s)
  <2>1. n \in Nat /\ s # <<>> /\ n # 0
    BY LenProperties, EmptySeq DEF IsDecimal
  <2> QED
    BY <2>1 DEF IsDecimal, IsNumber
<1>4. Merge(<<>>, e) = <<e>> /\ Merge(<<e, s>>, e) = <<e, s, e>>
  BY <1>3, MergeFirst, MergeThird
<1>5. CASE d = n + 1
  <2> DEFINE t == <<e, s, e>>
  <2>1. t \in Seq(Seq(Nat)) /\ Len(t) = 3 /\ t[1] = e /\ t[2] = s /\ t[3] = e
    BY <1>3
  <2>2. tokenize_string(s) = t
    BY <1>2, <1>5
  <2> HIDE DEF t, e
  <2>3. PICK f : merge_floats(t) = f[Len(t)] /\ f[0] = <<>> /\ \A i \in 1..Len(t) : f[i] = Merge(f[i - 1], t[i])
    BY <2>1, MergeSteps
  <2>4. /\ 1 \in 1..3 /\ 2 \in 1..3 /\ 3 \in 1..3 /\ 1 - 1 = 0 /\ 2 - 1 = 1 /\ 3 - 1 = 2
    OBVIOUS
  <2>5. f[1] = Merge(<<>>, e) /\ f[2] = Merge(f[1], s) /\ f[3] = Merge(f[2], e)
    BY <2>1, <2>3, <2>4
  <2>6. Merge(<<e>>, s) = <<e, s>>
    BY <1>3, MergeSecond
  <2>7. merge_floats(t) = <<e, s, e>>
    BY <1>4, <2>1, <2>3, <2>5, <2>6
  <2> QED
    BY <2>2, <2>7 DEF Tok, e
<1>6. CASE d # n + 1
  <2>1. d \in 1..n /\ d - 1 \in Nat /\ d - 1 <= n /\ d + 1 <= n /\ d - 1 >= 1 /\ s[d] = Dot /\ n - d >= 1 /\ n - d \in Nat
    BY <1>1, <1>3, <1>6
  <2>2. p \in Seq(Nat) /\ Len(p) = d - 1 /\ \A k \in 1..(d - 1) : p[k] = s[k]
    BY <2>1, Prefix
  <2>3. q \in Seq(Nat) /\ Len(q) = n - d /\ \A k \in 1..(n - d) : q[k] = s[d + k]
    <3>1. d + 1 \in Int /\ n \in Int /\ (\A k \in (d + 1)..n : s[k] \in Nat) /\ d + 1 <= n /\ n - (d + 1) + 1 = n - d
      BY <1>3, <2>1, ElementOfSeq
    <3>2. /\ q \in Seq(Nat) /\ Len(q) = n - (d + 1) + 1
          /\ \A k \in 1..(n - (d + 1) + 1) : q[k] = s[d + 1 + k - 1]
      BY <3>1, SubSeqProperties
    <3> HIDE DEF q
    <3>3. \A k \in 1..(n - d) : d + 1 + k - 1 = d + k
      BY <2>1
    <3> QED
      BY <3>1, <3>2, <3>3
  <2> HIDE DEF p, q
  <2>4. IsNumber(p) /\ ~Contains(p, Dot) /\ p # <<>>
    <3>1. \A k \in 1..(d - 1) : k \in 1..n /\ k # d
      BY <2>1
    <3>2. \A k \in 1..Len(p) : isdigit(p[k])
      BY <1>1, <2>2, <3>1
    <3>3. 1 \in 1..Len(p) /\ p # <<>>
      BY <2>1, <2>2, EmptySeq
    <3>4. ~Contains(p, Dot)
      BY <3>2 DEF Contains, isdigit, Dot
    <3> QED
      BY <3>2, <3>3, <3>4 DEF IsNumber
  <2>5. q # <<>>
    BY <2>1, <2>3, EmptySeq
  <2>6. p \o <<Dot>> \o q = s
    <3> DEFINE m == <<Dot>>
    <3>1. m \in Seq(Nat) /\ Len(m) = 1 /\ m[1] = Dot
      BY DEF Dot
    <3> HIDE DEF m
    <3> DEFINE l == p \o m
    <3>2. /\ l \in Seq(Nat) /\ Len(l) = Len(p) + Len(m)
          /\ \A k \in 1..(Len(p) + Len(m)) : l[k] = IF k <= Len(p) THEN p[k] ELSE m[k - Len(p)]
      BY <2>2, <3>1, ConcatProperties
    <3> HIDE DEF l
    <3>3. Len(l) = d /\ \A k \in 1..d : l[k] = s[k]
      <4>1. d - 1 + 1 = d /\ d - (d - 1) = 1
        OBVIOUS
      <4>2. \A k \in 1..d : k # d => k \in 1..(d - 1)
        OBVIOUS
      <4>3. Len(l) = d - 1 + 1 /\ \A k \in 1..(d - 1 + 1) : l[k] = IF k <= d - 1 THEN p[k] ELSE m[k - (d - 1)]
        BY <2>2, <3>1, <3>2
      <4>4. Len(l) = d /\ \A k \in 1..d : l[k] = IF k <= d - 1 THEN p[k] ELSE m[k - (d - 1)]
        BY <4>1, <4>3
      <4>5. ~(d <= d - 1) /\ d \in 1..d
        BY <2>1
      <4>6. l[d] = s[d]
        BY <2>1, <3>1, <4>1, <4>4, <4>5
      <4>7. ASSUME NEW k \in 1..d, k # d PROVE l[k] = s[k]
        BY <2>2, <4>2, <4>4, <4>7
      <4> QED
        BY <4>4, <4>6, <4>7
    <3> DEFINE r == l \o q
    <3>4. /\ r \in Seq(Nat) /\ Len(r) = d + (n - d)
          /\ \A k \in 1..(d + (n - d)) : r[k] = IF k <= d THEN l[k] ELSE q[k - d]
      <4>1. /\ r \in Seq(Nat) /\ Len(r) = Len(l) + Len(q)
            /\ \A k \in 1..(Len(l) + Len(q)) : r[k] = IF k <= Len(l) THEN l[k] ELSE q[k - Len(l)]
        <5>1. l \in Seq(Nat) /\ q \in Seq(Nat)
          BY <2>3, <3>2
        <5> QED
          BY <5>1, ConcatProperties
      <4>2. Len(l) = d /\ Len(q) = n - d
        BY <2>3, <3>3
      <4> HIDE DEF r
      <4> QED
        BY <4>1, <4>2, Zenon
    <3> HIDE DEF r
    <3>5. Len(r) = n /\ \A k \in 1..n : r[k] = s[k]
      <4>1. d + (n - d) = n
        BY <1>3
      <4>2. \A k \in 1..n : IF k <= d THEN k \in 1..d ELSE k - d \in 1..(n - d) /\ d + (k - d) = k
        BY <1>3, <2>1
      <4> QED
        BY <2>3, <3>3, <3>4, <4>1, <4>2
    <3>6. r = s
      BY <3>4, <3>5, SeqEqual
    <3> QED
      BY <3>6 DEF r, l, m
  <2> DEFINE dot == <<Dot>>  t == <<e, p, dot, q, e>>
  <2>7. dot \in Seq(Nat) /\ t \in Seq(Seq(Nat)) /\ Len(t) = 5 /\ t[1] = e /\ t[2] = p /\ t[3] = dot /\ t[4] = q /\ t[5] = e
    <3>1. dot \in Seq(Nat)
      BY DEF Dot
    <3> HIDE DEF dot
    <3> QED
      BY <1>3, <2>2, <2>3, <3>1
  <2>8. tokenize_string(s) = t
    BY <1>2, <1>6
  <2> HIDE DEF t, e
  <2>9. PICK f : merge_floats(t) = f[Len(t)] /\ f[0] = <<>> /\ \A i \in 1..Len(t) : f[i] = Merge(f[i - 1], t[i])
    BY <2>7, MergeSteps
  <2>10. /\ 1 \in 1..5 /\ 2 \in 1..5 /\ 3 \in 1..5 /\ 4 \in 1..5 /\ 5 \in 1..5
         /\ 1 - 1 = 0 /\ 2 - 1 = 1 /\ 3 - 1 = 2 /\ 4 - 1 = 3 /\ 5 - 1 = 4
    OBVIOUS
  <2>11. f[1] = Merge(<<>>, e) /\ f[2] = Merge(f[1], p) /\ f[3] = Merge(f[2], dot) /\ f[4] = Merge(f[3], q) /\ f[5] = Merge(f[4], e)
    <3> HIDE DEF dot
    <3> QED
      BY <2>7, <2>9, <2>10
  <2>12. Merge(<<e>>, p) = <<e, p>>
    BY <1>3, <2>2, MergeSecond
  <2>13. Merge(<<e, p>>, dot) = <<e, p, dot>>
    <3> HIDE DEF dot
    <3> QED
      BY <1>3, <2>2, <2>4, <2>7, MergeThird
  <2>14. Merge(<<e, p, <<Dot>>>>, q) = <<e, p \o <<Dot>> \o q>>
    BY <1>3, <2>2, <2>3, <2>4, <2>5, MergeDecimal
  <2>15. f[4] = <<e, s>>
    BY <1>4, <2>6, <2>11, <2>12, <2>13, <2>14
  <2>16. merge_floats(t) = <<e, s, e>>
    BY <1>4, <2>7, <2>9, <2>11, <2>15
  <2> QED
    BY <2>8, <2>16 DEF Tok, e
<1> QED
  BY <1>5, <1>6

\* Decimal numbers of which no two are close are compared by their values.
LEMMA DecimalOrder ==
    ASSUME NEW E, Comparable(E), ~CloseNumbers(E), NEW a \in E, NEW b \in E,
           IsDecimal(nodes[a].data), IsDecimal(nodes[b].data)
    PROVE  LET x == lexical_cast(nodes[a].data)
               y == lexical_cast(nodes[b].data)
           IN  x \in Int /\ y \in Int /\ (x < y => str_compare_nat(nodes[a].data, nodes[b].data) = 1)
<1> DEFINE s == nodes[a].data  t == nodes[b].data  N == AllNumbers(E)
           x == lexical_cast(s)  y == lexical_cast(t)  u == <<<<>>, s, <<>>>>  v == <<<<>>, t, <<>>>>
<1>1. s \in Seq(Nat) /\ t \in Seq(Nat)
  BY NodeType
<1>2. Tok(s) = u /\ Tok(t) = v
  BY <1>1, DecimalTok
<1>3. Within(TokensOf(N), Tok(s)) /\ Within(TokensOf(N), Tok(t))
  BY DataTokens
<1>4. Apart(N)
  BY NumbersApart
<1>5. Len(u) = 3 /\ u[1] = <<>> /\ u[2] = s /\ Len(v) = 3 /\ v[1] = <<>> /\ v[2] = t
  BY <1>1
<1>6. IsNumber(s) /\ IsNumber(t)
  BY DEF IsDecimal, IsNumber
<1>7. DOMAIN Tok(s) = 1..Len(Tok(s)) /\ DOMAIN Tok(t) = 1..Len(Tok(t))
  BY DataTokens
<1>8. str_compare_nat(s, t) = 1 <=> LexLess(TokenLess, Tok(s), Tok(t))
  <2> HIDE DEF s, t, N, u, v
  <2> QED
    BY <1>3, <1>4, <1>7, CompareLess
<1> HIDE DEF s, t, N, u, v
<1>9. <<>> \in TokensOf(N)[1] /\ s \in TokensOf(N)[2] /\ t \in TokensOf(N)[2]
  <2>1. 1 \in 1..3 /\ 2 \in 1..3
    OBVIOUS
  <2> QED
    BY <1>2, <1>3, <1>5, <2>1 DEF Within
<1>10. x \in Int /\ y \in Int
  <2>1. 2 \in Nat
    OBVIOUS
  <2> QED
    BY <1>4, <1>6, <1>9, <2>1 DEF TokensOf, Apart
<1>11. ASSUME x < y PROVE LexLess(TokenLess, u, v)
  <2>1. 1 \in Nat /\ 2 \in Nat
    OBVIOUS
  <2>2. Same(<<>>, <<>>) /\ Before(s, t)
    BY <1>6, <1>11 DEF Same, Before, IsNumber
  <2>3. <<s, t>> \in TokenLess[2] /\ Tied(TokenLess[1], <<>>, <<>>)
    BY <1>4, <1>9, <2>1, <2>2, TokenWeak
  <2>4. 2 \in 1..3 /\ 2 <= 3 /\ \A k \in 1..(2 - 1) : k = 1 /\ k <= 3
    OBVIOUS
  <2> QED
    BY <1>5, <2>3, <2>4 DEF LexLess
<1> QED
  BY <1>2, <1>8, <1>10, <1>11 DEF s, t

\* Results that are sorted by a field of decimal numbers come in the order of
\* their values: what std::sort does with the comparison is what a reader of the
\* site expects, for all lists of numbers of which no two are close.
THEOREM PagingNumbersByValue ==
    PagingSpec => []NumbersByValue
<1>1. PagingInv /\ OrderInv => NumbersByValue
  <2> DEFINE E == ToSet(ordered)  F == options.sortFields  Value(i) == lexical_cast(nodes[ordered[i]].data)
  <2> SUFFICES ASSUME PagingInv, OrderInv, at = "done", options.sortType = "Specific", ~CloseNumbers(E),
                      Len(F) = 1, F[1].field = "data",
                      \A i \in DOMAIN ordered : IsDecimal(nodes[ordered[i]].data),
                      NEW i \in DOMAIN ordered, NEW k \in DOMAIN ordered, i < k
               PROVE  IF F[1].direction = "Asc" THEN Value(i) <= Value(k) ELSE Value(i) >= Value(k)
    BY DEF NumbersByValue
  <2>1. ordered \in Seq(1..size) /\ InOrder(ordered) /\ \A h \in 1..size : Measured(nodes[h].data)
    BY DEF OrderInv
  <2>2. E \subseteq 1..size /\ ordered[i] \in E /\ ordered[k] \in E
    <3>1. DOMAIN ordered = 1..Len(ordered) /\ \A h \in 1..Len(ordered) : ordered[h] \in 1..size
      BY <2>1, LenProperties, ElementOfSeq
    <3> QED
      BY <3>1 DEF ToSet
  <2>3. nodes \in Seq(Node) /\ options \in Option
    BY PagingAssumption DEF PagingInv, PagingTypeOK, PagingAssumption
  <2>4. Comparable(E)
    BY <2>1, <2>2, <2>3 DEF Comparable
  <2>5. DOMAIN F = {1} /\ F[1] \in SortField
    <3>1. F \in Seq(SortField)
      BY <2>3 DEF Option
    <3>2. DOMAIN F = 1..Len(F) /\ \A h \in 1..Len(F) : F[h] \in SortField
      BY <3>1, LenProperties, ElementOfSeq
    <3>3. 1..1 = {1} /\ 1 \in 1..1
      OBVIOUS
    <3> QED
      BY <3>2, <3>3
  <2>6. Clear(E)
    BY <2>5 DEF Clear, FieldsUsed
  <2>7. ~Sooner(ordered[k], ordered[i])
    BY <2>1, <2>4, <2>6, ComparesWell DEF InOrder
  <2> DEFINE a == ordered[k]  b == ordered[i]  cmp == str_compare_nat(nodes[a].data, nodes[b].data)
  <2>8. Sooner(a, b) <=> cmp # 0 /\ (cmp > 0) = (F[1].direction = "Asc")
    <3> DEFINE D == {h \in DOMAIN F : Compare(F[h], nodes[a], nodes[b]) # 0}
    <3>1. Sooner(a, b) <=> D # {} /\ (Compare(F[Min(D)], nodes[a], nodes[b]) > 0) = (F[Min(D)].direction = "Asc")
      BY DEF Sooner, sortCallback
    <3>2. Compare(F[1], nodes[a], nodes[b]) = cmp
      BY DEF Compare
    <3>3. D = IF cmp # 0 THEN {1} ELSE {}
      <4> HIDE DEF cmp, a, b
      <4> QED
        BY <2>5, <3>2
    <3>4. Min({1}) = 1
      BY DEF Min
    <3> HIDE DEF D, cmp, a, b
    <3> QED
      BY <3>1, <3>2, <3>3, <3>4
  <2>9. IsDecimal(nodes[a].data) /\ IsDecimal(nodes[b].data)
    OBVIOUS
  <2> DEFINE x == lexical_cast(nodes[a].data)  y == lexical_cast(nodes[b].data)
             back == str_compare_nat(nodes[b].data, nodes[a].data)
  <2>10. a \in E /\ b \in E
    BY <2>2
  <2> HIDE DEF a, b, E
  <2>11. x \in Int /\ y \in Int /\ (x < y => cmp = 1) /\ (y < x => back = 1)
    BY <2>4, <2>9, <2>10, DecimalOrder
  <2>12. back = 1 => cmp = -1
    BY <2>4, <2>10, DataOrder
  <2> HIDE DEF cmp, back, x, y
  <2>13. IF F[1].direction = "Asc" THEN ~(x < y) ELSE ~(y < x)
    <3>1. ~(cmp # 0 /\ (cmp > 0) = (F[1].direction = "Asc"))
      BY <2>7, <2>8 DEF a, b
    <3>2. cmp = 1 => F[1].direction # "Asc"
      BY <3>1
    <3>3. cmp = -1 => F[1].direction = "Asc"
      BY <3>1
    <3> QED
      BY <2>11, <2>12, <3>2, <3>3
  <2>14. x = Value(k) /\ y = Value(i)
    BY DEF x, y, a, b
  <2> HIDE DEF F
  <2>15. IF F[1].direction = "Asc" THEN y <= x ELSE y >= x
    BY <2>11, <2>13
  <2> HIDE DEF Value
  <2> QED
    BY <2>14, <2>15
<1> QED
  BY <1>1, OrderInvariant, PTL
=============================================================================
