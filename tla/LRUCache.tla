------------------------------ MODULE LRUCache ------------------------------
(***************************************************************************)
(* The template LRUCache (lru_cache.h): a list of entries, newest first,   *)
(* an index from keys to the list's entries, and a count of the entries.   *)
(* _REENTRANT is defined at the top of the file, so every operation runs   *)
(* under _mutex and is one action.  The size function is the default       *)
(* Countfn, which is 1 for every entry.                                    *)
(***************************************************************************)
EXTENDS Naturals, SequencesExt

CONSTANTS Key, Data,
          MaxSize,     \* _max_size
          NoData

ASSUME LRUCacheAssumption ==
    /\ MaxSize \in Nat
    /\ NoData \notin Data

Entry == [key : Key, data : Data]

VARIABLES _list, _index, _curr_size,
          newer,     \* history: <<j, k>> if j was inserted or touched after k last was
          latest,    \* history: key -> the data inserted last
          removed    \* history: keys removed or cleared, not inserted since

cacheVars == <<_list, _index, _curr_size, newer, latest, removed>>

Cached == {k \in Key : _index[k] # NoData}

\* The index leads to a key's entry in the list, which an iterator erases.
Place(k) == CHOOSE i \in DOMAIN _list : _list[i].key = k
Erased(k) == RemoveAt(_list, Place(k))

UsedLast(k) == {p \in newer : p[2] # k} \cup {<<k, j>> : j \in Key \ {k}}
-----------------------------------------------------------------------------
CacheInit ==
    /\ _list = <<>>
    /\ _index = [k \in Key |-> NoData]
    /\ _curr_size = 0
    /\ newer = {}
    /\ latest = [k \in Key |-> NoData]
    /\ removed = {}

clear ==
    /\ _list' = <<>>
    /\ _index' = [k \in Key |-> NoData]
    /\ _curr_size' = 0
    /\ removed' = Key
    /\ UNCHANGED <<newer, latest>>

remove(k) ==
    /\ k \in Cached
    /\ _curr_size' = _curr_size - 1
    /\ _list' = Erased(k)
    /\ _index' = [_index EXCEPT ![k] = NoData]
    /\ removed' = removed \cup {k}
    /\ UNCHANGED <<newer, latest>>

\* _touch moves the entry of a key to the head of the list.
_touch(k) ==
    /\ k \in Cached
    /\ _list' = <<_list[Place(k)]>> \o Erased(k)
    /\ UNCHANGED <<_index, _curr_size, latest, removed>>

touch(k) == _touch(k) /\ newer' = UsedLast(k)

\* fetch_ptr touches the entry whatever its argument touch says.
fetch_ptr(k) == touch(k)

\* Both forms of fetch touch the entry when they are asked to.
fetch(k, asked) ==
    /\ k \in Cached
    /\ IF asked THEN touch(k) ELSE UNCHANGED cacheVars

\* The list, index and size before the actual insertion: without the key's old
\* entry, if it had one.
Without(k) == IF k \in Cached THEN Erased(k) ELSE _list
SizeWithout(k) == IF k \in Cached THEN _curr_size - 1 ELSE _curr_size

\* The key's entry is now at one end of l, which counts for size; entries leave
\* at the end of the list while it counts for more than MaxSize.
Store(l, size, k, d) ==
    LET excess == IF size > MaxSize THEN size - MaxSize ELSE 0
        dropped == {l[i].key : i \in (Len(l) - excess + 1)..Len(l)}
    IN  /\ _list' = SubSeq(l, 1, Len(l) - excess)
        /\ _index' = [j \in Key |-> IF j \in dropped THEN NoData
                                    ELSE IF j = k THEN d ELSE _index[j]]
        /\ _curr_size' = size - excess
        /\ newer' = UsedLast(k)
        /\ removed' = removed \ {k}

\* Mutant: new entries go to the end that entries are dropped from.
insert_AtEnd(k, d) ==
    /\ Store(Append(Without(k), [key |-> k, data |-> d]), SizeWithout(k) + 1, k, d)
    /\ latest' = [latest EXCEPT ![k] = d]

\* Mutant: a key that exists is touched, and its content is not replaced.
insert_TouchOnly(k, d) ==
    LET e == IF k \in Cached THEN _list[Place(k)] ELSE [key |-> k, data |-> d]
    IN  /\ Store(<<e>> \o Without(k), SizeWithout(k) + 1, k, e.data)
        /\ latest' = [latest EXCEPT ![k] = d]

insert(k, d) ==
    /\ Store(<<[key |-> k, data |-> d]>> \o Without(k), SizeWithout(k) + 1, k, d)
    /\ latest' = [latest EXCEPT ![k] = d]

\* The public operations other than insert.
OtherOperation ==
    \/ clear
    \/ \E k \in Key :
          \/ remove(k) \/ touch(k) \/ fetch_ptr(k)
          \/ \E asked \in BOOLEAN : fetch(k, asked)
-----------------------------------------------------------------------------
CacheTypeOK ==
    /\ _list \in Seq(Entry)
    /\ _index \in [Key -> Data \cup {NoData}]
    /\ _curr_size \in Nat
    /\ newer \subseteq Key \X Key
    /\ latest \in [Key -> Data \cup {NoData}]
    /\ removed \subseteq Key

\* The list, the index and the size describe one cache: every entry of the list
\* is its key's entry in the index, with the data that was inserted last, no key
\* has two, every indexed key has one, and the size counts them and is at most
\* the maximum.
ListMatchesIndex ==
    /\ \A i \in DOMAIN _list : _index[_list[i].key] = _list[i].data
    /\ \A i, j \in DOMAIN _list : _list[i].key = _list[j].key => i = j
    /\ \A k \in Cached : _index[k] = latest[k] /\ \E i \in DOMAIN _list : _list[i].key = k
    /\ _curr_size = Len(_list) /\ _curr_size <= MaxSize

\* The list is in the order in which its keys were inserted or touched last, and
\* room is made at the expense of the least recently used (lru_cache.h:37-38): a
\* key that was used after some key that is cached is cached too, unless it was
\* removed.
LeastRecentGoes ==
    /\ \A i, j \in DOMAIN _list : i < j => <<_list[i].key, _list[j].key>> \in newer
    /\ \A j, k \in Key : <<j, k>> \in newer /\ k \in Cached => j \in Cached \cup removed

\* The inductive invariant of a cache.
CacheInv ==
    /\ CacheTypeOK /\ ListMatchesIndex /\ LeastRecentGoes
    /\ \A j, k \in Key : <<j, k>> \in newer => <<k, j>> \notin newer
=============================================================================
