---------------------------- MODULE LongTermCache ----------------------------
(***************************************************************************)
(* The long term cache of one site: the handlers longTermCacheGet, Set,    *)
(* Delete, Empty and SweeperInfo (server.cpp) over the table kvstore       *)
(* (mysql_proxy.cpp) and the copies kept in memcached for a day.           *)
(*                                                                         *)
(* No transaction spans two statements, and nothing ties MySQL and         *)
(* memcached together, so every call on either of them is a step.  A call  *)
(* can fail before or after it took effect; the error is logged and the    *)
(* handler goes on.                                                        *)
(***************************************************************************)
EXTENDS Integers

CONSTANTS Worker, Key, Value,
          Empty,        \* the empty string, which also stands for "nothing there"
          MaxDays,      \* bound: days a row is stored for
          RenewBelow,   \* rows with fewer days left are renewed (10)
          NoRow, NoKey

ASSUME LongTermCacheAssumption ==
    /\ MaxDays \in Nat /\ RenewBelow \in Int
    /\ Empty \notin Value /\ NoRow \notin [val : Value \cup {Empty}, days : Int]
    /\ NoKey \notin Key

String == Value \cup {Empty}
Days == -1..MaxDays                     \* days left; -1: expired
Row == [val : String, days : Days]

\* A copy in memcached, and the half days it has left of its day.
Copy == [val : String, ttl : 0..1]
NoCopy == [val |-> Empty, ttl |-> 0]

VARIABLES kvstore,    \* key -> Row or NoRow
          memcache,   \* key -> Copy
          pc, key, val, days,
                      \* per worker: the call it makes next, and its arguments
          overtaken,  \* history: worker -> its value is not what the row has now
          tainted,    \* history: key -> the copy was left or made by such a worker
          stored      \* history: key -> a row was stored, and not deleted since

vars == <<kvstore, memcache, pc, key, val, days, overtaken, tainted, stored>>
args == <<key, val, days>>

PC == {"idle", "select", "renew", "store", "delete", "insert", "memset", "remove", "memremove"}

\* What a lookup of the row finds.
RowValue(r) == IF r = NoRow THEN Empty ELSE r.val

\* Workers that are about to write a copy of what they know of a key's row.
Holding(u, k) == key[u] = k /\ pc[u] \in {"renew", "store", "memset"}

\* Worker w makes table the contents of kvstore, and knows whether that failed.
\* Whoever holds another value than the row has now is overtaken.
Write(w, table, failed) ==
    /\ kvstore' = table
    /\ overtaken' = [u \in Worker |->
          IF u = w THEN failed
          ELSE \/ overtaken[u]
               \/ \E k \in Key : Holding(u, k) /\ RowValue(table[k]) # RowValue(kvstore[k])]

Without(k) == [kvstore EXCEPT ![k] = NoRow]
-----------------------------------------------------------------------------
Init ==
    /\ kvstore = [k \in Key |-> NoRow]
    /\ memcache = [k \in Key |-> NoCopy]
    /\ pc = [w \in Worker |-> "idle"]
    /\ key = [w \in Worker |-> NoKey]
    /\ val = [w \in Worker |-> Empty]
    /\ days = [w \in Worker |-> 0]
    /\ overtaken = [w \in Worker |-> FALSE]
    /\ tainted = [k \in Key |-> FALSE]
    /\ stored = [k \in Key |-> FALSE]

\* A handler is called.
Begin(w, k, v, d, to) ==
    /\ pc[w] = "idle"
    /\ key' = [key EXCEPT ![w] = k]
    /\ val' = [val EXCEPT ![w] = v]
    /\ days' = [days EXCEPT ![w] = d]
    /\ pc' = [pc EXCEPT ![w] = to]
    /\ overtaken' = [overtaken EXCEPT ![w] = FALSE]
    /\ UNCHANGED <<kvstore, memcache, tainted, stored>>

Goto(w, to) == pc' = [pc EXCEPT ![w] = to]

\* The handler answers.
Return(w) ==
    /\ Goto(w, "idle")
    /\ key' = [key EXCEPT ![w] = NoKey]
    /\ val' = [val EXCEPT ![w] = Empty]
    /\ days' = [days EXCEPT ![w] = 0]

\* longTermCacheGet, unless memcached answers: renewExpiry is d.
longTermCacheGet(w) == \E k \in Key, d \in 0..MaxDays : Begin(w, k, Empty, d, "select")

\* Mutant: a hit puts the answer back, for another day.
MemcacheHit_Renews(k) ==
    /\ memcache[k].val # Empty
    /\ memcache' = [memcache EXCEPT ![k].ttl = 1]
    /\ UNCHANGED <<kvstore, pc, args, overtaken, tainted, stored>>

\* longTermCacheGet with useShortTermCache, and a copy that is not empty.
MemcacheHit(k) ==
    /\ memcache[k].val # Empty
    /\ UNCHANGED vars

\* The SELECT; after an error the answer is empty.
Select(w) ==
    LET r == kvstore[key[w]]
    IN  /\ pc[w] = "select"
        /\ \/ /\ val' = [val EXCEPT ![w] = RowValue(r)]
              /\ Goto(w, IF r # NoRow /\ days[w] > 0 /\ r.days < RenewBelow THEN "renew" ELSE "store")
           \/ val' = [val EXCEPT ![w] = Empty] /\ Goto(w, "store")
        /\ UNCHANGED <<kvstore, memcache, key, days, overtaken, tainted, stored>>

\* The UPDATE of expire_at, of whatever row has the key by now.
Renew(w) ==
    /\ pc[w] = "renew"
    /\ \/ /\ kvstore[key[w]] # NoRow
          /\ kvstore' = [kvstore EXCEPT ![key[w]].days = days[w]]
       \/ UNCHANGED kvstore
    /\ Goto(w, "store")
    /\ UNCHANGED <<memcache, args, overtaken, tainted, stored>>

longTermCacheSet(w) ==
    \E k \in Key, v \in String, d \in 0..MaxDays : Begin(w, k, v, d, "delete")

\* Set's DELETE; an error, before or after it took effect, skips the INSERT.
SetDelete(w) ==
    /\ pc[w] = "delete"
    /\ \/ Write(w, Without(key[w]), FALSE) /\ Goto(w, "insert") /\ UNCHANGED stored
       \/ Write(w, kvstore, TRUE) /\ Goto(w, "memset") /\ UNCHANGED stored
       \/ /\ Write(w, Without(key[w]), TRUE) /\ Goto(w, "memset")
          /\ stored' = [stored EXCEPT ![key[w]] = FALSE]
    /\ UNCHANGED <<memcache, args, tainted>>

\* Set's INSERT.  It works, and may seem to have failed; or another Set's row is
\* there by now, or an error keeps it from working.
SetInsert(w) ==
    LET k == key[w] IN
    /\ pc[w] = "insert"
    /\ \/ /\ kvstore[k] = NoRow
          /\ \E failed \in BOOLEAN :
                Write(w, [kvstore EXCEPT ![k] = [val |-> val[w], days |-> days[w]]], failed)
          /\ stored' = [stored EXCEPT ![k] = TRUE]
       \/ /\ Write(w, kvstore, TRUE)
          /\ stored' = [stored EXCEPT ![k] = @ /\ kvstore[k] # NoRow]
    /\ Goto(w, "memset")
    /\ UNCHANGED <<memcache, args, tainted>>

\* memcacheProxy.set, the last call of Get and of Set; its failure leaves the
\* copy there was.
MemcacheSet(w) ==
    LET k == key[w] IN
    /\ pc[w] \in {"store", "memset"}
    /\ \/ /\ memcache' = [memcache EXCEPT ![k] =
                IF val[w] = Empty THEN NoCopy ELSE [val |-> val[w], ttl |-> 1]]
          /\ tainted' = [tainted EXCEPT ![k] = overtaken[w] /\ val[w] # Empty]
       \/ /\ tainted' = [tainted EXCEPT ![k] = @ \/ pc[w] = "memset"]
          /\ UNCHANGED memcache
    /\ Return(w)
    /\ UNCHANGED <<kvstore, overtaken, stored>>

longTermCacheDelete(w) == \E k \in Key : Begin(w, k, Empty, 0, "remove")

\* Delete's DELETE, or its failure.
DeleteRow(w) ==
    /\ pc[w] = "remove"
    /\ \/ /\ Write(w, Without(key[w]), FALSE)
          /\ stored' = [stored EXCEPT ![key[w]] = FALSE]
       \/ UNCHANGED <<kvstore, overtaken, stored>>
    /\ Goto(w, "memremove")
    /\ UNCHANGED <<memcache, args, tainted>>

\* Mutant: the copy in memcached is left alone.
MemcacheRemove_Missing(w) ==
    /\ pc[w] = "memremove"
    /\ Return(w)
    /\ UNCHANGED <<kvstore, memcache, overtaken, tainted, stored>>

MemcacheRemove(w) ==
    /\ pc[w] = "memremove"
    /\ \/ /\ memcache' = [memcache EXCEPT ![key[w]] = NoCopy]
          /\ tainted' = [tainted EXCEPT ![key[w]] = FALSE]
       \/ /\ tainted' = [tainted EXCEPT ![key[w]] = TRUE]
          /\ UNCHANGED memcache
    /\ Return(w)
    /\ UNCHANGED <<kvstore, overtaken, stored>>

\* Rows go, and their copies in memcached stay.
DropRows(gone) ==
    /\ kvstore' = [k \in Key |-> IF k \in gone THEN NoRow ELSE kvstore[k]]
    /\ overtaken' = [u \in Worker |-> overtaken[u] \/ \E k \in gone : Holding(u, k)]
    /\ tainted' = [k \in Key |-> tainted[k] \/ (k \in gone /\ memcache[k].val # Empty)]
    /\ UNCHANGED <<memcache, pc, args>>

longTermCacheEmpty ==
    /\ DropRows(Key)
    /\ stored' = [k \in Key |-> FALSE]

\* Mutant: sweeps rows in their last day.
Expired_Inclusive(r) == r # NoRow /\ r.days <= 0

\* expire_at < NOW()
Expired(r) == r # NoRow /\ r.days < 0

longTermCacheSweeperInfo ==
    /\ DropRows({k \in Key : Expired(kvstore[k])})
    /\ stored' = [k \in Key |-> stored[k] /\ ~(kvstore[k] # NoRow /\ kvstore[k].days < 0)]

\* A day passes for a row.
DayPasses ==
    /\ kvstore' = [k \in Key |-> IF kvstore[k] = NoRow \/ kvstore[k].days = -1 THEN kvstore[k]
                                 ELSE [kvstore[k] EXCEPT !.days = @ - 1]]
    /\ UNCHANGED <<memcache, pc, args, overtaken, tainted, stored>>

\* Half a day passes in memcached: copies a day old go.
MemcacheAges ==
    /\ memcache' = [k \in Key |-> IF memcache[k].ttl = 0 THEN NoCopy
                                  ELSE [memcache[k] EXCEPT !.ttl = @ - 1]]
    /\ tainted' = [k \in Key |-> tainted[k] /\ memcache[k].ttl # 0]
    /\ UNCHANGED <<kvstore, pc, args, overtaken, stored>>

Serve(w) ==
    \/ Select(w) \/ Renew(w) \/ SetDelete(w) \/ SetInsert(w)
    \/ MemcacheSet(w) \/ DeleteRow(w) \/ MemcacheRemove(w)

Next ==
    \/ \E w \in Worker : \/ longTermCacheGet(w) \/ longTermCacheSet(w) \/ longTermCacheDelete(w)
                         \/ Serve(w)
    \/ \E k \in Key : MemcacheHit(k)
    \/ longTermCacheEmpty \/ longTermCacheSweeperInfo
    \/ DayPasses \/ MemcacheAges

Spec == Init /\ [][Next]_vars

\* A request that is running ends, and time passes in memcached.
FairSpec == Spec /\ WF_vars(MemcacheAges) /\ \A w \in Worker : WF_vars(Serve(w))
-----------------------------------------------------------------------------
TypeOK ==
    /\ kvstore \in [Key -> Row \cup {NoRow}]
    /\ memcache \in [Key -> Copy]
    /\ pc \in [Worker -> PC]
    /\ key \in [Worker -> Key \cup {NoKey}]
    /\ \A w \in Worker : pc[w] # "idle" => key[w] # NoKey
    /\ val \in [Worker -> String]
    /\ days \in [Worker -> 0..MaxDays]
    /\ overtaken \in [Worker -> BOOLEAN]
    /\ tainted \in [Key -> BOOLEAN] /\ stored \in [Key -> BOOLEAN]

\* Workers that have begun to change a key's row and not yet its copy.
Writing(w, k) == key[w] = k /\ pc[w] \in {"insert", "memset", "memremove"}

\* Whenever no handler is in the middle of changing a key, its copy in memcached
\* agrees with the row in MySQL, unless the copy's last writer was overtaken
\* by a change of the row, a call of a Set or Delete failed, or rows were
\* emptied or swept under their copies.
CopyMatchesRow ==
    \A k \in Key :
       ~tainted[k] /\ (\A w \in Worker : ~Writing(w, k)) =>
          memcache[k].val \in {Empty, RowValue(kvstore[k])}

\* A row that was stored, and neither deleted nor expired, is missing only while
\* some Set of its key is between its DELETE and its INSERT: Sets that run into
\* each other always leave one of their rows, unless a statement fails.
RowKept ==
    \A k \in Key :
       stored[k] /\ kvstore[k] = NoRow => \E w \in Worker : key[w] = k /\ pc[w] = "insert"

\* A worker that nobody overtook holds what the row has, or nothing.
HoldersKnow ==
    \A w \in Worker, k \in Key :
       Holding(w, k) /\ ~overtaken[w] => val[w] \in {Empty, RowValue(kvstore[k])}

\* The inductive invariant of the two stores.
IInv == TypeOK /\ CopyMatchesRow /\ RowKept /\ HoldersKnow

Values == [k \in Key |-> RowValue(kvstore[k])]

\* A wrong copy does not stay: when the rows have stopped changing and no Set is
\* running, the copies agree with the rows for good once a day has passed,
\* however many Gets keep using them.
Converges ==
    (<>[][Values' = Values]_vars /\ <>[](\A w \in Worker : pc[w] \notin {"delete", "insert", "memset"}))
       => <>[](\A k \in Key : memcache[k].val \in {Empty, Values[k]})
=============================================================================
