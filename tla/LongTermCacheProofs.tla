------------------------ MODULE LongTermCacheProofs ------------------------
(***************************************************************************)
(* Proofs about LongTermCache, for any number of workers, keys and values. *)
(***************************************************************************)
EXTENDS LongTermCache, TLAPS

USE LongTermCacheAssumption

\* Two empty stores agree.
LEMMA InitIInv == Init => IInv
<1> SUFFICES ASSUME Init PROVE IInv
  OBVIOUS
<1>1. TypeOK
  BY DEF Init, TypeOK, Row, Copy, NoCopy, PC, String
<1>2. CopyMatchesRow /\ RowKept /\ HoldersKnow
  BY DEF Init, CopyMatchesRow, RowKept, HoldersKnow, Holding, NoCopy
<1> QED
  BY <1>1, <1>2 DEF IInv

\* A handler that begins holds nothing yet, and frees nobody else.
LEMMA BeginIInv ==
    ASSUME IInv, NEW w \in Worker, NEW k \in Key, NEW v \in String, NEW d \in 0..MaxDays,
           NEW to \in {"select", "delete", "remove"}, Begin(w, k, v, d, to)
    PROVE  IInv'
<1> USE DEF IInv
<1>1. TypeOK'
  BY DEF TypeOK, Begin, PC
<1>2. /\ pc[w] = "idle"
      /\ \A u \in Worker : /\ pc'[u] = IF u = w THEN to ELSE pc[u]
                           /\ u # w => key'[u] = key[u] /\ val'[u] = val[u] /\ overtaken'[u] = overtaken[u]
  BY DEF TypeOK, Begin
<1>3. CopyMatchesRow'
  BY <1>2 DEF CopyMatchesRow, Writing, Begin
<1>4. RowKept'
  BY <1>2 DEF RowKept, Begin
<1>5. HoldersKnow'
  BY <1>2 DEF HoldersKnow, Holding, Begin
<1> QED
  BY <1>1, <1>3, <1>4, <1>5

\* What a step says about every worker, spelt out once for each kind of update.
LEMMA GotoFacts ==
    ASSUME TypeOK, NEW w \in Worker, NEW to \in PC, Goto(w, to)
    PROVE  /\ pc' \in [Worker -> PC]
           /\ \A u \in Worker : pc'[u] = IF u = w THEN to ELSE pc[u]
BY DEF TypeOK, Goto

LEMMA ReturnFacts ==
    ASSUME TypeOK, NEW w \in Worker, Return(w)
    PROVE  /\ pc' \in [Worker -> PC] /\ key' \in [Worker -> Key \cup {NoKey}]
           /\ val' \in [Worker -> String] /\ days' \in [Worker -> 0..MaxDays]
           /\ pc'[w] = "idle"
           /\ \A u \in Worker \ {w} : pc'[u] = pc[u] /\ key'[u] = key[u] /\ val'[u] = val[u]
BY DEF TypeOK, Return, Goto, PC, String

\* Those who are not overtaken by a write hold the value the row still has.
LEMMA WriteFacts ==
    ASSUME TypeOK, NEW w \in Worker, NEW table, NEW failed \in BOOLEAN, Write(w, table, failed)
    PROVE  /\ kvstore' = table
           /\ overtaken' \in [Worker -> BOOLEAN]
           /\ overtaken'[w] = failed
           /\ \A u \in Worker \ {w} : ~overtaken'[u] =>
                 /\ ~overtaken[u]
                 /\ \A k \in Key : Holding(u, k) => RowValue(table[k]) = RowValue(kvstore[k])
<1>1. overtaken' = [u \in Worker |->
          IF u = w THEN failed
          ELSE \/ overtaken[u]
               \/ \E k \in Key : Holding(u, k) /\ RowValue(table[k]) # RowValue(kvstore[k])]
  BY DEF Write
<1>2. overtaken' \in [Worker -> BOOLEAN]
  BY <1>1, Zenon DEF TypeOK
<1>3. \A u \in Worker \ {w} : ~overtaken'[u] =>
                 /\ ~overtaken[u]
                 /\ \A k \in Key : Holding(u, k) => RowValue(table[k]) = RowValue(kvstore[k])
  BY <1>1, Zenon
<1> QED
  BY <1>1, <1>2, <1>3 DEF Write

LEMMA WithoutFacts ==
    ASSUME TypeOK, NEW k \in Key
    PROVE  /\ Without(k) \in [Key -> Row \cup {NoRow}]
           /\ Without(k)[k] = NoRow
           /\ \A i \in Key \ {k} : Without(k)[i] = kvstore[i]
BY DEF TypeOK, Without

\* A SELECT reads what the row has.
LEMMA SelectIInv ==
    ASSUME IInv, NEW w \in Worker, Select(w)
    PROVE  IInv'
<1> USE DEF IInv
<1>1. key[w] \in Key /\ kvstore[key[w]] \in Row \cup {NoRow} /\ pc[w] = "select"
  BY DEF TypeOK, Select
<1>2. RowValue(kvstore[key[w]]) \in String /\ Empty \in String
  BY <1>1 DEF RowValue, Row, String
<1>3. /\ val' \in [Worker -> String]
      /\ val'[w] \in {Empty, RowValue(kvstore[key[w]])}
      /\ \A u \in Worker \ {w} : val'[u] = val[u] /\ pc'[u] = pc[u]
      /\ pc' \in [Worker -> PC] /\ pc'[w] \in {"renew", "store"}
  BY <1>1, <1>2 DEF TypeOK, Select, Goto, PC
<1>4. TypeOK'
  BY <1>1, <1>3 DEF TypeOK, Select
<1>5. CopyMatchesRow'
  BY <1>1, <1>3 DEF CopyMatchesRow, Writing, Select
<1>6. RowKept'
  BY <1>1, <1>3 DEF RowKept, Select
<1>7. HoldersKnow'
  BY <1>1, <1>3 DEF HoldersKnow, Holding, Select
<1> QED
  BY <1>4, <1>5, <1>6, <1>7

\* Renewing a row leaves its value alone.
LEMMA RenewIInv ==
    ASSUME IInv, NEW w \in Worker, Renew(w)
    PROVE  IInv'
<1> USE DEF IInv
<1>1. key[w] \in Key /\ pc[w] = "renew" /\ days[w] \in Days
  BY DEF TypeOK, Renew, Days
<1>2. /\ kvstore' \in [Key -> Row \cup {NoRow}]
      /\ \A k \in Key : /\ RowValue(kvstore'[k]) = RowValue(kvstore[k])
                        /\ kvstore'[k] = NoRow => kvstore[k] = NoRow
  <2>1. CASE UNCHANGED kvstore
    BY <2>1 DEF TypeOK
  <2>2. CASE /\ kvstore[key[w]] # NoRow
             /\ kvstore' = [kvstore EXCEPT ![key[w]].days = days[w]]
    <3>1. kvstore[key[w]] \in Row
      BY <1>1, <2>2 DEF TypeOK
    <3>2. kvstore' = [kvstore EXCEPT ![key[w]] = [kvstore[key[w]] EXCEPT !.days = days[w]]]
      BY <2>2
    <3> DEFINE r == [kvstore[key[w]] EXCEPT !.days = days[w]]
    <3>3. r \in Row /\ r.val = kvstore[key[w]].val
      BY <1>1, <3>1 DEF Row
    <3>4. r # NoRow
      BY <3>3 DEF Row, String, Days
    <3> QED
      BY <1>1, <2>2, <3>2, <3>3, <3>4 DEF TypeOK, RowValue
  <2> QED
    BY <2>1, <2>2 DEF Renew
<1>3. /\ pc' \in [Worker -> PC]
      /\ \A u \in Worker : pc'[u] = IF u = w THEN "store" ELSE pc[u]
  BY GotoFacts DEF Renew, PC
<1>4. TypeOK'
  BY <1>1, <1>2, <1>3 DEF TypeOK, Renew, args
<1>5. CopyMatchesRow'
  BY <1>1, <1>2, <1>3 DEF CopyMatchesRow, Writing, Renew, args
<1>6. RowKept'
  BY <1>1, <1>2, <1>3 DEF RowKept, Renew, args
<1>7. HoldersKnow'
  BY <1>1, <1>2, <1>3 DEF HoldersKnow, Holding, Renew, args
<1> QED
  BY <1>4, <1>5, <1>6, <1>7

\* The copy takes the value of a worker: the row's, unless it was overtaken.
LEMMA MemcacheSetIInv ==
    ASSUME IInv, NEW w \in Worker, MemcacheSet(w)
    PROVE  IInv'
<1> USE DEF IInv
<1>1. key[w] \in Key /\ pc[w] \in {"store", "memset"} /\ val[w] \in String /\ overtaken[w] \in BOOLEAN
  BY DEF TypeOK, MemcacheSet
<1>2. /\ pc' \in [Worker -> PC] /\ key' \in [Worker -> Key \cup {NoKey}]
      /\ val' \in [Worker -> String] /\ days' \in [Worker -> 0..MaxDays]
      /\ pc'[w] = "idle"
      /\ \A u \in Worker \ {w} : pc'[u] = pc[u] /\ key'[u] = key[u] /\ val'[u] = val[u]
  BY ReturnFacts DEF MemcacheSet
<1>3. kvstore' = kvstore /\ overtaken' = overtaken /\ stored' = stored
  BY DEF MemcacheSet
<1>4. RowKept'
  BY <1>1, <1>2, <1>3 DEF RowKept
<1>5. HoldersKnow'
  BY <1>1, <1>2, <1>3 DEF HoldersKnow, Holding
<1>6. CASE /\ memcache' = [memcache EXCEPT ![key[w]] =
                IF val[w] = Empty THEN NoCopy ELSE [val |-> val[w], ttl |-> 1]]
           /\ tainted' = [tainted EXCEPT ![key[w]] = overtaken[w] /\ val[w] # Empty]
  <2> DEFINE c == IF val[w] = Empty THEN NoCopy ELSE [val |-> val[w], ttl |-> 1]
  <2>1. c \in Copy /\ c.val = val[w]
    BY <1>1 DEF Copy, NoCopy, String
  <2>2. /\ memcache' \in [Key -> Copy]
        /\ memcache'[key[w]].val = val[w]
        /\ \A k \in Key \ {key[w]} : memcache'[k] = memcache[k]
    BY <1>1, <1>6, <2>1 DEF TypeOK
  <2>3. /\ tainted' \in [Key -> BOOLEAN]
        /\ tainted'[key[w]] = (overtaken[w] /\ val[w] # Empty)
        /\ \A k \in Key \ {key[w]} : tainted'[k] = tainted[k]
    BY <1>1, <1>6, Zenon DEF TypeOK
  <2>4. TypeOK'
    BY <1>2, <1>3, <2>2, <2>3 DEF TypeOK
  <2>5. CopyMatchesRow'
    <3> SUFFICES ASSUME NEW k \in Key, ~tainted'[k], \A u \in Worker : ~Writing(u, k)'
                 PROVE  memcache'[k].val \in {Empty, RowValue(kvstore[k])}
      BY <1>3 DEF CopyMatchesRow
    <3>1. CASE k = key[w]
      BY <1>1, <2>2, <2>3, <3>1 DEF HoldersKnow, Holding
    <3>2. CASE k # key[w]
      BY <1>1, <1>2, <2>2, <2>3, <3>2 DEF CopyMatchesRow, Writing
    <3> QED
      BY <3>1, <3>2
  <2> QED
    BY <1>4, <1>5, <2>4, <2>5
<1>7. CASE /\ tainted' = [tainted EXCEPT ![key[w]] = @ \/ pc[w] = "memset"]
           /\ UNCHANGED memcache
  <2>1. /\ tainted' \in [Key -> BOOLEAN]
        /\ tainted'[key[w]] = (tainted[key[w]] \/ pc[w] = "memset")
        /\ \A k \in Key \ {key[w]} : tainted'[k] = tainted[k]
    BY <1>1, <1>7, Zenon DEF TypeOK
  <2>2. TypeOK'
    BY <1>2, <1>3, <1>7, <2>1 DEF TypeOK
  <2>3. CopyMatchesRow'
    <3> SUFFICES ASSUME NEW k \in Key, ~tainted'[k], \A u \in Worker : ~Writing(u, k)'
                 PROVE  memcache[k].val \in {Empty, RowValue(kvstore[k])}
      BY <1>3, <1>7 DEF CopyMatchesRow
    <3>1. ~tainted[k] /\ (k = key[w] => pc[w] # "memset")
      BY <1>1, <2>1
    <3>2. \A u \in Worker : ~Writing(u, k)
      BY <1>1, <1>2, <3>1 DEF Writing
    <3> QED
      BY <3>1, <3>2 DEF CopyMatchesRow
  <2> QED
    BY <1>4, <1>5, <2>2, <2>3
<1> QED
  BY <1>6, <1>7 DEF MemcacheSet

\* A writer that changes the row of its key keeps the invariant, as long as it
\* goes on to write the copy: its key is exempt until then.
LEMMA WriterIInv ==
    ASSUME IInv, NEW w \in Worker, NEW table \in [Key -> Row \cup {NoRow}], NEW failed \in BOOLEAN,
           Write(w, table, failed),
           \A k \in Key \ {key[w]} : table[k] = kvstore[k],
           NEW to \in {"insert", "memset", "memremove"}, Goto(w, to), key[w] \in Key,
           to = "memset" /\ ~failed => val[w] = RowValue(table[key[w]]),
           UNCHANGED <<memcache, args, tainted>>
    PROVE  /\ CopyMatchesRow' /\ HoldersKnow'
           /\ stored' \in [Key -> BOOLEAN] => TypeOK'
<1> USE DEF IInv
<1>1. /\ kvstore' = table
      /\ overtaken' \in [Worker -> BOOLEAN]
      /\ overtaken'[w] = failed
      /\ \A u \in Worker \ {w} : ~overtaken'[u] =>
            /\ ~overtaken[u]
            /\ \A k \in Key : Holding(u, k) => RowValue(table[k]) = RowValue(kvstore[k])
  BY WriteFacts
<1>2. /\ pc' \in [Worker -> PC]
      /\ \A u \in Worker : pc'[u] = IF u = w THEN to ELSE pc[u]
  BY GotoFacts DEF PC
<1>3. ASSUME stored' \in [Key -> BOOLEAN] PROVE TypeOK'
  BY <1>1, <1>2, <1>3, NoKey \notin Key DEF TypeOK, args
<1>4. CopyMatchesRow'
  <2> SUFFICES ASSUME NEW k \in Key, ~tainted[k], \A u \in Worker : ~Writing(u, k)'
               PROVE  memcache[k].val \in {Empty, RowValue(table[k])}
    BY <1>1 DEF CopyMatchesRow
  <2>1. k # key[w]
    BY <1>2 DEF Writing, args
  <2>2. \A u \in Worker : ~Writing(u, k)
    BY <1>2, <2>1 DEF Writing, args
  <2> QED
    BY <2>1, <2>2 DEF CopyMatchesRow
<1>5. HoldersKnow'
  <2> SUFFICES ASSUME NEW u \in Worker, NEW k \in Key, Holding(u, k)', ~overtaken'[u]
               PROVE  val[u] \in {Empty, RowValue(table[k])}
    BY <1>1 DEF HoldersKnow, args
  <2>1. CASE u = w
    BY <1>1, <1>2, <2>1 DEF Holding, args
  <2>2. CASE u # w
    <3>1. Holding(u, k)
      BY <1>2, <2>2 DEF Holding, args
    <3> QED
      BY <1>1, <2>2, <3>1 DEF HoldersKnow
  <2> QED
    BY <2>1, <2>2
<1> QED
  BY <1>3, <1>4, <1>5

\* A row that one Set deletes is that Set's to store.
LEMMA SetDeleteIInv ==
    ASSUME IInv, NEW w \in Worker, SetDelete(w)
    PROVE  IInv'
<1> USE DEF IInv
<1>1. key[w] \in Key /\ pc[w] = "delete" /\ kvstore \in [Key -> Row \cup {NoRow}]
  BY DEF TypeOK, SetDelete
<1>2. /\ Without(key[w]) \in [Key -> Row \cup {NoRow}]
      /\ Without(key[w])[key[w]] = NoRow
      /\ \A i \in Key \ {key[w]} : Without(key[w])[i] = kvstore[i]
  BY <1>1, WithoutFacts
<1>3. UNCHANGED <<memcache, args, tainted>>
  BY DEF SetDelete
<1>4. CASE Write(w, Without(key[w]), FALSE) /\ Goto(w, "insert") /\ UNCHANGED stored
  <2>1. CopyMatchesRow' /\ HoldersKnow' /\ TypeOK'
    BY <1>1, <1>2, <1>3, <1>4, WriterIInv DEF TypeOK
  <2>2. \A u \in Worker : pc'[u] = IF u = w THEN "insert" ELSE pc[u]
    BY <1>4, GotoFacts DEF PC
  <2>3. RowKept'
    BY <1>1, <1>2, <1>3, <1>4, <2>2 DEF RowKept, Write, args
  <2> QED
    BY <2>1, <2>3
<1>5. CASE Write(w, kvstore, TRUE) /\ Goto(w, "memset") /\ UNCHANGED stored
  <2>1. CopyMatchesRow' /\ HoldersKnow' /\ TypeOK'
    BY <1>1, <1>3, <1>5, WriterIInv DEF TypeOK
  <2>2. \A u \in Worker : pc'[u] = IF u = w THEN "memset" ELSE pc[u]
    BY <1>5, GotoFacts DEF PC
  <2>3. RowKept'
    BY <1>1, <1>3, <1>5, <2>2 DEF RowKept, Write, args
  <2> QED
    BY <2>1, <2>3
<1>6. CASE /\ Write(w, Without(key[w]), TRUE) /\ Goto(w, "memset")
           /\ stored' = [stored EXCEPT ![key[w]] = FALSE]
  <2>1. /\ stored' \in [Key -> BOOLEAN] /\ ~stored'[key[w]]
        /\ \A k \in Key \ {key[w]} : stored'[k] = stored[k]
    BY <1>1, <1>6 DEF TypeOK
  <2>2. CopyMatchesRow' /\ HoldersKnow' /\ TypeOK'
    BY <1>1, <1>2, <1>3, <1>6, <2>1, WriterIInv
  <2>3. \A u \in Worker : pc'[u] = IF u = w THEN "memset" ELSE pc[u]
    BY <1>6, GotoFacts DEF PC
  <2>4. RowKept'
    BY <1>1, <1>2, <1>3, <1>6, <2>1, <2>3 DEF RowKept, Write, args
  <2> QED
    BY <2>2, <2>4
<1> QED
  BY <1>4, <1>5, <1>6 DEF SetDelete

\* An INSERT stores the row, or finds that another Set has stored one.
LEMMA SetInsertIInv ==
    ASSUME IInv, NEW w \in Worker, SetInsert(w)
    PROVE  IInv'
<1> USE DEF IInv
<1>1. /\ key[w] \in Key /\ pc[w] = "insert" /\ kvstore \in [Key -> Row \cup {NoRow}]
      /\ val[w] \in String /\ days[w] \in Days
  BY DEF TypeOK, SetInsert, Days
<1>2. UNCHANGED <<memcache, args, tainted>> /\ Goto(w, "memset")
  BY DEF SetInsert
<1>3. \A u \in Worker : pc'[u] = IF u = w THEN "memset" ELSE pc[u]
  BY <1>2, GotoFacts DEF PC
<1>4. ASSUME NEW failed \in BOOLEAN,
             Write(w, [kvstore EXCEPT ![key[w]] = [val |-> val[w], days |-> days[w]]], failed),
             stored' = [stored EXCEPT ![key[w]] = TRUE]
      PROVE  IInv'
  <2> DEFINE r == [val |-> val[w], days |-> days[w]]
             t == [kvstore EXCEPT ![key[w]] = r]
  <2>1. r \in Row /\ r # NoRow /\ r.val = val[w]
    BY <1>1 DEF Row, String, Days
  <2>2. /\ t \in [Key -> Row \cup {NoRow}] /\ t[key[w]] = r
        /\ \A k \in Key \ {key[w]} : t[k] = kvstore[k]
    BY <1>1, <2>1
  <2>3. val[w] = RowValue(t[key[w]])
    BY <2>1, <2>2 DEF RowValue
  <2>4. stored' \in [Key -> BOOLEAN] /\ \A k \in Key \ {key[w]} : stored'[k] = stored[k]
    BY <1>1, <1>4 DEF TypeOK
  <2>5. Write(w, t, failed) /\ kvstore' = t
    BY <1>4 DEF Write
  <2> HIDE DEF t
  <2>6. CopyMatchesRow' /\ HoldersKnow' /\ TypeOK'
    BY <1>1, <1>2, <2>2, <2>3, <2>4, <2>5, WriterIInv
  <2>7. RowKept'
    BY <1>1, <1>2, <1>3, <2>1, <2>2, <2>4, <2>5 DEF RowKept, args
  <2> QED
    BY <2>6, <2>7
<1>5. ASSUME Write(w, kvstore, TRUE),
             stored' = [stored EXCEPT ![key[w]] = @ /\ kvstore[key[w]] # NoRow]
      PROVE  IInv'
  <2>1. /\ stored' \in [Key -> BOOLEAN]
        /\ stored'[key[w]] => kvstore[key[w]] # NoRow
        /\ \A k \in Key \ {key[w]} : stored'[k] = stored[k]
    BY <1>1, <1>5, Zenon DEF TypeOK
  <2>2. CopyMatchesRow' /\ HoldersKnow' /\ TypeOK'
    BY <1>1, <1>2, <1>5, <2>1, WriterIInv
  <2>3. kvstore' = kvstore
    BY <1>5 DEF Write
  <2>4. RowKept'
    BY <1>1, <1>2, <1>3, <2>1, <2>3 DEF RowKept, args
  <2> QED
    BY <2>2, <2>4
<1> QED
  BY <1>4, <1>5 DEF SetInsert

\* A Delete that takes the row away goes on to take the copy away.
LEMMA DeleteRowIInv ==
    ASSUME IInv, NEW w \in Worker, DeleteRow(w)
    PROVE  IInv'
<1> USE DEF IInv
<1>1. key[w] \in Key /\ pc[w] = "remove" /\ kvstore \in [Key -> Row \cup {NoRow}]
  BY DEF TypeOK, DeleteRow
<1>2. UNCHANGED <<memcache, args, tainted>> /\ Goto(w, "memremove")
  BY DEF DeleteRow
<1>3. /\ pc' \in [Worker -> PC]
      /\ \A u \in Worker : pc'[u] = IF u = w THEN "memremove" ELSE pc[u]
  BY <1>2, GotoFacts DEF PC
<1>4. CASE /\ Write(w, Without(key[w]), FALSE)
           /\ stored' = [stored EXCEPT ![key[w]] = FALSE]
  <2>1. /\ stored' \in [Key -> BOOLEAN] /\ ~stored'[key[w]]
        /\ \A k \in Key \ {key[w]} : stored'[k] = stored[k]
    BY <1>1, <1>4 DEF TypeOK
  <2>2. /\ Without(key[w]) \in [Key -> Row \cup {NoRow}]
        /\ \A i \in Key \ {key[w]} : Without(key[w])[i] = kvstore[i]
    BY <1>1, WithoutFacts
  <2>3. CopyMatchesRow' /\ HoldersKnow' /\ TypeOK'
    BY <1>1, <1>2, <1>4, <2>1, <2>2, WriterIInv
  <2>4. RowKept'
    BY <1>1, <1>2, <1>3, <1>4, <2>1, <2>2 DEF RowKept, Write, args
  <2> QED
    BY <2>3, <2>4
<1>5. CASE UNCHANGED <<kvstore, overtaken, stored>>
  <2>1. TypeOK'
    BY <1>1, <1>2, <1>3, <1>5 DEF TypeOK, args
  <2>2. CopyMatchesRow'
    BY <1>1, <1>2, <1>3, <1>5 DEF CopyMatchesRow, Writing, args
  <2>3. RowKept' /\ HoldersKnow'
    BY <1>1, <1>2, <1>3, <1>5 DEF RowKept, HoldersKnow, Holding, args
  <2> QED
    BY <2>1, <2>2, <2>3
<1> QED
  BY <1>4, <1>5 DEF DeleteRow

\* A copy that is gone agrees with any row.
LEMMA MemcacheRemoveIInv ==
    ASSUME IInv, NEW w \in Worker, MemcacheRemove(w)
    PROVE  IInv'
<1> USE DEF IInv
<1>1. key[w] \in Key /\ pc[w] = "memremove"
  BY DEF TypeOK, MemcacheRemove
<1>2. /\ pc' \in [Worker -> PC] /\ key' \in [Worker -> Key \cup {NoKey}]
      /\ val' \in [Worker -> String] /\ days' \in [Worker -> 0..MaxDays]
      /\ pc'[w] = "idle"
      /\ \A u \in Worker \ {w} : pc'[u] = pc[u] /\ key'[u] = key[u] /\ val'[u] = val[u]
  BY ReturnFacts DEF MemcacheRemove
<1>3. kvstore' = kvstore /\ overtaken' = overtaken /\ stored' = stored
  BY DEF MemcacheRemove
<1>4. /\ tainted' \in [Key -> BOOLEAN] /\ memcache' \in [Key -> Copy]
      /\ tainted'[key[w]] \/ memcache'[key[w]].val = Empty
      /\ \A k \in Key \ {key[w]} : tainted'[k] = tainted[k] /\ memcache'[k] = memcache[k]
  <2>1. /\ tainted' \in [Key -> BOOLEAN]
        /\ \A k \in Key \ {key[w]} : tainted'[k] = tainted[k]
    BY <1>1, Zenon DEF MemcacheRemove, TypeOK
  <2>2. CASE memcache' = [memcache EXCEPT ![key[w]] = NoCopy]
    <3>1. NoCopy \in Copy /\ NoCopy.val = Empty
      BY DEF NoCopy, Copy, String
    <3> QED
      BY <1>1, <2>1, <2>2, <3>1 DEF TypeOK
  <2>3. CASE tainted' = [tainted EXCEPT ![key[w]] = TRUE] /\ UNCHANGED memcache
    BY <1>1, <2>1, <2>3 DEF TypeOK
  <2> QED
    BY <2>2, <2>3 DEF MemcacheRemove
<1>5. TypeOK'
  BY <1>2, <1>3, <1>4 DEF TypeOK
<1>6. RowKept' /\ HoldersKnow'
  BY <1>1, <1>2, <1>3 DEF RowKept, HoldersKnow, Holding
<1>7. CopyMatchesRow'
  <2> SUFFICES ASSUME NEW k \in Key, ~tainted'[k], \A u \in Worker : ~Writing(u, k)'
               PROVE  memcache'[k].val \in {Empty, RowValue(kvstore[k])}
    BY <1>3 DEF CopyMatchesRow
  <2>1. CASE k = key[w]
    BY <1>4, <2>1
  <2>2. CASE k # key[w]
    BY <1>1, <1>2, <1>4, <2>2 DEF CopyMatchesRow, Writing
  <2> QED
    BY <2>1, <2>2
<1> QED
  BY <1>5, <1>6, <1>7

\* Rows that go under their copies taint the copies and overtake the holders.
LEMMA DropRowsIInv ==
    ASSUME IInv, NEW gone \in SUBSET Key, DropRows(gone),
           stored' \in [Key -> BOOLEAN],
           \A k \in Key : stored'[k] => stored[k] /\ k \notin gone
    PROVE  IInv'
<1> USE DEF IInv
<1>1. /\ kvstore' \in [Key -> Row \cup {NoRow}]
      /\ \A k \in Key : k \notin gone => kvstore'[k] = kvstore[k]
  BY DEF DropRows, TypeOK
<1>2. /\ overtaken' \in [Worker -> BOOLEAN]
      /\ \A u \in Worker : ~overtaken'[u] => ~overtaken[u] /\ \A k \in gone : ~Holding(u, k)
  BY Zenon DEF DropRows, TypeOK
<1>3. /\ tainted' \in [Key -> BOOLEAN]
      /\ \A k \in Key : ~tainted'[k] => ~tainted[k] /\ (k \in gone => memcache[k].val = Empty)
  BY Zenon DEF DropRows, TypeOK
<1>4. UNCHANGED <<memcache, pc, key, val, days>>
  BY DEF DropRows, args
<1>5. TypeOK'
  BY <1>1, <1>2, <1>3, <1>4 DEF TypeOK
<1>6. CopyMatchesRow'
  BY <1>1, <1>3, <1>4 DEF CopyMatchesRow, Writing
<1>7. RowKept'
  BY <1>1, <1>4 DEF RowKept
<1>8. HoldersKnow'
  <2> SUFFICES ASSUME NEW u \in Worker, NEW k \in Key, Holding(u, k), ~overtaken'[u]
               PROVE  val[u] \in {Empty, RowValue(kvstore'[k])}
    BY <1>4 DEF HoldersKnow, Holding
  <2>1. ~overtaken[u] /\ k \notin gone
    BY <1>2
  <2> QED
    BY <1>1, <2>1 DEF HoldersKnow
<1> QED
  BY <1>5, <1>6, <1>7, <1>8

LEMMA EmptyIInv == ASSUME IInv, longTermCacheEmpty PROVE IInv'
<1>1. DropRows(Key) /\ stored' \in [Key -> BOOLEAN] /\ \A k \in Key : ~stored'[k]
  BY DEF longTermCacheEmpty
<1> QED
  BY <1>1, DropRowsIInv

LEMMA SweeperIInv == ASSUME IInv, longTermCacheSweeperInfo PROVE IInv'
<1> DEFINE gone == {k \in Key : Expired(kvstore[k])}
<1>1. DropRows(gone) /\ gone \in SUBSET Key
  BY DEF longTermCacheSweeperInfo
<1>2. /\ stored' \in [Key -> BOOLEAN]
      /\ \A k \in Key : stored'[k] => stored[k] /\ k \notin gone
  BY Zenon DEF longTermCacheSweeperInfo, Expired, IInv, TypeOK
<1> HIDE DEF gone
<1> QED
  BY <1>1, <1>2, DropRowsIInv

\* Time changes no value of a row.
LEMMA DayPassesIInv == ASSUME IInv, DayPasses PROVE IInv'
<1> USE DEF IInv
<1>1. ASSUME NEW k \in Key
      PROVE  /\ kvstore'[k] \in Row \cup {NoRow}
             /\ RowValue(kvstore'[k]) = RowValue(kvstore[k])
             /\ kvstore'[k] = NoRow => kvstore[k] = NoRow
  <2>1. CASE kvstore[k] = NoRow \/ kvstore[k].days = -1
    BY <2>1 DEF DayPasses, TypeOK
  <2>2. CASE kvstore[k] # NoRow /\ kvstore[k].days # -1
    <3> DEFINE r == [kvstore[k] EXCEPT !.days = @ - 1]
    <3>1. kvstore[k] \in Row /\ kvstore'[k] = r
      BY <2>2 DEF DayPasses, TypeOK
    <3>2. r \in Row /\ r.val = kvstore[k].val
      BY <2>2, <3>1 DEF Row, Days
    <3>3. r # NoRow
      BY <3>2 DEF Row, String, Days
    <3> QED
      BY <2>2, <3>1, <3>2, <3>3 DEF RowValue
  <2> QED
    BY <2>1, <2>2
<1>2. kvstore' \in [Key -> Row \cup {NoRow}]
  BY <1>1 DEF DayPasses
<1>3. UNCHANGED <<memcache, pc, key, val, days, overtaken, tainted, stored>>
  BY DEF DayPasses, args
<1>4. TypeOK'
  BY <1>2, <1>3 DEF TypeOK
<1>5. CopyMatchesRow' /\ RowKept'
  BY <1>1, <1>3 DEF CopyMatchesRow, Writing, RowKept
<1>6. HoldersKnow'
  BY <1>1, <1>3 DEF HoldersKnow, Holding
<1> QED
  BY <1>4, <1>5, <1>6

\* A copy that ages keeps its value or goes, and its taint goes with it.
LEMMA MemcacheAgesIInv == ASSUME IInv, MemcacheAges PROVE IInv'
<1> USE DEF IInv
<1>1. ASSUME NEW k \in Key
      PROVE  /\ memcache'[k] \in Copy
             /\ memcache'[k].val = Empty \/ (memcache[k].ttl # 0 /\ memcache'[k].val = memcache[k].val)
  BY DEF MemcacheAges, TypeOK, Copy, NoCopy, String
<1>2. memcache' \in [Key -> Copy]
  BY <1>1 DEF MemcacheAges
<1>3. /\ tainted' \in [Key -> BOOLEAN]
      /\ \A k \in Key : tainted'[k] = (tainted[k] /\ memcache[k].ttl # 0)
  BY Zenon DEF MemcacheAges, TypeOK
<1>4. UNCHANGED <<kvstore, pc, key, val, days, overtaken, stored>>
  BY DEF MemcacheAges, args
<1>5. TypeOK'
  BY <1>2, <1>3, <1>4 DEF TypeOK
<1>6. CopyMatchesRow'
  BY <1>1, <1>3, <1>4 DEF CopyMatchesRow, Writing
<1>7. RowKept' /\ HoldersKnow'
  BY <1>4 DEF RowKept, HoldersKnow, Holding
<1> QED
  BY <1>5, <1>6, <1>7

LEMMA NextIInv == IInv /\ [Next]_vars => IInv'
<1> SUFFICES ASSUME IInv, [Next]_vars PROVE IInv'
  OBVIOUS
<1>1. ASSUME NEW w \in Worker, longTermCacheGet(w) PROVE IInv'
  <2>1. PICK k \in Key, d \in 0..MaxDays : Begin(w, k, Empty, d, "select")
    BY <1>1 DEF longTermCacheGet
  <2> QED
    BY <2>1, BeginIInv DEF String
<1>2. ASSUME NEW w \in Worker, longTermCacheSet(w) PROVE IInv'
  BY <1>2, BeginIInv DEF longTermCacheSet
<1>3. ASSUME NEW w \in Worker, longTermCacheDelete(w) PROVE IInv'
  <2>1. PICK k \in Key : Begin(w, k, Empty, 0, "remove")
    BY <1>3 DEF longTermCacheDelete
  <2>2. 0 \in 0..MaxDays /\ Empty \in String
    BY DEF String
  <2> QED
    BY <2>1, <2>2, BeginIInv
<1>4. ASSUME NEW w \in Worker, Serve(w) PROVE IInv'
  BY <1>4, SelectIInv, RenewIInv, SetDeleteIInv, SetInsertIInv, MemcacheSetIInv,
     DeleteRowIInv, MemcacheRemoveIInv DEF Serve
<1>5. CASE UNCHANGED vars
  BY <1>5 DEF vars, IInv, TypeOK, CopyMatchesRow, Writing, RowKept, HoldersKnow, Holding
<1> QED
  BY <1>1, <1>2, <1>3, <1>4, <1>5, EmptyIInv, SweeperIInv, DayPassesIInv, MemcacheAgesIInv
     DEF Next, MemcacheHit

\* The two stores keep their invariant, whatever calls fail and in whatever order
\* the calls of the handlers reach MySQL and memcached.
THEOREM CacheInvariant == Spec => []IInv
  BY InitIInv, NextIInv, PTL DEF Spec

\* A copy in memcached is wrong only for one of the reasons CopyMatchesRow lists.
THEOREM CacheCopyMatchesRow == Spec => []CopyMatchesRow
<1>1. IInv => CopyMatchesRow
  BY DEF IInv
<1> QED
  BY <1>1, CacheInvariant, PTL

\* Sets that run into each other leave one of their rows.
THEOREM CacheRowKept == Spec => []RowKept
<1>1. IInv => RowKept
  BY DEF IInv
<1> QED
  BY <1>1, CacheInvariant, PTL
=============================================================================
