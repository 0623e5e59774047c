--------------------------- MODULE SqlTablesProofs --------------------------
(***************************************************************************)
(* Proofs about two tables that all sites share, each with statements that *)
(* commit one by one: locks, of SitewideLock.tla, for every number of      *)
(* clients and keys and every lease, and session_data, of                  *)
(* SessionCache.tla, for every number of workers, sites, ids and values    *)
(* and every lifetime of a row.  The two do not meet.                      *)
(***************************************************************************)
EXTENDS SitewideLock, SessionCache, TLAPS

USE SitewideLockAssumption

\* Counting up stays within the ages, and two equal ages stay equal.
LEMMA OlderIsAge == \A a \in Age : Older(a) \in Age /\ Older(a) >= a
BY DEF Age, Older

\* An empty table satisfies the invariant.
LEMMA InitIInv == Init => IInv
<1> SUFFICES ASSUME Init PROVE IInv
  OBVIOUS
<1>1. 0 \in Age
  BY DEF Age
<1>2. TypeOK
  BY <1>1 DEF Init, TypeOK
<1>3. LeaseHasRow
  BY DEF Init, LeaseHasRow
<1> QED
  BY <1>2, <1>3 DEF IInv

\* The passing of time ages a lock and its row alike.
LEMMA TickIInv == IInv /\ Tick => IInv'
<1> SUFFICES ASSUME IInv, Tick PROVE IInv'
  OBVIOUS
<1>1. 0 \in Age /\ \A a \in Age : a \in Nat
  BY DEF Age
<1>2. TypeOK'
  BY <1>1, OlderIsAge DEF IInv, TypeOK, Tick
<1>3. LeaseHasRow'
  <2> SUFFICES ASSUME ~late, NEW c \in Client, hold[c] # NoKey, heldFor'[c] <= Lease
               PROVE  owner[hold[c]] = c /\ rowAge'[hold[c]] = heldFor'[c]
    BY DEF LeaseHasRow, Tick
  <2>1. hold[c] \in Key /\ heldFor[c] \in Age
    BY DEF IInv, TypeOK
  <2>2. heldFor'[c] = Older(heldFor[c])
    BY DEF Tick
  <2>3. heldFor[c] <= Lease
    BY <1>1, <2>1, <2>2, OlderIsAge
  <2>4. owner[hold[c]] = c /\ rowAge[hold[c]] = heldFor[c]
    BY <2>3 DEF IInv, LeaseHasRow
  <2> QED
    BY <2>1, <2>2, <2>4 DEF Tick
<1> QED
  BY <1>2, <1>3 DEF IInv

\* A row is made only where there is none, so no client within its lease loses
\* its row to an INSERT.
LEMMA lockIInv ==
    ASSUME IInv, NEW c \in Client, NEW k \in Key, lock(c, k)
    PROVE  IInv'
<1> USE DEF IInv
<1>1. 0 \in Age /\ 0 <= Lease
  BY DEF Age
<1>2. TypeOK'
  BY <1>1 DEF TypeOK, lock, Insert
<1>3. hold[c] = NoKey /\ late' = late
  BY DEF lock
<1>4. CASE /\ Insert(c, k)
           /\ hold' = [hold EXCEPT ![c] = k]
           /\ heldFor' = [heldFor EXCEPT ![c] = 0]
  <2>1. /\ owner[k] = NoClient
        /\ \A j \in Key : /\ owner'[j] = IF j = k THEN c ELSE owner[j]
                         /\ rowAge'[j] = IF j = k THEN 0 ELSE rowAge[j]
    BY <1>4 DEF TypeOK, Insert
  <2>2. \A d \in Client : /\ hold'[d] = IF d = c THEN k ELSE hold[d]
                          /\ heldFor'[d] = IF d = c THEN 0 ELSE heldFor[d]
    BY <1>4 DEF TypeOK
  <2>3. \A d \in Client : hold[d] # NoKey => hold[d] \in Key
    BY DEF TypeOK
  <2> QED
    BY <1>2, <1>3, <2>1, <2>2, <2>3 DEF LeaseHasRow
<1>5. CASE /\ Insert(c, k) \/ UNCHANGED <<owner, rowAge>>
           /\ UNCHANGED <<hold, heldFor>>
  <2>1. CASE UNCHANGED <<owner, rowAge>>
    BY <1>2, <1>3, <1>5, <2>1 DEF LeaseHasRow
  <2>2. CASE Insert(c, k)
    <3>1. /\ owner[k] = NoClient
          /\ \A j \in Key : j # k => owner'[j] = owner[j] /\ rowAge'[j] = rowAge[j]
      BY <2>2 DEF TypeOK, Insert
    <3>2. \A d \in Client : hold[d] # NoKey => hold[d] \in Key
      BY DEF TypeOK
    <3> QED
      BY <1>2, <1>3, <1>5, <3>1, <3>2 DEF LeaseHasRow
  <2> QED
    BY <1>5, <2>1, <2>2
<1> QED
  BY <1>4, <1>5 DEF lock

\* The purge takes only rows whose lease has run out.
LEMMA PurgeIInv ==
    ASSUME IInv, NEW c \in Client, PurgeApplied(c) \/ PurgeFailed(c)
    PROVE  IInv'
<1> USE DEF IInv
<1>1. TypeOK'
  BY DEF TypeOK, PurgeApplied, PurgeFailed, Age
<1>2. LeaseHasRow'
  <2> SUFFICES ASSUME ~late, NEW d \in Client, hold[d] # NoKey, heldFor[d] <= Lease
               PROVE  owner'[hold[d]] = d /\ rowAge'[hold[d]] = heldFor[d]
    BY DEF LeaseHasRow, PurgeApplied, PurgeFailed
  <2>1. hold[d] \in Key /\ owner[hold[d]] = d /\ rowAge[hold[d]] = heldFor[d]
    BY DEF TypeOK, LeaseHasRow
  <2>2. ~Stale(hold[d])
    BY <2>1 DEF Stale, TypeOK, Age
  <2> QED
    BY <2>1, <2>2 DEF PurgeApplied, PurgeFailed
<1> QED
  BY <1>1, <1>2

\* An unlock within the lease deletes the client's own row.
LEMMA unlockIInv ==
    ASSUME IInv, NEW c \in Client, unlock(c)
    PROVE  IInv'
<1> USE DEF IInv
<1>1. TypeOK'
  BY DEF TypeOK, unlock, Age
<1>2. LeaseHasRow'
  <2> SUFFICES ASSUME ~late', NEW d \in Client, hold'[d] # NoKey, heldFor'[d] <= Lease
               PROVE  owner'[hold'[d]] = d /\ rowAge'[hold'[d]] = heldFor'[d]
    BY DEF LeaseHasRow
  <2>1. ~late /\ heldFor[c] <= Lease
    <3>1. ~late /\ ~(heldFor[c] > Lease)
      BY Zenon DEF unlock
    <3>2. heldFor[c] \in Nat
      BY DEF TypeOK, Age
    <3> QED
      BY <3>1, <3>2
  <2>2. d # c /\ hold'[d] = hold[d] /\ heldFor'[d] = heldFor[d]
    BY DEF unlock, TypeOK
  <2>3. owner[hold[d]] = d /\ rowAge[hold[d]] = heldFor[d] /\ owner[hold[c]] = c
    BY <2>1, <2>2 DEF LeaseHasRow, unlock
  <2>4. hold[c] # hold[d] /\ hold[d] \in Key
    BY <2>2, <2>3 DEF TypeOK
  <2> QED
    BY <2>2, <2>3, <2>4 DEF unlock, TypeOK
<1> QED
  BY <1>1, <1>2

\* A client that dies holds nothing.
LEMMA DieIInv ==
    ASSUME IInv, NEW c \in Client, Die(c)
    PROVE  IInv'
<1>1. TypeOK'
  BY DEF IInv, TypeOK, Die, Age
<1>2. LeaseHasRow'
  BY DEF IInv, TypeOK, LeaseHasRow, Die
<1> QED
  BY <1>1, <1>2 DEF IInv

\* Every step keeps the invariant.
LEMMA NextIInv == IInv /\ [Next]_vars => IInv'
<1> SUFFICES ASSUME IInv, [Next]_vars PROVE IInv'
  OBVIOUS
<1>1. CASE UNCHANGED vars
  BY <1>1 DEF vars, IInv, TypeOK, LeaseHasRow
<1> QED
  BY <1>1, TickIInv, lockIInv, PurgeIInv, unlockIInv, DieIInv DEF Next

\* Within its lease a client's row stays in the table, as long as nobody
\* unlocks late.
THEOREM LockInvariant == Spec => []IInv
<1>1. Init => IInv
  BY InitIInv
<1>2. IInv /\ [Next]_vars => IInv'
  BY NextIInv
<1> QED
  BY <1>1, <1>2, PTL DEF Spec

\* The sitewide lock excludes: two clients within the minute of one lock exist
\* only after an unlock that came later than its own minute.
THEOREM LockLeaseExclusive == Spec => []LeaseExclusive
<1>1. IInv => LeaseExclusive
  <2> SUFFICES ASSUME IInv, ~late, NEW c \in Client, NEW d \in Client, c # d,
                      hold[c] = hold[d], hold[c] # NoKey,
                      ~(heldFor[c] > Lease), ~(heldFor[d] > Lease)
               PROVE  FALSE
    BY DEF LeaseExclusive
  <2>1. heldFor[c] <= Lease /\ heldFor[d] <= Lease
    BY DEF IInv, TypeOK, Age
  <2> QED
    BY <2>1 DEF IInv, LeaseHasRow
<1> QED
  BY <1>1, LockInvariant, PTL

-----------------------------------------------------------------------------
\* A day changes nothing of a row but its time.
LEMMA AgedKeeps ==
    ASSUME NEW r \in Row \cup {NoRow}
    PROVE  /\ Aged(r) \in Row \cup {NoRow} /\ (Aged(r) = NoRow <=> r = NoRow)
           /\ r # NoRow => Aged(r).subdomain = r.subdomain /\ Aged(r).data = r.data
<1> USE SessionCacheAssumption DEF SessionCacheAssumption
<1>1. CASE r = NoRow \/ r.left < 0
  BY <1>1 DEF Aged
<1>2. CASE ~(r = NoRow \/ r.left < 0)
  <2>1. r \in Row /\ r.left \in 0..Lifetime
    BY <1>2 DEF Row
  <2>2. Aged(r) = [r EXCEPT !.left = @ - 1]
    BY <1>2 DEF Aged
  <2>3. /\ [r EXCEPT !.left = @ - 1] \in Row
        /\ [r EXCEPT !.left = @ - 1].subdomain = r.subdomain /\ [r EXCEPT !.left = @ - 1].data = r.data
    BY <2>1 DEF Row
  <2> QED
    BY <2>1, <2>2, <2>3
<1> QED
  BY <1>1, <1>2

\* The session cache's types, and that a worker within a Set has its Call.
LEMMA SessionCacheTypes ==
    SessionCacheTypeOK /\ [SessionCacheNext]_sessionCacheVars => SessionCacheTypeOK'
<1> SUFFICES ASSUME SessionCacheTypeOK, [SessionCacheNext]_sessionCacheVars PROVE SessionCacheTypeOK'
  OBVIOUS
<1> USE SessionCacheAssumption DEF SessionCacheAssumption
<1>1. ASSUME NEW s \in Subdomain, NEW i \in Id PROVE Without(s, i) \in [Id -> Row \cup {NoRow}]
  BY <1>1 DEF SessionCacheTypeOK, Without
<1>2. ASSUME NEW s \in Subdomain, NEW i \in Id, NEW v \in Value \cup {Empty},
             NEW why \in {"no", "failed", "overlap", "foreign"}, Leaves(s, i, v, why)
      PROVE  /\ latest' \in [Subdomain -> [Id -> Value \cup {Empty}]]
             /\ lost' \in [Subdomain -> [Id -> {"no", "failed", "overlap", "foreign"}]]
  BY <1>2 DEF SessionCacheTypeOK, Leaves
<1>3. ASSUME NEW w \in Worker, stmt[w] # "idle"
      PROVE  call[w] \in Call /\ call[w].subdomain \in Subdomain /\ call[w].id \in Id /\ call[w].value \in Value
  BY <1>3 DEF SessionCacheTypeOK, Call
<1>4. ASSUME NEW w \in Worker, sessionCacheSet(w) PROVE SessionCacheTypeOK'
  BY <1>4 DEF sessionCacheSet, SessionCacheTypeOK, Call
<1>5. ASSUME NEW w \in Worker, SetDelete(w) PROVE SessionCacheTypeOK'
  <2>1. stmt[w] = "delete" /\ session_data' \in {session_data, Without(call[w].subdomain, call[w].id)} /\ actor' \in Subdomain
    BY <1>3, <1>5 DEF SetDelete, Goto
  <2>2. session_data' \in [Id -> Row \cup {NoRow}]
    BY <1>1, <1>3, <2>1 DEF SessionCacheTypeOK
  <2>3. /\ latest' \in [Subdomain -> [Id -> Value \cup {Empty}]]
        /\ lost' \in [Subdomain -> [Id -> {"no", "failed", "overlap", "foreign"}]]
    BY <1>2, <1>3, <1>5, <2>1 DEF SetDelete, SessionCacheTypeOK
  <2>4. /\ stmt' \in [Worker -> {"idle", "delete", "insert"}] /\ call' \in [Worker -> Call \cup {NoCall}]
        /\ \A v \in Worker : stmt'[v] # "idle" => call'[v] # NoCall
    BY <1>5, <2>1 DEF SetDelete, Goto, SessionCacheTypeOK
  <2> QED
    BY <2>1, <2>2, <2>3, <2>4 DEF SessionCacheTypeOK
<1>6. ASSUME NEW w \in Worker, SetInsert(w) PROVE SessionCacheTypeOK'
  <2>1. stmt[w] = "insert" /\ session_data' \in {session_data, With(call[w])} /\ actor' \in Subdomain
    BY <1>3, <1>6 DEF SetInsert, Goto
  <2>2. session_data' \in [Id -> Row \cup {NoRow}]
    BY <1>3, <2>1 DEF SessionCacheTypeOK, With, Row
  <2>3. /\ latest' \in [Subdomain -> [Id -> Value \cup {Empty}]]
        /\ lost' \in [Subdomain -> [Id -> {"no", "failed", "overlap", "foreign"}]]
    BY <1>2, <1>3, <1>6, <2>1 DEF SetInsert, SessionCacheTypeOK
  <2>4. /\ stmt' \in [Worker -> {"idle", "delete", "insert"}] /\ call' \in [Worker -> Call \cup {NoCall}]
        /\ \A v \in Worker : stmt'[v] # "idle" => call'[v] # NoCall
    BY <1>6, <2>1 DEF SetInsert, Goto, SessionCacheTypeOK
  <2> QED
    BY <2>1, <2>2, <2>3, <2>4 DEF SessionCacheTypeOK
<1>7. ASSUME NEW s \in Subdomain, NEW i \in Id, sessionCacheDelete(s, i) PROVE SessionCacheTypeOK'
  <2>1. /\ latest' \in [Subdomain -> [Id -> Value \cup {Empty}]]
        /\ lost' \in [Subdomain -> [Id -> {"no", "failed", "overlap", "foreign"}]]
    BY <1>2, <1>7 DEF sessionCacheDelete
  <2> QED
    BY <1>1, <1>7, <2>1 DEF sessionCacheDelete, SessionCacheTypeOK
<1>8. CASE garbageCollect
  BY <1>8 DEF garbageCollect, SessionCacheTypeOK
<1>9. CASE DayPasses
  BY <1>9, AgedKeeps DEF DayPasses, SessionCacheTypeOK
<1>10. CASE UNCHANGED sessionCacheVars
  BY <1>10 DEF sessionCacheVars, SessionCacheTypeOK
<1> QED
  BY <1>4, <1>5, <1>6, <1>7, <1>8, <1>9, <1>10 DEF SessionCacheNext

\* An empty table.
LEMMA SessionCacheInitially == SessionCacheInit => SessionCacheTypeOK /\ LastSetAnswered
<1> SUFFICES ASSUME SessionCacheInit PROVE SessionCacheTypeOK /\ LastSetAnswered
  OBVIOUS
<1>1. SessionCacheTypeOK
  BY DEF SessionCacheInit, SessionCacheTypeOK
<1>2. LastSetAnswered
  BY DEF SessionCacheInit, LastSetAnswered, sessionCacheGet, Owned
<1> QED
  BY <1>1, <1>2

\* What the Get of another site or of another id answers does not depend on a
\* row of s and i.
LEMMA OthersAnswers ==
    ASSUME SessionCacheTypeOK, NEW s \in Subdomain, NEW i \in Id,
           \/ session_data' \in {session_data, Without(s, i)}
           \/ session_data[i] = NoRow /\ \E c \in Call : c.subdomain = s /\ c.id = i /\ session_data' = With(c)
    PROVE  \A t \in Subdomain, k \in Id : <<t, k>> # <<s, i>> => sessionCacheGet(t, k)' = sessionCacheGet(t, k)
<1> USE SessionCacheAssumption DEF SessionCacheAssumption
<1> SUFFICES ASSUME NEW t \in Subdomain, NEW k \in Id, t # s \/ k # i
             PROVE  sessionCacheGet(t, k)' = sessionCacheGet(t, k)
  OBVIOUS
<1>1. CASE session_data' = session_data
  BY <1>1 DEF sessionCacheGet, Owned
<1>2. CASE session_data' = Without(s, i)
  BY <1>2 DEF sessionCacheGet, Owned, Without, SessionCacheTypeOK
<1>3. ASSUME session_data[i] = NoRow, NEW c \in Call, c.subdomain = s, c.id = i, session_data' = With(c)
      PROVE  sessionCacheGet(t, k)' = sessionCacheGet(t, k)
  <2> DEFINE r == [subdomain |-> c.subdomain, data |-> c.value, left |-> Lifetime]
  <2>1. r \in Row /\ r # NoRow /\ r.subdomain = s
    BY <1>3 DEF Row, Call
  <2>2. session_data' = [session_data EXCEPT ![i] = r]
    BY <1>3 DEF With
  <2> HIDE DEF r
  <2> QED
    BY <1>3, <2>1, <2>2 DEF sessionCacheGet, Owned, SessionCacheTypeOK
<1> QED
  BY <1>1, <1>2, <1>3

\* The answers of the session cache stay right.
LEMMA SessionCacheStep ==
    SessionCacheTypeOK /\ LastSetAnswered /\ [SessionCacheNext]_sessionCacheVars => LastSetAnswered'
<1> SUFFICES ASSUME SessionCacheTypeOK, LastSetAnswered, [SessionCacheNext]_sessionCacheVars PROVE LastSetAnswered'
  OBVIOUS
<1> USE SessionCacheAssumption DEF SessionCacheAssumption
<1> DEFINE Right(s, i) == /\ lost[s][i] = "no" => sessionCacheGet(s, i) = latest[s][i]
                          /\ lost[s][i] = "overlap" => sessionCacheGet(s, i) # Empty
<1>1. \A s \in Subdomain, i \in Id : ~Between(s, i) => Right(s, i)
  BY DEF LastSetAnswered
<1>2. SUFFICES ASSUME NEW t \in Subdomain, NEW k \in Id, ~Between(t, k)' PROVE Right(t, k)'
  BY DEF LastSetAnswered
<1>3. ASSUME NEW w \in Worker, stmt[w] # "idle"
      PROVE  call[w] \in Call /\ call[w].subdomain \in Subdomain /\ call[w].id \in Id /\ call[w].value \in Value
  BY <1>3 DEF SessionCacheTypeOK, Call
\* A step that ends no other Set and leaves alone what a Get answers.
<1>4. ASSUME sessionCacheGet(t, k)' = sessionCacheGet(t, k), lost'[t][k] = lost[t][k], latest'[t][k] = latest[t][k],
             ~Between(t, k)
      PROVE  Right(t, k)'
  BY <1>1, <1>4
<1>5. ASSUME NEW s \in Subdomain, NEW i \in Id, NEW v, NEW why, Leaves(s, i, v, why)
      PROVE  /\ <<s, i>> # <<t, k>> => lost'[t][k] = lost[t][k] /\ latest'[t][k] = latest[t][k]
             /\ <<s, i>> = <<t, k>> => lost'[t][k] = why /\ latest'[t][k] = v
  BY <1>5 DEF Leaves, SessionCacheTypeOK
<1>6. ASSUME NEW w \in Worker, sessionCacheSet(w) PROVE Right(t, k)'
  <2>1. ~Between(t, k)
    BY <1>2, <1>6 DEF sessionCacheSet, Between, SessionCacheTypeOK
  <2>2. sessionCacheGet(t, k)' = sessionCacheGet(t, k) /\ UNCHANGED <<latest, lost>>
    BY <1>6 DEF sessionCacheSet, sessionCacheGet, Owned
  <2> QED
    BY <1>4, <2>1, <2>2
<1>7. ASSUME NEW w \in Worker, SetDelete(w) PROVE Right(t, k)'
  <2> DEFINE s == call[w].subdomain  i == call[w].id
  <2>1. stmt[w] = "delete" /\ s \in Subdomain /\ i \in Id /\ session_data' \in {session_data, Without(s, i)}
    BY <1>3, <1>7 DEF SetDelete, Goto
  <2>2. ~Between(t, k)
    BY <1>2, <1>7, <2>1 DEF SetDelete, Goto, Between, SessionCacheTypeOK
  <2>3. CASE <<s, i>> # <<t, k>>
    <3>1. sessionCacheGet(t, k)' = sessionCacheGet(t, k)
      BY <2>1, <2>3, OthersAnswers
    <3>2. lost'[t][k] = lost[t][k] /\ latest'[t][k] = latest[t][k]
      BY <1>5, <1>7, <2>1, <2>3 DEF SetDelete
    <3> QED
      BY <1>4, <2>2, <3>1, <3>2
  <2>4. CASE <<s, i>> = <<t, k>>
    <3>1. CASE Goto(w, "delete", "insert")
      BY <1>2, <2>4, <3>1 DEF Goto, Between, SessionCacheTypeOK
    <3>2. CASE Leaves(s, i, call[w].value, "failed")
      BY <1>5, <2>1, <2>4, <3>2
    <3> QED
      BY <1>7, <3>1, <3>2 DEF SetDelete
  <2> QED
    BY <2>3, <2>4
<1>8. ASSUME NEW w \in Worker, SetInsert(w) PROVE Right(t, k)'
  <2> DEFINE s == call[w].subdomain  i == call[w].id
  <2>1. stmt[w] = "insert" /\ s \in Subdomain /\ i \in Id /\ call[w] \in Call /\ call[w].value \in Value
    BY <1>3, <1>8 DEF SetInsert, Goto
  <2>2. CASE <<s, i>> # <<t, k>>
    <3>1. sessionCacheGet(t, k)' = sessionCacheGet(t, k)
      BY <1>8, <2>1, <2>2, OthersAnswers DEF SetInsert
    <3>2. lost'[t][k] = lost[t][k] /\ latest'[t][k] = latest[t][k]
      BY <1>5, <1>8, <2>1, <2>2 DEF SetInsert
    <3>3. ~Between(t, k)
      BY <1>2, <1>8, <2>1, <2>2 DEF SetInsert, Goto, Between, SessionCacheTypeOK
    <3> QED
      BY <1>4, <3>1, <3>2, <3>3
  <2>3. CASE <<s, i>> = <<t, k>>
    <3>1. CASE session_data' = With(call[w]) /\ \E why \in {"no", "failed"} : Leaves(s, i, call[w].value, why)
      <4> DEFINE r == [subdomain |-> s, data |-> call[w].value, left |-> Lifetime]
      <4>1. r \in Row /\ r # NoRow /\ session_data'[k] = r /\ r.subdomain = t /\ r.data = call[w].value
        BY <2>1, <2>3, <3>1 DEF With, Row, SessionCacheTypeOK
      <4>2. sessionCacheGet(t, k)' = call[w].value
        BY <4>1 DEF sessionCacheGet, Owned
      <4>3. lost'[t][k] \in {"no", "failed"} /\ latest'[t][k] = call[w].value
        BY <1>5, <2>1, <2>3, <3>1
      <4> QED
        BY <4>2, <4>3
    <3>2. CASE /\ UNCHANGED session_data /\ session_data[i] # NoRow
               /\ Leaves(s, i, call[w].value, IF Owned(s, i) THEN "overlap" ELSE "foreign")
      <4>1. lost'[t][k] = IF Owned(t, k) THEN "overlap" ELSE "foreign"
        BY <1>5, <2>1, <2>3, <3>2
      <4>2. Owned(t, k) => sessionCacheGet(t, k)' \in Value
        <5>1. Owned(t, k) => session_data[k] \in Row
          BY DEF Owned, SessionCacheTypeOK
        <5> QED
          BY <3>2, <5>1 DEF sessionCacheGet, Owned, Row
      <4> QED
        BY <4>1, <4>2
    <3>3. CASE Leaves(s, i, call[w].value, "failed")
      BY <1>5, <2>1, <2>3, <3>3
    <3> QED
      BY <1>8, <3>1, <3>2, <3>3 DEF SetInsert
  <2> QED
    BY <2>2, <2>3
<1>9. ASSUME NEW s \in Subdomain, NEW i \in Id, sessionCacheDelete(s, i) PROVE Right(t, k)'
  <2>1. ~Between(t, k) /\ session_data' \in {session_data, Without(s, i)}
    BY <1>2, <1>9 DEF sessionCacheDelete, Between
  <2>2. CASE <<s, i>> # <<t, k>>
    <3>1. sessionCacheGet(t, k)' = sessionCacheGet(t, k)
      BY <2>1, <2>2, OthersAnswers
    <3>2. lost'[t][k] = lost[t][k] /\ latest'[t][k] = latest[t][k]
      BY <1>5, <1>9, <2>2 DEF sessionCacheDelete
    <3> QED
      BY <1>4, <2>1, <3>1, <3>2
  <2>3. CASE <<s, i>> = <<t, k>>
    <3>1. CASE session_data' = Without(s, i) /\ \E why \in {"no", "failed"} : Leaves(s, i, Empty, why)
      <4>1. sessionCacheGet(t, k)' = Empty
        BY <2>3, <3>1 DEF Without, sessionCacheGet, Owned, SessionCacheTypeOK
      <4>2. lost'[t][k] \in {"no", "failed"} /\ latest'[t][k] = Empty
        BY <1>5, <2>3, <3>1
      <4> QED
        BY <4>1, <4>2
    <3>2. CASE Leaves(s, i, Empty, "failed")
      BY <1>5, <2>3, <3>2
    <3> QED
      BY <1>9, <3>1, <3>2 DEF sessionCacheDelete
  <2> QED
    BY <2>2, <2>3
<1>10. CASE garbageCollect
  <2>1. ~Between(t, k)
    BY <1>2, <1>10 DEF garbageCollect, Between
  <2>2. /\ session_data'[k] = IF Expired(k) THEN NoRow ELSE session_data[k]
        /\ latest'[t][k] = IF Expired(k) /\ Owned(t, k) THEN Empty ELSE latest[t][k]
        /\ lost'[t][k] = IF Expired(k) /\ Owned(t, k) THEN "no" ELSE lost[t][k]
    BY <1>10 DEF garbageCollect
  <2>3. CASE Expired(k) /\ Owned(t, k)
    BY <2>2, <2>3 DEF sessionCacheGet, Owned
  <2>4. CASE ~(Expired(k) /\ Owned(t, k))
    <3>1. sessionCacheGet(t, k)' = sessionCacheGet(t, k)
      BY <2>2, <2>4 DEF sessionCacheGet, Owned
    <3> QED
      BY <1>4, <2>1, <2>2, <2>4, <3>1
  <2> QED
    BY <2>3, <2>4
<1>11. CASE DayPasses
  <2>1. session_data'[k] = Aged(session_data[k]) /\ UNCHANGED <<stmt, call, latest, lost>>
    BY <1>11 DEF DayPasses
  <2>2. /\ session_data'[k] = NoRow <=> session_data[k] = NoRow
        /\ session_data[k] # NoRow => /\ session_data'[k].subdomain = session_data[k].subdomain
                                      /\ session_data'[k].data = session_data[k].data
    BY <2>1, AgedKeeps DEF SessionCacheTypeOK
  <2>3. sessionCacheGet(t, k)' = sessionCacheGet(t, k)
    BY <2>2 DEF sessionCacheGet, Owned
  <2>4. ~Between(t, k)
    BY <1>2, <2>1 DEF Between
  <2> QED
    BY <1>4, <2>1, <2>3, <2>4
<1>12. CASE UNCHANGED sessionCacheVars
  BY <1>1, <1>2, <1>12 DEF sessionCacheVars, Between, sessionCacheGet, Owned
<1> QED
  BY <1>6, <1>7, <1>8, <1>9, <1>10, <1>11, <1>12 DEF SessionCacheNext

\* Only the row's own site, or the end of its two days, takes a row away.
LEMMA RowsLeaveByOwner ==
    SessionCacheTypeOK /\ [SessionCacheNext]_sessionCacheVars => [\A i \in Id : LeavesByOwner(i)]_sessionCacheVars
<1> SUFFICES ASSUME SessionCacheTypeOK, SessionCacheNext, NEW k \in Id,
                    session_data[k] # NoRow, session_data[k].left >= 0, Gone(session_data[k], k)
             PROVE  actor' = session_data[k].subdomain
  BY DEF LeavesByOwner
<1>1. session_data'[k] # session_data[k]
  BY DEF Gone
<1>2. session_data[k] \in Row /\ session_data[k].left \in Int
  BY DEF SessionCacheTypeOK, Row
<1>3. ASSUME NEW s, NEW i \in Id, session_data' = Without(s, i) PROVE session_data[k].subdomain = s
  BY <1>1, <1>3 DEF Without, Owned, SessionCacheTypeOK
<1>4. ASSUME NEW w \in Worker, stmt[w] # "idle" PROVE call[w].id \in Id
  BY <1>4 DEF SessionCacheTypeOK, Call
<1>5. ASSUME NEW w \in Worker, sessionCacheSet(w) \/ SetDelete(w) \/ SetInsert(w) PROVE actor' = session_data[k].subdomain
  <2>1. CASE sessionCacheSet(w)
    BY <1>1, <2>1 DEF sessionCacheSet
  <2>2. CASE SetDelete(w)
    BY <1>1, <1>3, <1>4, <2>2 DEF SetDelete, Goto
  <2>3. CASE SetInsert(w)
    BY <1>1, <1>4, <2>3 DEF SetInsert, Goto, With, SessionCacheTypeOK
  <2> QED
    BY <1>5, <2>1, <2>2, <2>3
<1>6. ASSUME NEW s \in Subdomain, NEW i \in Id, sessionCacheDelete(s, i) PROVE actor' = session_data[k].subdomain
  BY <1>1, <1>3, <1>6 DEF sessionCacheDelete
<1>7. ~garbageCollect
  BY <1>1, <1>2 DEF garbageCollect, Expired
<1>8. ~DayPasses
  <2> SUFFICES ASSUME DayPasses PROVE FALSE
    OBVIOUS
  <2>1. session_data'[k] = Aged(session_data[k])
    BY DEF DayPasses
  <2> QED
    BY <1>2, <2>1, AgedKeeps DEF Gone
<1> QED
  BY <1>5, <1>6, <1>7, <1>8 DEF SessionCacheNext

\* Of the session cache: a Get answers what the last Set or Delete of the same
\* site and id left (MysqlProxy::sessionCacheGet, Set and Delete).
THEOREM SessionCacheLastSetAnswered == SessionCacheSpec => []LastSetAnswered
  BY SessionCacheInitially, SessionCacheTypes, SessionCacheStep, PTL DEF SessionCacheSpec

\* Of the session cache: no site takes away the row of another before its two
\* days are over, although the id alone is the primary key.
THEOREM SessionCacheKeptFromOthers == SessionCacheSpec => KeptFromOthers
  BY SessionCacheInitially, SessionCacheTypes, RowsLeaveByOwner, PTL DEF SessionCacheSpec, KeptFromOthers
=============================================================================
