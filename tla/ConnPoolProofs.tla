--------------------------- MODULE ConnPoolProofs ---------------------------
(***************************************************************************)
(* Proofs about ConnPool, for every number of threads and connections.     *)
(***************************************************************************)
EXTENDS ConnPool, FiniteSetTheorems, TLAPS

USE ConnPoolAssumption

\* The set of awake threads is finite before and after a step, so NoLostWakeup
\* compares numbers.
LEMMA AwakeIsFinite ==
    /\ IsFiniteSet(Awake) /\ Cardinality(Awake) \in Nat
    /\ IsFiniteSet(Awake') /\ Cardinality(Awake') \in Nat
<1>1. Awake \subseteq Thread /\ Awake' \subseteq Thread
  BY DEF Awake
<1> QED
  BY <1>1, FS_Subset, FS_CardinalityType

\* The free entries of the map are finitely many.
LEMMA FreeIsFinite ==
    ASSUME TypeOK
    PROVE  IsFiniteSet(Free) /\ Cardinality(Free) \in Nat
<1>1. Free \subseteq Conn
  BY DEF TypeOK, Free
<1> QED
  BY <1>1, FS_Subset, FS_CardinalityType

\* A pool just constructed satisfies the invariant, also when no connection
\* could be opened.
LEMMA InitIInv == Init => IInv
<1> SUFFICES ASSUME Init PROVE IInv
  OBVIOUS
<1> PICK opened \in SUBSET Conn :
          /\ connPool = [c \in opened |-> "FREE"]
          /\ availableConnections = Cardinality(opened)
  BY DEF Init
<1>1. IsFiniteSet(opened) /\ Cardinality(opened) \in Nat
  BY FS_Subset, FS_CardinalityType
<1>2. TypeOK
  BY <1>1 DEF Init, TypeOK, State, PC
<1>3. Free = opened /\ Waiting = {}
  BY DEF Init, Free, Waiting
<1>4. HandlesMatchPool
  BY DEF Init, HandlesMatchPool
<1>5. HandlesMatchPC
  BY DEF Init, HandlesMatchPC, Thread
<1>6. CounterMatchesPool /\ NoLostWakeup /\ NeverGetsThere
  BY <1>3 DEF Init, CounterMatchesPool, NoLostWakeup, NeverGetsThere
<1> QED
  BY <1>2, <1>4, <1>5, <1>6 DEF IInv

\* A thread that finds nothing free and waits keeps the invariant.
LEMMA WaitIInv ==
    ASSUME IInv, NEW t \in Thread, Wait(t)
    PROVE  IInv'
<1>1. TypeOK'
  BY DEF IInv, TypeOK, Wait, PC
<1>2. HandlesMatchPool' /\ HandlesMatchPC'
  BY DEF IInv, TypeOK, HandlesMatchPool, HandlesMatchPC, Wait, Thread
<1>3. CounterMatchesPool' /\ NeverGetsThere'
  BY DEF IInv, TypeOK, CounterMatchesPool, NeverGetsThere, Free, Wait
<1>4. NoLostWakeup'
  BY AwakeIsFinite DEF Wait, NoLostWakeup
<1> QED
  BY <1>1, <1>2, <1>3, <1>4 DEF IInv

\* A thread that takes a connection keeps the invariant: the counter and the
\* set of free entries lose one each, and the thread is no longer awake.
LEMMA getConnectionIInv ==
    ASSUME IInv, NEW t \in Thread, getConnection(t)
    PROVE  IInv'
<1> USE DEF IInv
<1>1. availableConnections = Cardinality(Free) /\ availableConnections # 0
  BY DEF CounterMatchesPool, getConnection
<1>2. Free # {}
  BY <1>1, FS_EmptySet
<1>3. PICK c \in Free :
          /\ connPool' = [connPool EXCEPT ![c] = "INUSE"]
          /\ availableConnections' = availableConnections - 1
          /\ con' = [con EXCEPT ![t] = c]
          /\ pc' = [pc EXCEPT ![t] = "holding"]
          /\ UNCHANGED stmt
  BY <1>2 DEF getConnection
<1>4. c \in DOMAIN connPool /\ connPool[c] = "FREE" /\ c \in Conn /\ c # NoConn
  BY <1>3 DEF TypeOK, Free
<1>5. availableConnections' \in Nat
  BY <1>1, <1>3 DEF TypeOK
<1>6. TypeOK'
  <2>1. PICK opened \in SUBSET Conn : connPool \in [opened -> State]
    BY DEF TypeOK
  <2>2. connPool' \in [opened -> State]
    BY <1>3, <2>1 DEF State
  <2> QED
    BY <1>3, <1>4, <1>5, <2>2 DEF TypeOK, PC
<1>7. HandlesMatchPool'
  <2>1. \A u \in Thread : con[u] # c
    BY <1>4 DEF HandlesMatchPool
  <2>2. \A u \in Thread : con'[u] = IF u = t THEN c ELSE con[u]
    BY <1>3 DEF TypeOK
  <2>3. DOMAIN connPool' = DOMAIN connPool
    BY <1>3 DEF TypeOK
  <2>4. \A d \in DOMAIN connPool : connPool'[d] = IF d = c THEN "INUSE" ELSE connPool[d]
    BY <1>3 DEF TypeOK
  <2>5. con[t] = NoConn
    BY DEF HandlesMatchPC, getConnection
  <2>6. NoConn \notin DOMAIN connPool
    BY DEF TypeOK
  <2> QED
    BY <1>4, <2>1, <2>2, <2>3, <2>4, <2>5, <2>6 DEF HandlesMatchPool
<1>8. HandlesMatchPC'
  <2>1. pc[t] \in {"idle", "awake"}
    BY DEF getConnection
  <2> QED
    BY <1>3, <1>4, <2>1 DEF HandlesMatchPC, TypeOK, Thread
<1>9. CounterMatchesPool'
  <2>1. Free' = Free \ {c}
    BY <1>3, <1>4 DEF Free, TypeOK
  <2> QED
    BY <1>1, <1>3, <2>1, FreeIsFinite, FS_RemoveElement DEF CounterMatchesPool
<1>10. NoLostWakeup'
  <2>1. Waiting' \subseteq Waiting /\ Awake' = Awake \ {t}
    BY <1>3 DEF TypeOK, Waiting, Awake
  <2>2. Cardinality(Awake') >= Cardinality(Awake) - 1
    BY <2>1, AwakeIsFinite, FS_RemoveElement
  <2> QED
    BY <1>3, <1>5, <2>1, <2>2, AwakeIsFinite DEF NoLostWakeup, TypeOK
<1>11. NeverGetsThere'
  BY <1>3 DEF NeverGetsThere, TypeOK
<1> QED
  BY <1>6, <1>7, <1>8, <1>9, <1>10, <1>11

\* Running the statement keeps the invariant.
LEMMA ExecuteIInv ==
    ASSUME IInv, NEW t \in Thread, Execute(t)
    PROVE  IInv'
<1> USE DEF IInv
<1>1. PICK s \in {con[t], NoConn} : stmt' = [stmt EXCEPT ![t] = s]
  BY DEF Execute
<1>2. TypeOK'
  BY <1>1 DEF TypeOK, PC, Execute
<1>3. HandlesMatchPool' /\ CounterMatchesPool' /\ NeverGetsThere'
  BY DEF TypeOK, HandlesMatchPool, CounterMatchesPool, NeverGetsThere, Free, Execute
<1>4. HandlesMatchPC'
  BY <1>1 DEF TypeOK, HandlesMatchPC, Execute, Thread
<1>5. NoLostWakeup'
  <2>1. Waiting' = Waiting /\ Awake' = Awake
    BY DEF TypeOK, Waiting, Awake, Execute
  <2> QED
    BY <2>1 DEF NoLostWakeup, Execute
<1> QED
  BY <1>2, <1>3, <1>4, <1>5

\* Destroying the statement keeps the invariant.
LEMMA CloseStatementIInv ==
    ASSUME IInv, NEW t \in Thread, CloseStatement(t)
    PROVE  IInv'
<1> USE DEF IInv
<1>1. TypeOK'
  BY DEF TypeOK, PC, CloseStatement
<1>2. HandlesMatchPool' /\ CounterMatchesPool' /\ NeverGetsThere'
  BY DEF TypeOK, HandlesMatchPool, CounterMatchesPool, NeverGetsThere, Free, CloseStatement
<1>3. HandlesMatchPC'
  BY DEF TypeOK, HandlesMatchPC, CloseStatement, Thread
<1>4. NoLostWakeup'
  <2>1. Waiting' = Waiting /\ Awake' = Awake
    BY DEF TypeOK, Waiting, Awake, CloseStatement
  <2> QED
    BY <2>1 DEF NoLostWakeup, CloseStatement
<1> QED
  BY <1>1, <1>2, <1>3, <1>4

\* Giving a connection back keeps the invariant: the counter and the set of free
\* entries gain one each, and so do the awake threads when somebody waits.
LEMMA freeConnectionIInv ==
    ASSUME IInv, NEW t \in Thread, freeConnection(t)
    PROVE  IInv'
<1> USE DEF IInv
<1> DEFINE next == IF t \in Worker THEN "idle" ELSE "freed"
<1>1. /\ connPool' = [connPool EXCEPT ![con[t]] = "FREE"]
      /\ availableConnections' = availableConnections + 1
      /\ con' = [con EXCEPT ![t] = NoConn]
      /\ UNCHANGED stmt
      /\ pc[t] \in {"closed", "executed"}
      /\ t \in Worker => pc[t] = "closed"
  BY DEF freeConnection
<1>2. \/ Waiting = {} /\ pc' = [pc EXCEPT ![t] = next]
      \/ \E u \in Waiting : pc' = [pc EXCEPT ![t] = next, ![u] = "awake"]
  BY DEF freeConnection, NotifyOne
<1>3. con[t] # NoConn /\ con[t] \in DOMAIN connPool /\ connPool[con[t]] = "INUSE"
  BY <1>1 DEF HandlesMatchPC, HandlesMatchPool
<1>4. next \in {"idle", "freed"} /\ (t \in Worker => next = "idle")
  OBVIOUS
<1>5. /\ pc' \in [Thread -> PC]
      /\ pc'[t] = next
      /\ \A u \in Thread \ {t} : pc'[u] = pc[u] \/ (pc[u] = "waiting" /\ pc'[u] = "awake")
  <2> HIDE DEF next
  <2>1. CASE Waiting = {} /\ pc' = [pc EXCEPT ![t] = next]
    BY <1>4, <2>1 DEF TypeOK, PC
  <2>2. CASE \E u \in Waiting : pc' = [pc EXCEPT ![t] = next, ![u] = "awake"]
    <3>1. PICK u \in Waiting : pc' = [pc EXCEPT ![t] = next, ![u] = "awake"]
      BY <2>2
    <3>2. u \in Thread /\ u # t /\ pc[u] = "waiting"
      BY <1>1 DEF Waiting
    <3> QED
      BY <1>4, <3>1, <3>2 DEF TypeOK, PC
  <2> QED
    BY <1>2, <2>1, <2>2
<1>6. TypeOK'
  <2>1. PICK opened \in SUBSET Conn : connPool \in [opened -> State]
    BY DEF TypeOK
  <2>2. connPool' \in [opened -> State]
    BY <1>1, <2>1 DEF State
  <2>3. availableConnections' \in Nat
    BY <1>1 DEF TypeOK
  <2>4. con' \in [Thread -> Conn \cup {NoConn}] /\ stmt' \in [Thread -> Conn \cup {NoConn}]
    BY <1>1 DEF TypeOK
  <2> QED
    BY <1>5, <2>2, <2>3, <2>4 DEF TypeOK
<1>7. HandlesMatchPool'
  <2>1. \A u \in Thread : con'[u] = IF u = t THEN NoConn ELSE con[u]
    BY <1>1 DEF TypeOK
  <2>2. DOMAIN connPool' = DOMAIN connPool
    BY <1>1 DEF TypeOK
  <2>3. \A d \in DOMAIN connPool :
           connPool'[d] = IF d = con[t] THEN "FREE" ELSE connPool[d]
    BY <1>1 DEF TypeOK
  <2>4. NoConn \notin DOMAIN connPool
    BY DEF TypeOK
  <2> QED
    BY <1>3, <2>1, <2>2, <2>3, <2>4 DEF HandlesMatchPool
<1>8. HandlesMatchPC'
  <2> HIDE DEF next
  <2>1. \A u \in Thread : con'[u] = IF u = t THEN NoConn ELSE con[u]
    BY <1>1 DEF TypeOK
  <2>2. \A u \in Worker : u \in Thread
    BY DEF Thread
  <2>3. t \in Worker => stmt[t] = NoConn
    BY <1>1 DEF HandlesMatchPC
  <2> QED
    BY <1>1, <1>4, <1>5, <2>1, <2>2, <2>3 DEF HandlesMatchPC
<1>9. CounterMatchesPool'
  <2>1. Free' = Free \cup {con[t]} /\ con[t] \notin Free
    BY <1>1, <1>3 DEF Free, TypeOK
  <2> QED
    BY <1>1, <2>1, FreeIsFinite, FS_AddElement DEF CounterMatchesPool
<1>10. NoLostWakeup'
  <2> HIDE DEF next
  <2>1. CASE Waiting = {} /\ pc' = [pc EXCEPT ![t] = next]
    <3>1. Waiting' = {}
      BY <1>4, <2>1 DEF Waiting, TypeOK
    <3> QED
      BY <3>1 DEF NoLostWakeup
  <2>2. CASE \E u \in Waiting : pc' = [pc EXCEPT ![t] = next, ![u] = "awake"]
    <3>1. PICK u \in Waiting : pc' = [pc EXCEPT ![t] = next, ![u] = "awake"]
      BY <2>2
    <3>2. u \in Thread /\ u # t /\ pc[u] = "waiting"
      BY <1>1 DEF Waiting
    <3>3. Awake' = Awake \cup {u} /\ u \notin Awake
      BY <1>1, <1>4, <3>1, <3>2 DEF Awake, TypeOK
    <3>4. Cardinality(Awake') = Cardinality(Awake) + 1
      BY <3>3, AwakeIsFinite, FS_AddElement
    <3>5. availableConnections <= Cardinality(Awake)
      BY <3>1 DEF NoLostWakeup
    <3> QED
      BY <1>1, <3>4, <3>5, AwakeIsFinite DEF NoLostWakeup, TypeOK
  <2> QED
    BY <1>2, <2>1, <2>2
<1>11. NeverGetsThere'
  <2> HIDE DEF next
  <2> QED
    BY <1>4, <1>5 DEF NeverGetsThere
<1> QED
  BY <1>6, <1>7, <1>8, <1>9, <1>10, <1>11

\* A spurious wakeup keeps the invariant: one more thread is awake.
LEMMA SpuriousWakeupIInv ==
    ASSUME IInv, NEW t \in Thread, SpuriousWakeup(t)
    PROVE  IInv'
<1> USE DEF IInv
<1>1. TypeOK'
  BY DEF TypeOK, PC, SpuriousWakeup
<1>2. HandlesMatchPool' /\ CounterMatchesPool' /\ NeverGetsThere'
  BY DEF TypeOK, HandlesMatchPool, CounterMatchesPool, NeverGetsThere, Free, SpuriousWakeup
<1>3. HandlesMatchPC'
  BY DEF TypeOK, HandlesMatchPC, SpuriousWakeup, Thread
<1>4. NoLostWakeup'
  <2>1. Waiting' \subseteq Waiting /\ Awake' = Awake \cup {t} /\ t \notin Awake
    BY DEF TypeOK, Waiting, Awake, SpuriousWakeup
  <2>2. Cardinality(Awake') = Cardinality(Awake) + 1
    BY <2>1, AwakeIsFinite, FS_AddElement
  <2> QED
    BY <2>1, <2>2, AwakeIsFinite DEF NoLostWakeup, SpuriousWakeup, TypeOK
<1> QED
  BY <1>1, <1>2, <1>3, <1>4

\* Every step of the pool keeps the invariant.
LEMMA NextIInv == IInv /\ [Next]_vars => IInv'
<1> SUFFICES ASSUME IInv, [Next]_vars PROVE IInv'
  OBVIOUS
<1>1. CASE UNCHANGED vars
  BY <1>1 DEF vars, IInv, TypeOK, HandlesMatchPool, HandlesMatchPC, CounterMatchesPool,
              NoLostWakeup, NeverGetsThere, Free, Waiting, Awake
<1>2. CASE Next
  BY <1>2, WaitIInv, getConnectionIInv, ExecuteIInv, CloseStatementIInv,
     freeConnectionIInv, SpuriousWakeupIInv DEF Next
<1> QED
  BY <1>1, <1>2

\* The map, the counter, the handles and the wait set of a connection pool agree
\* in every reachable state, for any number of threads and connections.
THEOREM PoolInvariant == Spec => []IInv
<1>1. Init => IInv
  BY InitIInv
<1>2. IInv /\ [Next]_vars => IInv'
  BY NextIInv
<1> QED
  BY <1>1, <1>2, PTL DEF Spec

\* The throw "Should never get here" at the end of getConnection is never
\* reached.
THEOREM PoolNeverGetsThere == Spec => []NeverGetsThere
<1>1. IInv => NeverGetsThere
  BY DEF IInv
<1> QED
  BY <1>1, PoolInvariant, PTL

\* No thread sleeps in getConnection while a free connection has nobody awake to
\* take it.
THEOREM PoolNoLostWakeup == Spec => []NoLostWakeup
<1>1. IInv => NoLostWakeup
  BY DEF IInv
<1> QED
  BY <1>1, PoolInvariant, PTL

\* Two request threads never use one connection at the same time.
THEOREM PoolWorkersExclusive == Spec => []WorkersExclusive
<1>1. IInv => WorkersExclusive
  BY DEF IInv, WorkersExclusive, Uses, HandlesMatchPool, HandlesMatchPC, Thread
<1> QED
  BY <1>1, PoolInvariant, PTL

\* The pool implements the abstract pool: a connection goes to one caller at a
\* time and comes from the set opened at startup.
THEOREM PoolRefinesResourcePool == Spec => AbstractSpec
<1>1. Init => Abstract!Init
  BY DEF Init, Abstract!Init
<1>2. IInv /\ [Next]_vars => [Abstract!Next]_(Abstract!vars)
  <2> SUFFICES ASSUME IInv, [Next]_vars PROVE [Abstract!Next]_(Abstract!vars)
    OBVIOUS
  <2> USE DEF Abstract!vars
  <2>1. CASE UNCHANGED vars
    BY <2>1 DEF vars
  <2>2. ASSUME NEW t \in Thread, Wait(t) \/ Execute(t) \/ CloseStatement(t) \/ SpuriousWakeup(t)
        PROVE  UNCHANGED Abstract!vars
    BY <2>2 DEF Wait, Execute, CloseStatement, SpuriousWakeup
  <2>3. ASSUME NEW t \in Thread, getConnection(t)
        PROVE  Abstract!Next \/ UNCHANGED Abstract!vars
    <3>1. CASE Free = {}
      BY <2>3, <3>1 DEF getConnection
    <3>2. CASE Free # {}
      <4>1. PICK c \in Free : /\ connPool' = [connPool EXCEPT ![c] = "INUSE"]
                              /\ con' = [con EXCEPT ![t] = c]
        BY <2>3, <3>2 DEF getConnection
      <4>2. c \in DOMAIN connPool /\ connPool[c] = "FREE"
        BY DEF Free
      <4>3. \A u \in Thread : con[u] # c
        BY <4>2 DEF IInv, HandlesMatchPool
      <4>4. con[t] = NoConn
        BY <2>3 DEF IInv, HandlesMatchPC, getConnection
      <4>5. DOMAIN connPool' = DOMAIN connPool
        BY <4>1 DEF IInv, TypeOK
      <4>6. Abstract!Acquire(t)
        BY <4>1, <4>2, <4>3, <4>4, <4>5 DEF Abstract!Acquire
      <4> QED
        BY <4>6 DEF Abstract!Next
    <3> QED
      BY <3>1, <3>2
  <2>4. ASSUME NEW t \in Thread, freeConnection(t)
        PROVE  Abstract!Next
    <3>1. con[t] # NoConn /\ con' = [con EXCEPT ![t] = NoConn]
      BY <2>4 DEF IInv, HandlesMatchPC, freeConnection
    <3>2. DOMAIN connPool' = DOMAIN connPool
      BY <2>4 DEF IInv, TypeOK, freeConnection
    <3>3. Abstract!Release(t)
      BY <3>1, <3>2 DEF Abstract!Release
    <3> QED
      BY <3>3 DEF Abstract!Next
  <2> QED
    BY <2>1, <2>2, <2>3, <2>4 DEF Next
<1> QED
  BY <1>1, <1>2, PoolInvariant, PTL DEF Spec, AbstractSpec, Abstract!Spec
=============================================================================
