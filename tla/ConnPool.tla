------------------------------ MODULE ConnPool ------------------------------
(***************************************************************************)
(* The connection pool of MysqlProxy (mysql_proxy.cpp) and MemcacheProxy   *)
(* (memcache_proxy.cpp): the same code twice.  A pool is a map from        *)
(* connections to POOL_FREE / POOL_INUSE, a counter of the free ones, a    *)
(* mutex and a condition variable.  Both critical sections (getConnection  *)
(* and freeConnection) run under poolMutex, so each is one action; the     *)
(* wait of getConnection splits it, because cond.wait gives the mutex up.  *)
(*                                                                         *)
(* A thread's whole operation is modelled: the statement it prepares uses  *)
(* the connection until the statement object is destroyed.  Local objects  *)
(* are destroyed in reverse order of declaration.  Every operation of      *)
(* MysqlProxy declares the connection handle before its statements, so the *)
(* statements die first -- except garbageCollect, which declares stmt      *)
(* before con and so frees the connection first.                           *)
(***************************************************************************)
EXTENDS Naturals, FiniteSets

CONSTANTS Worker,          \* request threads
          Collector,       \* threads that call garbageCollect (the Reaper)
          Conn,            \* the connections the constructor tries to open
          NoConn

Thread == Worker \cup Collector

ASSUME ConnPoolAssumption ==
    /\ Conn \subseteq Nat               \* ordered, as the addresses in a std::map are
    /\ Conn # {} /\ IsFiniteSet(Conn)   \* poolSize >= 1
    /\ IsFiniteSet(Thread)
    /\ Worker \cap Collector = {}
    /\ NoConn \notin Conn

VARIABLES connPool,              \* [opened connections -> {"FREE", "INUSE"}]
          availableConnections,
          pc,                    \* where each thread is in its operation
          con,                   \* con[t]: the connection whose handle t owns
          stmt                   \* stmt[t]: the connection t's live statement uses

vars == <<connPool, availableConnections, pc, con, stmt>>

State == {"FREE", "INUSE"}
PC == {"idle", "waiting", "awake", "holding", "executed", "closed", "freed", "threw"}

Free == {c \in DOMAIN connPool : connPool[c] = "FREE"}
Waiting == {t \in Thread : pc[t] = "waiting"}
Awake == {t \in Thread : pc[t] = "awake"}
-----------------------------------------------------------------------------
\* The constructor: createConnection once per slot.  MySQL's returns NULL when it
\* cannot connect, and the slot is dropped; memcached's always gives a client
\* (opened = Conn).
Init ==
    /\ \E opened \in SUBSET Conn :
          /\ connPool = [c \in opened |-> "FREE"]
          /\ availableConnections = Cardinality(opened)
    /\ pc = [t \in Thread |-> "idle"]
    /\ con = [t \in Thread |-> NoConn]
    /\ stmt = [t \in Thread |-> NoConn]

\* The while loop of getConnection finds nothing: cond.wait(lock).
Wait(t) ==
    /\ pc[t] \in {"idle", "awake"}
    /\ availableConnections = 0
    /\ pc' = [pc EXCEPT ![t] = "waiting"]
    /\ UNCHANGED <<connPool, availableConnections, con, stmt>>

\* Mutant: the wait is an "if", so a woken thread does not test again.
getConnection_IfNotWhile(t) ==
    /\ pc[t] = "awake" \/ (pc[t] = "idle" /\ availableConnections # 0)
    /\ IF Free = {}
       THEN /\ pc' = [pc EXCEPT ![t] = "threw"]
            /\ UNCHANGED <<connPool, availableConnections, con>>
       ELSE \E c \in Free :
              /\ connPool' = [connPool EXCEPT ![c] = "INUSE"]
              /\ availableConnections' = availableConnections - 1
              /\ con' = [con EXCEPT ![t] = c]
              /\ pc' = [pc EXCEPT ![t] = "holding"]
    /\ UNCHANGED stmt

\* Mutant: the entry that is handed out is not marked POOL_INUSE.
getConnection_NotMarked(t) ==
    /\ pc[t] \in {"idle", "awake"}
    /\ availableConnections # 0
    /\ \E c \in Free :
          /\ con' = [con EXCEPT ![t] = c]
          /\ availableConnections' = availableConnections - 1
          /\ pc' = [pc EXCEPT ![t] = "holding"]
    /\ UNCHANGED <<connPool, stmt>>

\* The loop of getConnection is left: the first POOL_FREE entry of the map is
\* marked and handed out; with none, the "Should never get here" throw.
getConnection(t) ==
    /\ pc[t] \in {"idle", "awake"}
    /\ availableConnections # 0
    /\ IF Free = {}
       THEN /\ pc' = [pc EXCEPT ![t] = "threw"]
            /\ UNCHANGED <<connPool, availableConnections, con>>
       ELSE \E c \in Free :
              /\ \A d \in Free : c <= d
              /\ connPool' = [connPool EXCEPT ![c] = "INUSE"]
              /\ availableConnections' = availableConnections - 1
              /\ con' = [con EXCEPT ![t] = c]
              /\ pc' = [pc EXCEPT ![t] = "holding"]
    /\ UNCHANGED stmt

\* prepareStatement and execute; every SQLException is caught in the operation,
\* and one raised by prepareStatement leaves no statement behind.
Execute(t) ==
    /\ pc[t] = "holding"
    /\ \E s \in {con[t], NoConn} : stmt' = [stmt EXCEPT ![t] = s]
    /\ pc' = [pc EXCEPT ![t] = "executed"]
    /\ UNCHANGED <<connPool, availableConnections, con>>

\* Mutant: the statement of a worker outlives the operation.
CloseStatement_Never(t) ==
    /\ \/ /\ t \in Worker /\ pc[t] = "executed"
          /\ pc' = [pc EXCEPT ![t] = "closed"]
       \/ /\ t \in Collector /\ pc[t] = "freed"
          /\ pc' = [pc EXCEPT ![t] = "idle"]
    /\ UNCHANGED <<connPool, availableConnections, con, stmt>>

\* Destruction of the statement object: it still talks to its connection.
CloseStatement(t) ==
    /\ \/ /\ t \in Worker /\ pc[t] = "executed"
          /\ pc' = [pc EXCEPT ![t] = "closed"]
       \/ /\ t \in Collector /\ pc[t] = "freed"
          /\ pc' = [pc EXCEPT ![t] = "idle"]
    /\ stmt' = [stmt EXCEPT ![t] = NoConn]
    /\ UNCHANGED <<connPool, availableConnections, con>>

\* Mutant: notifies only when the pool was empty, as if one wakeup were enough.
NotifyOne_IfWasEmpty(t, next) ==
    \/ /\ Waiting = {} \/ availableConnections # 0
       /\ pc' = [pc EXCEPT ![t] = next]
    \/ /\ availableConnections = 0
       /\ \E u \in Waiting : pc' = [pc EXCEPT ![t] = next, ![u] = "awake"]

\* Mutant: frees the connection without a notification.
NotifyOne_Missing(t, next) == pc' = [pc EXCEPT ![t] = next]

\* cond.notify_one(): one of the waiters, if any, leaves the wait set.
NotifyOne(t, next) ==
    \/ /\ Waiting = {}
       /\ pc' = [pc EXCEPT ![t] = next]
    \/ \E u \in Waiting : pc' = [pc EXCEPT ![t] = next, ![u] = "awake"]

\* freeConnection, the deleter of the connection handle.
freeConnection(t) ==
    /\ \/ t \in Worker /\ pc[t] = "closed"
       \/ t \in Collector /\ pc[t] = "executed"
    /\ connPool' = [connPool EXCEPT ![con[t]] = "FREE"]
    /\ availableConnections' = availableConnections + 1
    /\ con' = [con EXCEPT ![t] = NoConn]
    /\ NotifyOne(t, IF t \in Worker THEN "idle" ELSE "freed")
    /\ UNCHANGED stmt

\* boost::condition_variable may return from wait without a notification.
SpuriousWakeup(t) ==
    /\ pc[t] = "waiting"
    /\ pc' = [pc EXCEPT ![t] = "awake"]
    /\ UNCHANGED <<connPool, availableConnections, con, stmt>>

Next == \E t \in Thread :
          \/ Wait(t) \/ getConnection(t) \/ Execute(t) \/ CloseStatement(t)
          \/ freeConnection(t) \/ SpuriousWakeup(t)

Spec == Init /\ [][Next]_vars

\* A thread that was woken or that holds a connection keeps running, and MySQL
\* and memcached answer or fail.  When a request arrives is up to the clients:
\* no fairness for a thread that is idle.
Fairness == \A t \in Thread :
    /\ WF_vars(pc[t] = "awake" /\ (Wait(t) \/ getConnection(t)))
    /\ WF_vars(Execute(t) \/ CloseStatement(t) \/ freeConnection(t))

FairSpec == Spec /\ Fairness
-----------------------------------------------------------------------------
TypeOK ==
    /\ \E opened \in SUBSET Conn : connPool \in [opened -> State]
    /\ availableConnections \in Nat
    /\ pc \in [Thread -> PC]
    /\ con \in [Thread -> Conn \cup {NoConn}]
    /\ stmt \in [Thread -> Conn \cup {NoConn}]

\* The connections a thread may send bytes on: its handle's and its statement's.
Uses(t) == {con[t], stmt[t]} \ {NoConn}

\* The throw at the end of getConnection (mysql_proxy.cpp:71 and
\* memcache_proxy.cpp:44) says it is never reached: the counter never promises
\* a free connection the map does not have, whatever order threads take, free
\* and re-test in.
NeverGetsThere == \A t \in Thread : pc[t] # "threw"

\* Two request threads never talk on one connection at the same time, neither
\* through their handles nor through statements that outlive them.
WorkersExclusive ==
    \A t, u \in Worker : t # u => Uses(t) \cap Uses(u) = {}

\* As WorkersExclusive, for every thread: a connection the pool says is
\* POOL_FREE is used by nobody, one that is POOL_INUSE by its owner alone.
ExclusiveUse ==
    \A t, u \in Thread : t # u => Uses(t) \cap Uses(u) = {}

\* No wakeup is lost: while a thread waits on the condition variable, every
\* free connection has an awake thread on its way to it.
NoLostWakeup == Waiting # {} => availableConnections <= Cardinality(Awake)

\* The map agrees with the handles: a connection is marked in use exactly while
\* a thread owns its handle, and no two threads own the same one.
HandlesMatchPool ==
    /\ \A t \in Thread : con[t] # NoConn => con[t] \in DOMAIN connPool
    /\ \A c \in DOMAIN connPool :
          connPool[c] = "INUSE" <=> \E t \in Thread : con[t] = c
    /\ \A t, u \in Thread : con[t] = con[u] /\ con[t] # NoConn => t = u

\* Where a thread is in its operation says whether it owns a handle, and a
\* worker's statement never outlives the handle.
HandlesMatchPC ==
    /\ \A t \in Thread :
          con[t] # NoConn <=> pc[t] \in {"holding", "executed", "closed"}
    /\ \A t \in Worker :
          /\ pc[t] # "freed"
          /\ stmt[t] # NoConn => pc[t] = "executed" /\ stmt[t] = con[t]

\* The counter is the number of POOL_FREE entries.
CounterMatchesPool == availableConnections = Cardinality(Free)

\* The inductive invariant of the pool: the counter, the map, the handles and
\* the program counters agree, no wakeup is lost and the throw is not reached.
IInv ==
    /\ TypeOK
    /\ HandlesMatchPool
    /\ HandlesMatchPC
    /\ CounterMatchesPool
    /\ NoLostWakeup
    /\ NeverGetsThere

\* A thread that waits for a connection gets one, once the other threads stop
\* taking the connections that are freed for it, and provided that at least
\* one connection could be opened at startup.
WaiterServed ==
    \A t \in Thread :
       (/\ DOMAIN connPool # {}
        /\ <>[](\A u \in Thread \ {t} : pc[u] \in {"idle", "waiting", "freed"}))
       => (pc[t] = "waiting" ~> pc[t] = "holding")

\* The pool implements the abstract pool: handles are exclusive, and come only
\* from the connections opened at startup.
Abstract == INSTANCE ResourcePool WITH pool <- DOMAIN connPool, held <- con
AbstractSpec == Abstract!Spec
=============================================================================
