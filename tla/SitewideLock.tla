---------------------------- MODULE SitewideLock ----------------------------
(***************************************************************************)
(* The sitewide lock: MysqlProxy::lock and unlock, called by the handlers  *)
(* sitewideLock and sitewideUnlock.  A lock is a row of the table locks,   *)
(* whose key is unique; the row says when it was made and not by whom.     *)
(* A failed INSERT purges the rows of more than a minute and reports       *)
(* failure all the same: the caller has to ask again.                      *)
(*                                                                         *)
(* Each SQL statement commits by itself and is one step.  A statement can  *)
(* fail before it took effect, or after (the connection breaks before the  *)
(* answer).  Clients are PHP scripts: they die, and they overrun.          *)
(***************************************************************************)
EXTENDS Naturals

CONSTANTS Client,
          Key,      \* "<subdomain>:<iden>"
          Lease,    \* INTERVAL 1 MINUTE, in seconds
          NoClient, NoKey

ASSUME SitewideLockAssumption ==
    /\ Lease \in Nat
    /\ NoClient \notin Client /\ NoKey \notin Key

VARIABLES owner,     \* key -> the client whose INSERT made its row, or NoClient
          rowAge,    \* key -> seconds since created_at
          pc,        \* client -> "idle", or "purge" between lock's statements
          hold,      \* client -> the key it was told it has, or NoKey
          heldFor,   \* client -> seconds since that lock was made
          late       \* history: an unlock came after its lock's lease had run out

vars == <<owner, rowAge, pc, hold, heldFor, late>>

\* Ages stop counting when the lease has run out.
Age == 0..(Lease + 1)
Older(a) == IF a <= Lease THEN a + 1 ELSE a
-----------------------------------------------------------------------------
Init ==
    /\ owner = [k \in Key |-> NoClient]
    /\ rowAge = [k \in Key |-> 0]
    /\ pc = [c \in Client |-> "idle"]
    /\ hold = [c \in Client |-> NoKey]
    /\ heldFor = [c \in Client |-> 0]
    /\ late = FALSE

\* A second passes.
Tick ==
    /\ rowAge' = [k \in Key |-> IF owner[k] = NoClient THEN 0 ELSE Older(rowAge[k])]
    /\ heldFor' = [c \in Client |-> IF hold[c] = NoKey THEN 0 ELSE Older(heldFor[c])]
    /\ UNCHANGED <<owner, pc, hold, late>>

\* INSERT of a row the table does not have yet.
Insert(c, k) ==
    /\ owner[k] = NoClient
    /\ owner' = [owner EXCEPT ![k] = c]
    /\ rowAge' = [rowAge EXCEPT ![k] = 0]

\* Mutant: gotLock is set before the statement runs, so a duplicate key or an
\* error still reports the lock.
lock_EarlyResult(c, k) ==
    /\ pc[c] = "idle" /\ hold[c] = NoKey
    /\ Insert(c, k) \/ UNCHANGED <<owner, rowAge>>
    /\ hold' = [hold EXCEPT ![c] = k]
    /\ heldFor' = [heldFor EXCEPT ![c] = 0]
    /\ UNCHANGED <<pc, late>>

\* lock's first statement.  It works and gotLock is 1; or it throws, for a
\* duplicate key or for an error, which may come after the row was made.
lock(c, k) ==
    /\ pc[c] = "idle" /\ hold[c] = NoKey
    /\ \/ /\ Insert(c, k)
          /\ hold' = [hold EXCEPT ![c] = k]
          /\ heldFor' = [heldFor EXCEPT ![c] = 0]
          /\ UNCHANGED pc
       \/ /\ Insert(c, k) \/ UNCHANGED <<owner, rowAge>>
          /\ pc' = [pc EXCEPT ![c] = "purge"]
          /\ UNCHANGED <<hold, heldFor>>
    /\ UNCHANGED late

\* Mutant: no row is ever old enough.
Stale_Never(k) == FALSE

\* created_at < DATE_SUB(NOW(), INTERVAL 1 MINUTE)
Stale(k) == owner[k] # NoClient /\ rowAge[k] > Lease

\* lock's second statement: rows of every site are purged.
PurgeApplied(c) ==
    /\ pc[c] = "purge"
    /\ owner' = [k \in Key |-> IF Stale(k) THEN NoClient ELSE owner[k]]
    /\ rowAge' = [k \in Key |-> IF Stale(k) THEN 0 ELSE rowAge[k]]
    /\ pc' = [pc EXCEPT ![c] = "idle"]
    /\ UNCHANGED <<hold, heldFor, late>>

\* Its failure is logged.
PurgeFailed(c) ==
    /\ pc[c] = "purge"
    /\ pc' = [pc EXCEPT ![c] = "idle"]
    /\ UNCHANGED <<owner, rowAge, hold, heldFor, late>>

\* unlock deletes the row of the key, whoever made it; an error may come before
\* or after that.  A client unlocks what it locked, and is done with it.
unlock(c) ==
    /\ hold[c] # NoKey
    /\ \/ /\ owner' = [owner EXCEPT ![hold[c]] = NoClient]
          /\ rowAge' = [rowAge EXCEPT ![hold[c]] = 0]
       \/ UNCHANGED <<owner, rowAge>>
    /\ hold' = [hold EXCEPT ![c] = NoKey]
    /\ heldFor' = [heldFor EXCEPT ![c] = 0]
    /\ late' = (late \/ heldFor[c] > Lease)
    /\ UNCHANGED pc

\* The script dies, or never got the answer: the row stays.
Die(c) ==
    /\ hold[c] # NoKey
    /\ hold' = [hold EXCEPT ![c] = NoKey]
    /\ heldFor' = [heldFor EXCEPT ![c] = 0]
    /\ UNCHANGED <<owner, rowAge, pc, late>>

Next ==
    \/ Tick
    \/ \E c \in Client : \/ \E k \in Key : lock(c, k)
                         \/ PurgeApplied(c) \/ PurgeFailed(c) \/ unlock(c) \/ Die(c)

Spec == Init /\ [][Next]_vars

\* Time passes, a request that is running ends, and MySQL does not fail every
\* purge for ever.  Clients may do nothing.
FairSpec ==
    /\ Spec /\ WF_vars(Tick)
    /\ \A c \in Client : /\ SF_vars(PurgeApplied(c))
                         /\ WF_vars(PurgeApplied(c) \/ PurgeFailed(c))
-----------------------------------------------------------------------------
TypeOK ==
    /\ owner \in [Key -> Client \cup {NoClient}]
    /\ rowAge \in [Key -> Age]
    /\ pc \in [Client -> {"idle", "purge"}]
    /\ hold \in [Client -> Key \cup {NoKey}]
    /\ heldFor \in [Client -> Age]
    /\ late \in BOOLEAN

\* Two clients that were both told they have a lock, and are both within its
\* minute, exist only after some client unlocked later than that: the purge
\* alone, a retry or a statement that failed half way never breaks a lease.
LeaseExclusive ==
    ~late => \A c, d \in Client :
                c # d /\ hold[c] = hold[d] /\ hold[c] # NoKey =>
                   heldFor[c] > Lease \/ heldFor[d] > Lease

\* Within its lease a client's row is in the table, made by it and as old as
\* its lock: nobody else's INSERT can succeed.
LeaseHasRow ==
    ~late => \A c \in Client :
                hold[c] # NoKey /\ heldFor[c] <= Lease =>
                   owner[hold[c]] = c /\ rowAge[hold[c]] = heldFor[c]

\* The inductive invariant of the lock.
IInv == TypeOK /\ LeaseHasRow

\* The row of a client that died, or that was never told of it, does not block
\* its key for ever: it goes away if locks keep being asked for in vain, of
\* whatever site.
DeadRowPurged ==
    []<>(\E d \in Client : pc[d] = "purge") =>
       \A c \in Client, k \in Key :
          owner[k] = c /\ hold[c] # k ~> owner[k] # c \/ hold[c] = k
=============================================================================
