------------------------------ MODULE Sessions ------------------------------
(***************************************************************************)
(* The session table of Server and the Reaper that empties it.             *)
(*                                                                         *)
(* A request looks its session up under sessionsMutex (Server::process),   *)
(* lets the mutex go and runs its handler with a shared_ptr to the session *)
(* object; closeSession then looks the ID up a second time.  The reaper    *)
(* reads the clock before it takes the mutex.                              *)
(*                                                                         *)
(* Time passes in half seconds, and time(NULL) is the whole seconds, so a  *)
(* session's age by the clock and its real age differ.  Ages are kept, not *)
(* dates, and stop counting at a cap no comparison can tell from more.     *)
(***************************************************************************)
EXTENDS Integers

CONSTANTS Worker,
          Id,          \* session IDs, suggested by clients or drawn with rand()
          Obj,         \* addresses of Session objects
          ReapTime,    \* SESSION_REAP_TIME, in seconds
          MaxLag,      \* bound: seconds the reaper waits for sessionsMutex
          NoObj, NoId

ASSUME SessionsAssumption ==
    /\ ReapTime \in Nat /\ MaxLag \in Nat
    /\ NoObj \notin Obj /\ NoId \notin Id

VARIABLES sessions,    \* ID -> Session object or NoObj
          age,         \* object -> whole seconds by the clock since createdAt
          half,        \* object -> the half second it was created in
          phase,       \* the half second it is now: 0 or 1
          pc, id, ref, \* per worker: where it is, the ID asked for, its shared_ptr
          reaper, lag, \* the reaper's place; seconds since it read the clock
          mysqlUp      \* MySQL's pool has a connection (see ConnPool)

vars == <<sessions, age, half, phase, pc, id, ref, reaper, lag, mysqlUp>>

Cap == ReapTime + MaxLag + 2

\* Mutant: a request keeps a plain pointer, which keeps nothing alive.
Referenced_MapOnly == {sessions[i] : i \in Id}

\* The objects some shared_ptr keeps alive; the others' memory is used again.
Referenced == {sessions[i] : i \in Id} \cup {ref[w] : w \in Worker}
-----------------------------------------------------------------------------
Init ==
    /\ sessions = [i \in Id |-> NoObj]
    /\ age = [o \in Obj |-> 0]
    /\ half = [o \in Obj |-> 0]
    /\ phase = 0
    /\ pc = [w \in Worker |-> "idle"]
    /\ id = [w \in Worker |-> NoId]
    /\ ref = [w \in Worker |-> NoObj]
    /\ reaper = "sleep" /\ lag = 0
    /\ mysqlUp \in BOOLEAN

\* Half a second passes.
Tick ==
    /\ phase' = 1 - phase
    /\ IF phase = 0
       THEN UNCHANGED <<age, lag>>
       ELSE /\ reaper = "lock" => lag < MaxLag
            /\ age' = [o \in Obj |-> IF o \in Referenced /\ age[o] < Cap THEN age[o] + 1 ELSE age[o]]
            /\ lag' = IF reaper = "lock" THEN lag + 1 ELSE 0
    /\ UNCHANGED <<sessions, half, pc, id, ref, reaper, mysqlUp>>

\* openSession, once it has its site: an ID nobody has, the client's own or,
\* when that is taken, the first of rand() that is not.
openSession ==
    /\ \E i \in Id, o \in Obj \ Referenced :
          /\ sessions[i] = NoObj
          /\ sessions' = [sessions EXCEPT ![i] = o]
          /\ age' = [age EXCEPT ![o] = 0]
          /\ half' = [half EXCEPT ![o] = phase]
    /\ UNCHANGED <<phase, pc, id, ref, reaper, lag, mysqlUp>>

\* Server::process finds the session of a request and copies its pointer.  An ID
\* that is not in the table is answered with status 400.
process(w) ==
    /\ pc[w] = "idle"
    /\ \E i \in Id, handler \in {"use", "close"} :
          /\ sessions[i] # NoObj
          /\ ref' = [ref EXCEPT ![w] = sessions[i]]
          /\ id' = [id EXCEPT ![w] = i]
          /\ pc' = [pc EXCEPT ![w] = handler]
    /\ UNCHANGED <<sessions, age, half, phase, reaper, lag, mysqlUp>>

\* The request ends and drops its pointer.
Return(w) ==
    /\ pc' = [pc EXCEPT ![w] = "idle"]
    /\ id' = [id EXCEPT ![w] = NoId]
    /\ ref' = [ref EXCEPT ![w] = NoObj]
    /\ UNCHANGED <<age, half, phase, reaper, lag, mysqlUp>>

\* Every handler but closeSession works on its own pointer.
Handle(w) ==
    /\ pc[w] = "use"
    /\ Return(w)
    /\ UNCHANGED sessions

\* closeSession erases whatever session has the ID by now.
closeSession(w) ==
    /\ pc[w] = "close"
    /\ sessions' = [sessions EXCEPT ![id[w]] = NoObj]
    /\ Return(w)
-----------------------------------------------------------------------------
\* sleep(2) returns and the reaper reads the clock.
ReaperWake ==
    /\ reaper = "sleep"
    /\ reaper' = "lock" /\ lag' = 0
    /\ UNCHANGED <<sessions, age, half, phase, pc, id, ref, mysqlUp>>

\* Mutant: a session is reaped in the second it reaches SESSION_REAP_TIME.
Expired_Inclusive(o) == age[o] - lag >= ReapTime

\* Mutant: the dates are subtracted the wrong way round.
Expired_Swapped(o) == lag - age[o] > ReapTime

\* (now - createdAt) > SESSION_REAP_TIME, with the now the reaper read.
Expired(o) == age[o] - lag > ReapTime

\* The loop over the table, under sessionsMutex.
Reap ==
    /\ reaper = "lock"
    /\ sessions' = [i \in Id |->
          IF sessions[i] # NoObj /\ Expired(sessions[i]) THEN NoObj ELSE sessions[i]]
    /\ reaper' = "gc" /\ lag' = 0
    /\ UNCHANGED <<age, half, phase, pc, id, ref, mysqlUp>>

\* garbageCollect returns once the pool gives it a connection: never, if none
\* could be opened at startup.
garbageCollect ==
    /\ reaper = "gc" /\ mysqlUp
    /\ reaper' = "sleep"
    /\ UNCHANGED <<sessions, age, half, phase, pc, id, ref, lag, mysqlUp>>

Next ==
    \/ Tick \/ openSession
    \/ \E w \in Worker : process(w) \/ Handle(w) \/ closeSession(w)
    \/ ReaperWake \/ Reap \/ garbageCollect

Spec == Init /\ [][Next]_vars

\* Time passes and the reaper's thread runs; clients may do nothing.
FairSpec == Spec /\ WF_vars(Tick) /\ WF_vars(ReaperWake) /\ WF_vars(Reap) /\ WF_vars(garbageCollect)
-----------------------------------------------------------------------------
TypeOK ==
    /\ sessions \in [Id -> Obj \cup {NoObj}]
    /\ age \in [Obj -> 0..Cap]
    /\ half \in [Obj -> {0, 1}] /\ phase \in {0, 1}
    /\ pc \in [Worker -> {"idle", "use", "close"}]
    /\ id \in [Worker -> Id \cup {NoId}]
    /\ ref \in [Worker -> Obj \cup {NoObj}]
    /\ reaper \in {"sleep", "lock", "gc"} /\ lag \in 0..MaxLag
    /\ mysqlUp \in BOOLEAN

\* Half seconds since the session was created.
RealAge(o) == 2 * age[o] + phase - half[o]

\* The reaper erases a session only when it has really lived for more than
\* SESSION_REAP_TIME seconds, the time the comment above it (reaper.cpp:3-4)
\* grants a PHP script, however the clock rounds and however late the reaper
\* gets the mutex.
KeptForScript ==
    [][reaper = "lock" /\ reaper' = "gc" =>
          \A i \in Id : sessions[i] # NoObj /\ sessions'[i] = NoObj =>
             RealAge(sessions[i]) > 2 * ReapTime]_vars

\* No step gives an ID that is in use to another session: a client that
\* suggests an ID never takes over somebody's session.
NeverTakenOver ==
    [][\A i \in Id : sessions[i] # NoObj => sessions'[i] \in {sessions[i], NoObj}]_vars

\* No two IDs lead to one Session object, and a request that is running has the
\* object of its ID, unless that session was closed or reaped under it.
OwnSession ==
    /\ \A i, j \in Id : sessions[i] = sessions[j] /\ sessions[i] # NoObj => i = j
    /\ \A w \in Worker, i \in Id : sessions[i] = ref[w] /\ ref[w] # NoObj => i = id[w]

\* Every session is reaped in the end, even one whose client never closes it,
\* provided that the reaper does not block for ever on an empty MySQL pool.
EventuallyReaped ==
    mysqlUp => \A i \in Id : sessions[i] # NoObj ~> sessions[i] = NoObj
=============================================================================
