---------------------------- MODULE ResourcePool ----------------------------
(***************************************************************************)
(* What a connection pool promises its callers, whatever the way it blocks *)
(* and wakes them: a connection is handed to one caller at a time, and is  *)
(* handed out again only after that caller gave it back.                   *)
(***************************************************************************)
CONSTANTS Thread,   \* the callers
          NoConn    \* the handle of a caller that holds nothing

VARIABLES pool,     \* the connections the pool was built with
          held      \* held[t]: the connection thread t holds, or NoConn

vars == <<pool, held>>

Init == held = [t \in Thread |-> NoConn]

\* A caller that holds nothing gets a connection nobody holds.
Acquire(t) ==
    /\ held[t] = NoConn
    /\ \E c \in pool : /\ \A u \in Thread : held[u] # c
                       /\ held' = [held EXCEPT ![t] = c]
    /\ UNCHANGED pool

\* A caller gives its connection back.
Release(t) ==
    /\ held[t] # NoConn
    /\ held' = [held EXCEPT ![t] = NoConn]
    /\ UNCHANGED pool

Next == \E t \in Thread : Acquire(t) \/ Release(t)

Spec == Init /\ [][Next]_vars
=============================================================================
