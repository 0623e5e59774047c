---------------------------- MODULE ContextData ----------------------------
(***************************************************************************)
(* The data of one Context (context.cpp): requests of every session of the *)
(* site share it.  It is filled in by the first one that asks for it:      *)
(* getData tests dataPopulated without the mutex, populateData tests it    *)
(* again under the mutex, and the whole map is copied without the mutex.   *)
(* (On the machines the program is built for a store of the map is seen    *)
(* before the later store of the flag.)                                    *)
(***************************************************************************)
EXTENDS Workers

CONSTANTS Field, Nobody

ASSUME ContextDataAssumption == Nobody \notin Request

VARIABLES data,            \* the fields that are in the map
          dataPopulated,
          mutex,           \* who holds the context's mutex
          filling,         \* requests inside the loop of populateData
          copies           \* history: what getData() returned to anybody

contextVars == <<data, dataPopulated, mutex, filling, copies>>

ContextInit ==
    /\ data = {}
    /\ dataPopulated = FALSE
    /\ mutex = Nobody
    /\ filling = {}
    /\ copies = {}

\* Mutant: the flag is not tested again under the mutex.
Enter_NoRetest(r) ==
    /\ mutex = Nobody
    /\ mutex' = r /\ filling' = filling \cup {r}
    /\ UNCHANGED <<data, dataPopulated, copies>>

\* populateData takes the mutex; if another request has filled the map by now it
\* returns.
Enter(r) ==
    /\ mutex = Nobody
    /\ IF dataPopulated
       THEN UNCHANGED <<mutex, filling>>
       ELSE mutex' = r /\ filling' = filling \cup {r}
    /\ UNCHANGED <<data, dataPopulated, copies>>

\* One turn of its loop.
Fill(r) ==
    /\ r \in filling
    /\ \E f \in Field \ data : data' = data \cup {f}
    /\ UNCHANGED <<dataPopulated, mutex, filling, copies>>

Filled(r) ==
    /\ r \in filling /\ data = Field
    /\ dataPopulated' = TRUE
    /\ mutex' = Nobody /\ filling' = filling \ {r}
    /\ UNCHANGED <<data, copies>>

\* getData(): return data.  A copy of a map that is being changed is anything.
Copy(r) ==
    /\ \E d \in (IF filling = {} THEN {data} ELSE SUBSET Field) : copies' = copies \cup {d}
    /\ UNCHANGED <<data, dataPopulated, mutex, filling>>

\* getData(query) and getCount(query): the map, the cache of queries, or a query
\* that is run and kept, all under the mutex, which a throw releases too.
ReadField(r) ==
    /\ mutex = Nobody
    /\ UNCHANGED contextVars
-----------------------------------------------------------------------------
ContextTypeOK ==
    /\ data \subseteq Field
    /\ dataPopulated \in BOOLEAN
    /\ mutex \in Request \cup {Nobody}
    /\ filling \subseteq Request
    /\ copies \subseteq SUBSET Field

\* Although getData tests dataPopulated and copies data without the mutex, it
\* returns all the fields of the context's node: no copy is made before
\* populateData has finished, or while somebody is in its loop again.
WholeCopies == copies \subseteq {Field}
=============================================================================
