------------------------------ MODULE QueryLog ------------------------------
(***************************************************************************)
(* The query log (query_log.cpp): every request takes a number when its    *)
(* QueryLogEntry is constructed and writes one block when it is destroyed. *)
(*                                                                         *)
(* Both places say boost::mutex::scoped_lock(_log._mutex), a temporary     *)
(* that is destroyed in the same statement: the mutex is free again before *)
(* _query_id++ and the output, which therefore are two steps each.         *)
(***************************************************************************)
EXTENDS Workers, Naturals

CONSTANTS MaxId,       \* the largest unsigned, after which numbers start again
          NoNumber

ASSUME QueryLogAssumption == MaxId \in Nat /\ NoNumber \notin Nat

VARIABLES logging,     \* a log file was opened: _p_out is not NULL
          _query_id,
          number,      \* request -> its entry's _query_id, once it is read
          adding,      \* requests between reading _query_id and writing it
          writing,     \* requests between the ends of an output
          out,         \* request -> the number of its blocks in the log
          shared,      \* history: requests whose increment overlapped another
          torn         \* history: requests whose output overlapped another

logVars == <<logging, _query_id, number, adding, writing, out, shared, torn>>

\* r enters a section that the others are in: all of them share it.
Overlap(r, inside) == IF inside = {} THEN {} ELSE inside \cup {r}

LogInit ==
    /\ logging \in BOOLEAN
    /\ _query_id = 0
    /\ number = [r \in Request |-> NoNumber]
    /\ adding = {} /\ writing = {}
    /\ out = [r \in Request |-> 0]
    /\ shared = {} /\ torn = {}

\* QueryLogEntry::QueryLogEntry.
ReadNumber(r) ==
    /\ number' = [number EXCEPT ![r] = _query_id]
    /\ adding' = adding \cup {r}
    /\ shared' = shared \cup Overlap(r, adding)
    /\ UNCHANGED <<logging, _query_id, writing, out, torn>>

\* Mutant: the entry takes the number and does not count it.
WriteNumber_Same(r) ==
    /\ r \in adding
    /\ adding' = adding \ {r}
    /\ UNCHANGED <<logging, _query_id, number, writing, out, shared, torn>>

WriteNumber(r) ==
    /\ r \in adding
    /\ _query_id' = IF number[r] = MaxId THEN 0 ELSE number[r] + 1
    /\ adding' = adding \ {r}
    /\ UNCHANGED <<logging, number, writing, out, shared, torn>>

\* flush, called by the destructor: the block goes to the stream in one call.
BeginFlush(r) ==
    /\ logging
    /\ writing' = writing \cup {r}
    /\ torn' = torn \cup Overlap(r, writing)
    /\ UNCHANGED <<logging, _query_id, number, adding, out, shared>>

\* A block whose output overlapped another's may be lost.
EndFlush(r) ==
    /\ r \in writing
    /\ writing' = writing \ {r}
    /\ out' \in {[out EXCEPT ![r] = @ + 1]} \cup (IF r \in torn THEN {out} ELSE {})
    /\ UNCHANGED <<logging, _query_id, number, adding, shared, torn>>
-----------------------------------------------------------------------------
LogTypeOK ==
    /\ logging \in BOOLEAN
    /\ _query_id \in 0..MaxId
    /\ number \in [Request -> 0..MaxId \cup {NoNumber}]
    /\ out \in [Request -> Nat]
    /\ {adding, writing, shared, torn} \subseteq SUBSET Request
    /\ \A r \in adding : number[r] # NoNumber

\* The requests that have a number.
Numbered == {r \in Request : number[r] # NoNumber}

\* Two requests have one number in the log (_query_id++ in QueryLogEntry's
\* constructor) only if the constructor of one of them overlapped another
\* constructor, as long as numbers have not started again.  The other request's
\* need not have: a late write puts the counter back.
NumbersDistinct ==
    \A q, r \in Request :
       q # r /\ number[q] # NoNumber /\ number[q] = number[r] => {q, r} \cap shared # {}
=============================================================================
