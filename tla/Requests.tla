------------------------------ MODULE Requests ------------------------------
(***************************************************************************)
(* Requests that run side by side through Server::process (server.cpp):    *)
(* each one makes an entry of the query log, finds the session, runs a     *)
(* handler that uses the session's responses and the data of a context,    *)
(* and leaves by a return or by an exception; the destructor of the entry  *)
(* runs in both cases.                                                     *)
(*                                                                         *)
(* The requests are those of one session, and one context stands for all   *)
(* contexts that their responses share.  Which session a request finds is  *)
(* Sessions' subject; here it finds the session or is refused.             *)
(***************************************************************************)
EXTENDS QueryLog, SessionResponses, ContextData

CONSTANT ResponseId        \* what clients give as responseId

ASSUME RequestsAssumption == ResponseId \subseteq (-IntMax - 1)..IntMax

VARIABLES pc,              \* request -> where in process it is
          handler          \* request -> "get" or "data" once it has begun one of these

vars == <<logVars, responseVars, contextVars, pc, handler>>

Init ==
    /\ LogInit /\ ResponsesInit /\ ContextInit
    /\ pc = [r \in Request |-> "start"]
    /\ handler = [r \in Request |-> "none"]

Goto(r, from, to) == pc[r] = from /\ pc' = [pc EXCEPT ![r] = to]

\* The body is no JSON: caught before there is an entry.
ParseError(r) == Goto(r, "start", "done") /\ UNCHANGED <<logVars, responseVars, contextVars, handler>>

\* QueryLogEntry entry(queryLog)
TakeNumber(r) == Goto(r, "start", "count") /\ ReadNumber(r) /\ UNCHANGED <<responseVars, contextVars, handler>>
CountNumber(r) == Goto(r, "count", "call") /\ WriteNumber(r) /\ UNCHANGED <<responseVars, contextVars, handler>>

\* Mutant: the entry is not destroyed when the handler is not reached.
NoHandler_NoBlock(r) == Goto(r, "call", "done") /\ UNCHANGED <<logVars, responseVars, contextVars, handler>>

\* No session ID, an invalid one, or an endpoint that other modules are about.
NoHandler(r) == Goto(r, "call", "leave") /\ UNCHANGED <<logVars, responseVars, contextVars, handler>>
-----------------------------------------------------------------------------
\* A handler h starts by looking up its responseId, and goes on at next.
Call(r, h, i, next) ==
    /\ \/ Goto(r, "call", next) /\ Lookup(r, i) /\ handler' = [handler EXCEPT ![r] = h]
       \/ Goto(r, "call", "leave") /\ Refuse(r, i) /\ UNCHANGED handler
    /\ UNCHANGED <<logVars, contextVars>>

\* get and createInfo take 0 for a query without a parent.
CallAtRoot(r, h, next) ==
    /\ handler' = [handler EXCEPT ![r] = h]
    /\ Goto(r, "call", next)
    /\ UNCHANGED <<logVars, responseVars, contextVars>>

get(r, i) == IF i = 0 THEN CallAtRoot(r, "get", "build") ELSE Call(r, "get", i, "build")

\* createInfo and structure read what nobody changes; createInfo may throw.
createInfo(r, i) ==
    IF i = 0 THEN CallAtRoot(r, "none", "leave") ELSE Call(r, "none", i, "leave")
structure(r, i) == Call(r, "none", i, "leave")

\* The response may be one without contexts.
data_(r, i) == \E next \in {"test", "leave"} : Call(r, "data", i, next)
-----------------------------------------------------------------------------
\* get builds its response: the query throws, or the results are not ordered by
\* their data, or they are.
Build(r) ==
    /\ \E next \in {"leave", "number", "test"} : Goto(r, "build", next)
    /\ UNCHANGED <<logVars, responseVars, contextVars, handler>>

\* Context::getData, with or without a query.
Test(r) ==
    /\ Goto(r, "test", IF dataPopulated THEN "read" ELSE "populate")
    /\ UNCHANGED <<logVars, responseVars, contextVars, handler>>

Populate(r) ==
    /\ Enter(r)
    /\ Goto(r, "populate", IF r \in filling' THEN "fill" ELSE "read")
    /\ UNCHANGED <<logVars, responseVars, handler>>

FillOne(r) == Goto(r, "fill", "fill") /\ Fill(r) /\ UNCHANGED <<logVars, responseVars, handler>>
FillEnds(r) == Goto(r, "fill", "read") /\ Filled(r) /\ UNCHANGED <<logVars, responseVars, handler>>

\* data copies the map; get reads a field to compare by, which may throw.
ReadAll(r) ==
    /\ handler[r] = "data" /\ Goto(r, "read", "leave") /\ Copy(r)
    /\ UNCHANGED <<logVars, responseVars, handler>>

ReadOne(r) ==
    /\ handler[r] = "get" /\ ReadField(r)
    /\ \E next \in {"number", "leave"} : Goto(r, "read", next)
    /\ UNCHANGED <<logVars, responseVars, handler>>

\* The end of get.
TakeId(r) == Goto(r, "number", "push") /\ Number(r) /\ UNCHANGED <<logVars, contextVars, handler>>
Push(r) == Goto(r, "push", "pushing") /\ BeginPush(r) /\ UNCHANGED <<logVars, contextVars, handler>>
Pushed(r) == Goto(r, "pushing", "leave") /\ EndPush(r) /\ UNCHANGED <<logVars, contextVars, handler>>
-----------------------------------------------------------------------------
\* ~QueryLogEntry
LeaveLogged(r) == Goto(r, "leave", "flush") /\ BeginFlush(r) /\ UNCHANGED <<responseVars, contextVars, handler>>
Flushed(r) == Goto(r, "flush", "done") /\ EndFlush(r) /\ UNCHANGED <<responseVars, contextVars, handler>>
Leave(r) ==
    /\ ~logging /\ Goto(r, "leave", "done")
    /\ UNCHANGED <<logVars, responseVars, contextVars, handler>>

Step(r) ==
    \/ ParseError(r) \/ TakeNumber(r) \/ CountNumber(r) \/ NoHandler(r)
    \/ \E i \in ResponseId : get(r, i) \/ createInfo(r, i) \/ structure(r, i) \/ data_(r, i)
    \/ Build(r) \/ Test(r) \/ Populate(r) \/ FillOne(r) \/ FillEnds(r) \/ ReadAll(r) \/ ReadOne(r)
    \/ TakeId(r) \/ Push(r) \/ Pushed(r)
    \/ LeaveLogged(r) \/ Flushed(r) \/ Leave(r)

\* All have ended, or nothing can be said of what happens next.
Terminated == (undefined # "no" \/ \A r \in Request : pc[r] = "done") /\ UNCHANGED vars

Next == (undefined = "no" /\ \E r \in Request : Step(r)) \/ Terminated

Spec == Init /\ [][Next]_vars
-----------------------------------------------------------------------------
Places == {"start", "count", "call", "build", "test", "populate", "fill", "read", "number",
           "push", "pushing", "leave", "flush", "done"}

TypeOK ==
    /\ LogTypeOK /\ ResponsesTypeOK /\ ContextTypeOK
    /\ pc \in [Request -> Places]
    /\ handler \in [Request -> {"none", "get", "data"}]

\* When the handler has returned or thrown, wherever that was, the request has
\* one block in the log, if there is a log and if the request got as far as its
\* entry; a block is missing only if two of them were written side by side.
LoggedOnce ==
    \A r \in Request :
       /\ out[r] <= 1
       /\ pc[r] = "done" /\ logging /\ number[r] # NoNumber /\ r \notin torn => out[r] = 1

\* The inductive invariants of the three components in the hands of process.

\* A request takes one number, after the start; it is less than the number of
\* those that have one.
NumberTaken ==
    /\ \A r \in Request : /\ pc[r] = "start" => number[r] = NoNumber
                          /\ r \in adding <=> pc[r] = "count"
                          /\ number[r] # NoNumber => number[r] < Cardinality(Numbered)
    /\ _query_id <= Cardinality(Numbered)

\* While a request can still come: the counter, and whoever is counting, is past
\* the numbers of all that were alone when they counted.
NumbersPassed ==
    Numbered # Request =>
       \A q \in Numbered \ shared :
          IF q \in adding THEN adding = {q} /\ number[q] = _query_id
          ELSE number[q] < _query_id /\ \A p \in adding : number[q] < number[p]

\* Blocks are written at the end only.
WrittenAtEnd == \A r \in Request : pc[r] # "done" => out[r] = 0

\* A response has one place in the vector, and its request has answered an id.
\* One that is on its way into the vector has the next place, unless overtaken.
PlaceKnown ==
    /\ \A i \in DOMAIN responses :
          /\ id[responses[i]] # 0 /\ pc[responses[i]] \in {"leave", "flush", "done"}
          /\ \A k \in DOMAIN responses : responses[i] = responses[k] => i = k
    /\ \A r \in Request :
          /\ r \in pushing <=> pc[r] = "pushing"
          /\ pc[r] \in {"push", "pushing"} => id[r] # 0
          /\ id[r] # 0 => \/ \E i \in DOMAIN responses : responses[i] = r
                          \/ pc[r] \in {"push", "pushing"} /\ (r \notin overtaken => id[r] = NextId)

\* What was found is still at its place.
FoundInPlace ==
    \A r \in Request :
       /\ pc[r] \in {"start", "count", "call"} => found[r] = None
       /\ found[r] # None => asked[r] \in DOMAIN responses /\ found[r] = responses[asked[r]]

\* The map is filled by the holder of the mutex, and read when it is full.
FilledByHolder ==
    /\ dataPopulated => data = Field /\ filling = {}
    /\ \A r \in Request : /\ r \in filling <=> pc[r] = "fill"
                          /\ r \in filling => mutex = r
                          /\ pc[r] = "read" => dataPopulated

LogInv == TypeOK /\ NumberTaken /\ WrittenAtEnd /\ LoggedOnce
ResponsesInv == TypeOK /\ PlaceKnown /\ FoundInPlace /\ RightResponse /\ OutsideOnlyForZero
ContextInv == TypeOK /\ FilledByHolder /\ WholeCopies
=============================================================================
