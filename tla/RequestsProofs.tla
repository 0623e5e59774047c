--------------------------- MODULE RequestsProofs ---------------------------
(***************************************************************************)
(* Proofs about the requests of a session that run side by side, for any   *)
(* number of them.                                                         *)
(*                                                                         *)
(* Query log, responses and context touch different variables: each has an *)
(* inductive invariant of its own, and a lemma that lists the steps of a   *)
(* request that matter to it.                                              *)
(***************************************************************************)
EXTENDS Requests, FiniteSetTheorems, SequenceTheorems, TLAPS

USE QueryLogAssumption, SessionResponsesAssumption, ContextDataAssumption, RequestsAssumption

-----------------------------------------------------------------------------
\* Steps of a request that leave the log alone, and that stay between the
\* constructor and the destructor of its entry.
LogIdle(r) ==
    /\ UNCHANGED logVars
    /\ pc[r] \notin {"start", "count", "leave", "flush", "done"}
    /\ \E to \in Places \ {"start", "count", "flush", "done"} : pc' = [pc EXCEPT ![r] = to]

\* What a request does to the log.
LEMMA LogSteps ==
    ASSUME NEW r \in Request, Step(r)
    PROVE  \/ ParseError(r) \/ TakeNumber(r) \/ CountNumber(r)
           \/ LeaveLogged(r) \/ Flushed(r) \/ Leave(r)
           \/ LogIdle(r)
<1>1. CASE NoHandler(r) \/ Build(r) \/ Test(r)
  BY <1>1 DEF NoHandler, Build, Test, Goto, LogIdle, Places
<1>2. ASSUME NEW i \in ResponseId, get(r, i) \/ createInfo(r, i) \/ structure(r, i) \/ data_(r, i)
      PROVE  LogIdle(r)
  BY <1>2 DEF get, createInfo, structure, data_, Call, CallAtRoot, Goto, LogIdle, Places
<1>3. CASE Populate(r) \/ FillOne(r) \/ FillEnds(r) \/ ReadAll(r) \/ ReadOne(r)
  BY <1>3 DEF Populate, FillOne, FillEnds, ReadAll, ReadOne, Goto, LogIdle, Places
<1>4. CASE TakeId(r) \/ Push(r) \/ Pushed(r)
  BY <1>4 DEF TakeId, Push, Pushed, Goto, LogIdle, Places
<1> QED
  BY <1>1, <1>2, <1>3, <1>4 DEF Step

\* Steps of a request that leave the vector alone and do not come from a get that
\* has answered its id; the early ones stay early, the late ones late.
ResponsesIdle(r) ==
    /\ UNCHANGED responseVars
    /\ pc[r] \notin {"push", "pushing"}
    /\ \E to \in Places \ {"push", "pushing"} :
          /\ pc' = [pc EXCEPT ![r] = to]
          /\ to \in {"start", "count", "call"} => pc[r] \in {"start", "count", "call"}
          /\ pc[r] \in {"leave", "flush", "done"} => to \in {"leave", "flush", "done"}

\* A lookup, and where the handler goes on.
LookupStep(r, i) ==
    /\ Lookup(r, i) /\ pc[r] = "call"
    /\ \E to \in {"build", "test", "leave"} : pc' = [pc EXCEPT ![r] = to]

\* What a request does to the responses of its session.
LEMMA ResponsesSteps ==
    ASSUME NEW r \in Request, Step(r)
    PROVE  \/ \E i \in ResponseId : LookupStep(r, i)
           \/ TakeId(r) \/ Push(r) \/ Pushed(r)
           \/ ResponsesIdle(r)
<1>1. CASE ParseError(r) \/ TakeNumber(r) \/ CountNumber(r) \/ NoHandler(r) \/ Build(r) \/ Test(r)
  BY <1>1 DEF ParseError, TakeNumber, CountNumber, NoHandler, Build, Test, Goto, ResponsesIdle, Places
<1>2. ASSUME NEW i \in ResponseId, NEW h, NEW next \in {"build", "test", "leave"}, Call(r, h, i, next)
      PROVE  LookupStep(r, i) \/ ResponsesIdle(r)
  BY <1>2 DEF Call, Refuse, Goto, LookupStep, ResponsesIdle, Places
<1>3. ASSUME NEW h, NEW next \in {"build", "leave"}, CallAtRoot(r, h, next)
      PROVE  ResponsesIdle(r)
  BY <1>3 DEF CallAtRoot, Goto, ResponsesIdle, Places
<1>4. ASSUME NEW i \in ResponseId, get(r, i) \/ createInfo(r, i) \/ structure(r, i) \/ data_(r, i)
      PROVE  LookupStep(r, i) \/ ResponsesIdle(r)
  BY <1>2, <1>3, <1>4 DEF get, createInfo, structure, data_
<1>5. CASE Populate(r) \/ FillOne(r) \/ FillEnds(r) \/ ReadAll(r) \/ ReadOne(r)
  BY <1>5 DEF Populate, FillOne, FillEnds, ReadAll, ReadOne, Goto, ResponsesIdle, Places
<1>6. CASE LeaveLogged(r) \/ Flushed(r) \/ Leave(r)
  BY <1>6 DEF LeaveLogged, Flushed, Leave, Goto, ResponsesIdle, Places
<1> QED
  BY <1>1, <1>4, <1>5, <1>6 DEF Step

\* Steps of a request that leave the context alone, outside of populateData.
ContextIdle(r) ==
    /\ UNCHANGED contextVars
    /\ pc[r] # "fill"
    /\ \E to \in Places \ {"fill"} : pc' = [pc EXCEPT ![r] = to] /\ (to = "read" => dataPopulated)

\* What a request does to the context.
LEMMA ContextSteps ==
    ASSUME NEW r \in Request, Step(r)
    PROVE  \/ Populate(r) \/ FillOne(r) \/ FillEnds(r) \/ ReadAll(r)
           \/ ContextIdle(r)
<1>1. CASE ParseError(r) \/ TakeNumber(r) \/ CountNumber(r) \/ NoHandler(r) \/ Build(r) \/ Test(r)
  BY <1>1 DEF ParseError, TakeNumber, CountNumber, NoHandler, Build, Test, Goto, ContextIdle, Places
<1>2. ASSUME NEW i \in ResponseId, get(r, i) \/ createInfo(r, i) \/ structure(r, i) \/ data_(r, i)
      PROVE  ContextIdle(r)
  BY <1>2 DEF get, createInfo, structure, data_, Call, CallAtRoot, Goto, ContextIdle, Places
<1>3. CASE ReadOne(r) \/ TakeId(r) \/ Push(r) \/ Pushed(r)
  BY <1>3 DEF ReadOne, ReadField, TakeId, Push, Pushed, Goto, ContextIdle, Places
<1>4. CASE LeaveLogged(r) \/ Flushed(r) \/ Leave(r)
  BY <1>4 DEF LeaveLogged, Flushed, Leave, Goto, ContextIdle, Places
<1> QED
  BY <1>1, <1>2, <1>3, <1>4 DEF Step

-----------------------------------------------------------------------------
\* The types hold before the first request.
LEMMA InitTypes == Init => TypeOK
<1> SUFFICES ASSUME Init PROVE TypeOK
  OBVIOUS
<1>1. LogTypeOK
  BY DEF Init, LogInit, LogTypeOK
<1>2. ResponsesTypeOK
  <2>1. <<>> \in Seq(Request)
    BY EmptySeq
  <2> QED
    BY <2>1 DEF Init, ResponsesInit, ResponsesTypeOK
<1>3. ContextTypeOK
  BY DEF Init, ContextInit, ContextTypeOK
<1>4. pc \in [Request -> Places] /\ handler \in [Request -> {"none", "get", "data"}]
  BY DEF Init, Places
<1> QED
  BY <1>1, <1>2, <1>3, <1>4 DEF TypeOK

\* Every step of a request keeps the types of the log.
LEMMA LogTypes == ASSUME TypeOK, NEW r \in Request, Step(r) PROVE LogTypeOK'
<1> USE DEF TypeOK, LogTypeOK
<1>1. CASE TakeNumber(r)
  BY <1>1 DEF TakeNumber, ReadNumber, Overlap
<1>2. CASE CountNumber(r)
  <2>1. number[r] \in 0..MaxId
    BY <1>2 DEF CountNumber, WriteNumber
  <2> QED
    BY <1>2, <2>1 DEF CountNumber, WriteNumber, QueryLogAssumption
<1>3. CASE LeaveLogged(r)
  BY <1>3 DEF LeaveLogged, BeginFlush, Overlap
<1>4. CASE Flushed(r)
  BY <1>4 DEF Flushed, EndFlush
<1>5. CASE UNCHANGED logVars
  BY <1>5 DEF logVars
<1> QED
  BY <1>1, <1>2, <1>3, <1>4, <1>5, LogSteps DEF ParseError, Leave, LogIdle

\* Every step of a request keeps the types of the responses.
LEMMA ResponsesTypes == ASSUME TypeOK, NEW r \in Request, Step(r) PROVE ResponsesTypeOK'
<1> USE DEF TypeOK, ResponsesTypeOK
<1>1. ASSUME NEW i \in ResponseId, LookupStep(r, i) PROVE ResponsesTypeOK'
  <2>1. i \in Int
    BY DEF RequestsAssumption, SessionResponsesAssumption
  <2>2. Element(i) \in DOMAIN responses => responses[Element(i)] \in Request
    BY DEF Element
  <2> QED
    BY <1>1, <2>1, <2>2 DEF LookupStep, Lookup
<1>2. CASE TakeId(r)
  BY <1>2 DEF TakeId, Number, NextId
<1>3. CASE Push(r)
  BY <1>3 DEF Push, BeginPush
<1>4. CASE Pushed(r)
  BY <1>4, AppendProperties DEF Pushed, EndPush
<1>5. CASE UNCHANGED responseVars
  BY <1>5 DEF responseVars
<1> QED
  BY <1>1, <1>2, <1>3, <1>4, <1>5, ResponsesSteps DEF ResponsesIdle

\* Every step of a request keeps the types of the context.
LEMMA ContextTypes == ASSUME TypeOK, NEW r \in Request, Step(r) PROVE ContextTypeOK'
<1> USE DEF TypeOK, ContextTypeOK
<1>1. CASE Populate(r)
  BY <1>1 DEF Populate, Enter
<1>2. CASE FillOne(r)
  BY <1>2 DEF FillOne, Fill
<1>3. CASE FillEnds(r)
  BY <1>3 DEF FillEnds, Filled
<1>4. CASE ReadAll(r)
  BY <1>4 DEF ReadAll, Copy
<1>5. CASE UNCHANGED contextVars
  BY <1>5 DEF contextVars
<1> QED
  BY <1>1, <1>2, <1>3, <1>4, <1>5, ContextSteps DEF ContextIdle

\* The types hold after every step.
LEMMA TypeStep == TypeOK /\ [Next]_vars => TypeOK'
<1> SUFFICES ASSUME TypeOK, [Next]_vars PROVE TypeOK'
  OBVIOUS
<1>1. CASE UNCHANGED vars
  BY <1>1 DEF vars, logVars, responseVars, contextVars, TypeOK, LogTypeOK, ResponsesTypeOK, ContextTypeOK
<1>2. ASSUME NEW r \in Request, Step(r) PROVE TypeOK'
  <2>1. pc' \in [Request -> Places]
    <3>1. LogIdle(r) => pc' \in [Request -> Places]
      BY DEF LogIdle, TypeOK
    <3> QED
      BY <1>2, <3>1, LogSteps DEF ParseError, TakeNumber, CountNumber, LeaveLogged, Flushed, Leave, Goto, TypeOK, Places
  <2>2. handler' \in [Request -> {"none", "get", "data"}]
    BY <1>2 DEF Step, ParseError, TakeNumber, CountNumber, NoHandler, get, createInfo, structure, data_, Call,
      CallAtRoot, Build, Test, Populate, FillOne, FillEnds, ReadAll, ReadOne, TakeId, Push, Pushed, LeaveLogged,
      Flushed, Leave, TypeOK
  <2> QED
    BY <1>2, <2>1, <2>2, LogTypes, ResponsesTypes, ContextTypes DEF TypeOK
<1> QED
  BY <1>1, <1>2 DEF Next, Terminated

-----------------------------------------------------------------------------
\* The requests with a number are finitely many, and none too many.
LEMMA NumberedFinite ==
    /\ IsFiniteSet(Numbered) /\ Cardinality(Numbered) \in Nat
    /\ Cardinality(Numbered) <= Cardinality(Request)
    /\ Cardinality(Numbered) = Cardinality(Request) => Numbered = Request
<1>1. IsFiniteSet(Request) /\ Numbered \in SUBSET Request
  BY DEF SessionResponsesAssumption, Numbered
<1> QED
  BY <1>1, FS_Subset, FS_CardinalityType

\* A request takes a number: one more has one.
LEMMA OneMoreNumbered ==
    ASSUME TypeOK, NEW r \in Request, number[r] = NoNumber, ReadNumber(r)
    PROVE  Numbered' = Numbered \cup {r} /\ Cardinality(Numbered') = Cardinality(Numbered) + 1
<1>1. number' = [number EXCEPT ![r] = _query_id] /\ _query_id # NoNumber
  BY DEF ReadNumber, TypeOK, LogTypeOK, QueryLogAssumption
<1>2. Numbered' = Numbered \cup {r} /\ r \notin Numbered
  BY <1>1 DEF Numbered, TypeOK, LogTypeOK
<1> QED
  BY <1>2, NumberedFinite, FS_AddElement

\* The invariant of the log holds before the first request.
LEMMA InitLog == Init => LogInv
<1> SUFFICES ASSUME Init PROVE LogInv
  OBVIOUS
<1>1. NumberTaken
  BY NumberedFinite DEF Init, LogInit, NumberTaken
<1>2. WrittenAtEnd /\ LoggedOnce
  BY DEF Init, LogInit, WrittenAtEnd, LoggedOnce
<1> QED
  BY <1>1, <1>2, InitTypes DEF LogInv

\* Every step of a request keeps what is known of its number.
LEMMA NumberTakenStep == ASSUME LogInv, NEW r \in Request, Step(r) PROVE NumberTaken'
<1> USE DEF LogInv, TypeOK, LogTypeOK, NumberTaken
<1>1. CASE TakeNumber(r)
  <2>1. pc' = [pc EXCEPT ![r] = "count"] /\ pc[r] = "start" /\ number[r] = NoNumber /\ ReadNumber(r)
    BY <1>1 DEF TakeNumber, Goto
  <2>2. Cardinality(Numbered') = Cardinality(Numbered) + 1 /\ Cardinality(Numbered) \in Nat
    BY <2>1, OneMoreNumbered, NumberedFinite
  <2>3. \A q \in Request : number'[q] # NoNumber => number'[q] < Cardinality(Numbered')
    BY <2>1, <2>2 DEF ReadNumber
  <2>4. _query_id' <= Cardinality(Numbered')
    BY <2>1, <2>2 DEF ReadNumber
  <2> QED
    BY <2>1, <2>3, <2>4 DEF ReadNumber
<1>2. CASE CountNumber(r)
  <2>1. pc' = [pc EXCEPT ![r] = "call"] /\ number' = number /\ adding' = adding \ {r} /\ Numbered' = Numbered
    BY <1>2 DEF CountNumber, Goto, WriteNumber, Numbered
  <2>2. number[r] \in 0..MaxId /\ number[r] < Cardinality(Numbered) /\ Cardinality(Numbered) \in Nat
    BY <1>2, NumberedFinite DEF CountNumber, WriteNumber
  <2>3. _query_id' <= Cardinality(Numbered)
    BY <1>2, <2>2 DEF CountNumber, WriteNumber
  <2> QED
    BY <1>2, <2>1, <2>3 DEF CountNumber, Goto
<1>3. ASSUME UNCHANGED <<_query_id, number, adding>>, pc[r] \notin {"count"},
             NEW to \in Places \ {"start", "count"}, pc' = [pc EXCEPT ![r] = to]
      PROVE  NumberTaken'
  BY <1>3 DEF Numbered
<1> QED
  BY <1>1, <1>2, <1>3, LogSteps DEF ParseError, LeaveLogged, Flushed, Leave, Goto, BeginFlush, EndFlush, LogIdle,
    logVars, Places

\* Every step of a request keeps its blocks in order.
LEMMA BlockStep == ASSUME LogInv, NEW r \in Request, Step(r) PROVE WrittenAtEnd' /\ LoggedOnce'
<1> USE DEF LogInv, TypeOK, LogTypeOK, NumberTaken, WrittenAtEnd, LoggedOnce
<1>1. CASE Flushed(r)
  <2>1. pc[r] = "flush" /\ pc' = [pc EXCEPT ![r] = "done"] /\ out[r] = 0
    BY <1>1 DEF Flushed, Goto
  <2>2. out' = [out EXCEPT ![r] = 1] \/ (r \in torn /\ out' = out)
    BY <1>1, <2>1 DEF Flushed, EndFlush
  <2> QED
    BY <1>1, <2>1, <2>2 DEF Flushed, EndFlush
<1>2. CASE LeaveLogged(r)
  BY <1>2 DEF LeaveLogged, Goto, BeginFlush
<1>3. CASE Leave(r)
  BY <1>3 DEF Leave, Goto, logVars
<1>4. CASE ParseError(r)
  BY <1>4 DEF ParseError, Goto, logVars
<1>5. CASE TakeNumber(r)
  BY <1>5 DEF TakeNumber, Goto, ReadNumber
<1>6. CASE CountNumber(r)
  BY <1>6 DEF CountNumber, Goto, WriteNumber
<1>7. CASE LogIdle(r)
  BY <1>7 DEF LogIdle, logVars
<1> QED
  BY <1>1, <1>2, <1>3, <1>4, <1>5, <1>6, <1>7, LogSteps

\* The invariant of the log holds after every step.
LEMMA LogStep == LogInv /\ [Next]_vars => LogInv'
<1> SUFFICES ASSUME LogInv, [Next]_vars PROVE LogInv'
  OBVIOUS
<1>1. TypeOK'
  BY TypeStep DEF LogInv
<1>2. CASE UNCHANGED vars
  BY <1>1, <1>2 DEF vars, logVars, LogInv, NumberTaken, WrittenAtEnd, LoggedOnce, Numbered
<1>3. ASSUME NEW r \in Request, Step(r) PROVE LogInv'
  BY <1>1, <1>3, NumberTakenStep, BlockStep DEF LogInv
<1> QED
  BY <1>2, <1>3 DEF Next, Terminated

\* Of the query log: when the handler has returned or thrown, wherever that was,
\* the request has one block (~QueryLogEntry), for any number of requests.
THEOREM RequestsLoggedOnce == Spec => []LoggedOnce
<1>1. LogInv => LoggedOnce
  BY DEF LogInv
<1> QED
  BY <1>1, InitLog, LogStep, PTL DEF Spec

-----------------------------------------------------------------------------
\* While there are requests to come, no number is the largest: the counter does
\* not start again.
LEMMA NoWrap ==
    ASSUME LogInv, Cardinality(Request) <= MaxId + 1, Numbered # Request,
           NEW r \in Request, number[r] # NoNumber
    PROVE  number[r] \in Nat /\ number[r] < MaxId
<1>1. Cardinality(Numbered) < Cardinality(Request) /\ Cardinality(Numbered) \in Nat
  BY NumberedFinite, FS_CardinalityType DEF SessionResponsesAssumption
<1>2. number[r] \in 0..MaxId /\ number[r] < Cardinality(Numbered)
  BY DEF LogInv, TypeOK, LogTypeOK, NumberTaken
<1>3. Cardinality(Request) \in Nat
  BY FS_CardinalityType DEF SessionResponsesAssumption
<1> QED
  BY <1>1, <1>2, <1>3 DEF QueryLogAssumption

\* The numbers of those that were alone stay behind the counter, and a number that
\* is taken is not among them.
LEMMA PassedStep ==
    ASSUME Cardinality(Request) <= MaxId + 1,
           LogInv, NumbersPassed, NumbersDistinct, NEW r \in Request, Step(r)
    PROVE  NumbersPassed' /\ NumbersDistinct'
<1> USE DEF LogInv, TypeOK, LogTypeOK, NumberTaken, NumbersPassed, NumbersDistinct
<1>1. CASE TakeNumber(r)
  <2>1. number[r] = NoNumber /\ ReadNumber(r) /\ r \notin adding
    BY <1>1 DEF TakeNumber, Goto
  <2>2. Numbered' = Numbered \cup {r} /\ r \notin Numbered /\ Numbered # Request
    BY <2>1, OneMoreNumbered DEF Numbered
  <2>3. /\ number' = [number EXCEPT ![r] = _query_id] /\ _query_id' = _query_id
        /\ adding' = adding \cup {r} /\ shared' = shared \cup (IF adding = {} THEN {} ELSE adding \cup {r})
    BY <2>1 DEF ReadNumber, Overlap
  <2>4. \A q \in Request \ {r} : number'[q] = number[q]
    BY <2>3
  <2>5. number'[r] = _query_id
    BY <2>3
  <2>6. \A q \in Numbered \ shared' : q # r /\ q \notin adding /\ number[q] < _query_id
                                      /\ \A p \in adding : number[q] < number[p]
    BY <2>2, <2>3
  <2>7. NumbersPassed'
    <3> SUFFICES ASSUME NEW q \in Numbered' \ shared'
                 PROVE  IF q \in adding' THEN adding' = {q} /\ number'[q] = _query_id'
                        ELSE number'[q] < _query_id' /\ \A p \in adding' : number'[q] < number'[p]
      OBVIOUS
    <3>1. CASE q = r
      BY <3>1, <2>3, <2>5
    <3>2. CASE q # r
      <4>1. q \in Numbered \ shared' /\ q \notin adding'
        BY <3>2, <2>2, <2>3, <2>6
      <4>2. \A p \in adding' : number[q] < number'[p]
        BY <4>1, <2>3, <2>4, <2>5, <2>6
      <4> QED
        BY <4>1, <4>2, <2>2, <2>3, <2>4, <2>6
    <3> QED
      BY <3>1, <3>2
  <2>8. ASSUME NEW q \in Request, q # r, number'[q] # NoNumber, number'[q] = number'[r] PROVE {q, r} \cap shared' # {}
    <3>1. q \in Numbered /\ number[q] = _query_id
      BY <2>8, <2>4, <2>5 DEF Numbered
    <3>2. _query_id \in Nat
      BY DEF QueryLogAssumption
    <3> QED
      BY <3>1, <3>2, <2>6
  <2>9. shared \subseteq shared'
    BY <2>3
  <2> QED
    BY <2>7, <2>8, <2>9, <2>4
<1>2. CASE CountNumber(r)
  <2>1. /\ r \in adding /\ adding' = adding \ {r} /\ number' = number /\ shared' = shared /\ Numbered' = Numbered
        /\ _query_id' = IF number[r] = MaxId THEN 0 ELSE number[r] + 1
    BY <1>2 DEF CountNumber, WriteNumber, Numbered
  <2>2. ASSUME Numbered # Request, NEW q \in Numbered \ shared
        PROVE  IF q \in adding' THEN adding' = {q} /\ number[q] = _query_id'
               ELSE number[q] < _query_id' /\ \A p \in adding' : number[q] < number[p]
    <3>1. _query_id' = number[r] + 1 /\ number[r] \in Nat
      BY <2>1, <2>2, NoWrap
    <3>2. number[q] \in Nat
      BY <2>2, NoWrap DEF Numbered
    <3>3. CASE q \in adding
      BY <3>1, <3>3, <2>1, <2>2
    <3>4. CASE q \notin adding
      BY <3>1, <3>2, <3>4, <2>1, <2>2
    <3> QED
      BY <3>3, <3>4
  <2> QED
    BY <2>1, <2>2
<1>3. CASE UNCHANGED <<_query_id, number, adding, shared>>
  BY <1>3 DEF Numbered
<1> QED
  BY <1>1, <1>2, <1>3, LogSteps DEF ParseError, LeaveLogged, Flushed, Leave, BeginFlush, EndFlush, LogIdle, logVars

\* Of the query log: as long as the counter has not started again, two requests
\* have one number only if the constructor of one of them overlapped another
\* (_query_id++ outside of the mutex).
THEOREM RequestsNumbersDistinct ==
    ASSUME Cardinality(Request) <= MaxId + 1
    PROVE  Spec => []NumbersDistinct
<1> DEFINE Inv == LogInv /\ NumbersPassed /\ NumbersDistinct
<1>1. Init => Inv
  BY InitLog DEF Init, LogInit, NumbersPassed, NumbersDistinct, Numbered
<1>2. Inv /\ [Next]_vars => Inv'
  <2> SUFFICES ASSUME Inv, [Next]_vars PROVE NumbersPassed' /\ NumbersDistinct'
    BY LogStep
  <2>1. CASE UNCHANGED vars
    BY <2>1 DEF vars, logVars, NumbersPassed, NumbersDistinct, Numbered
  <2>2. ASSUME NEW r \in Request, Step(r) PROVE NumbersPassed' /\ NumbersDistinct'
    BY <2>2, PassedStep
  <2> QED
    BY <2>1, <2>2 DEF Next, Terminated
<1>3. Inv => NumbersDistinct
  OBVIOUS
<1> QED
  BY <1>1, <1>2, <1>3, PTL DEF Spec

-----------------------------------------------------------------------------
\* An interval from 1 has as many elements as its end says.
LEMMA IntervalSize == \A n \in Nat : Cardinality(1..n) = n
<1> SUFFICES ASSUME NEW n \in Nat PROVE Cardinality(1..n) = n
  OBVIOUS
<1>1. 1 \in Int /\ n \in Int
  OBVIOUS
<1>2. Cardinality(1..n) = IF 1 > n THEN 0 ELSE n - 1 + 1
  BY <1>1, FS_Interval, Zenon
<1> QED
  BY <1>2

\* A vector without repetitions has no more responses than there are requests.
LEMMA VectorBounded == ResponsesInv => Len(responses) \in Nat /\ Len(responses) < SizeMax - IntMax
<1> SUFFICES ASSUME ResponsesInv PROVE Len(responses) \in Nat /\ Len(responses) < SizeMax - IntMax
  OBVIOUS
<1>1. responses \in [1..Len(responses) -> Request] /\ Len(responses) \in Nat
  BY LenProperties DEF ResponsesInv, TypeOK, ResponsesTypeOK
<1>2. responses \in Injection(1..Len(responses), Request)
  <2>1. \A i, k \in 1..Len(responses) : responses[i] = responses[k] => i = k
    BY <1>1 DEF ResponsesInv, PlaceKnown
  <2> QED
    BY <1>1, <2>1 DEF Injection, IsInjective
<1>3. Cardinality(1..Len(responses)) = Len(responses)
  BY <1>1, IntervalSize
<1>4. Cardinality(1..Len(responses)) <= Cardinality(Request) /\ Cardinality(Request) \in Nat
  BY <1>2, FS_Injection, FS_CardinalityType DEF SessionResponsesAssumption
<1> QED
  BY <1>1, <1>3, <1>4 DEF SessionResponsesAssumption

\* responses.size() >= responseId in size_t: an id that passes is 0 or the number
\* of an element.
LEMMA AcceptedInside ==
    ASSUME ResponsesInv, NEW i \in ResponseId, Accepted(i), i # 0
    PROVE  Element(i) \in DOMAIN responses
<1>1. Len(responses) \in Nat /\ Len(responses) < SizeMax - IntMax
  BY VectorBounded
<1>2. i \in (-IntMax - 1)..IntMax /\ i \in Int /\ IntMax \in Nat /\ SizeMax \in Nat /\ 2 * IntMax + 1 <= SizeMax
  BY DEF RequestsAssumption, SessionResponsesAssumption
<1>3. CASE i > 0
  <2>1. i % (SizeMax + 1) = i
    BY <1>2, <1>3
  <2> QED
    BY <1>1, <1>2, <1>3, <2>1, LenProperties DEF Accepted, Element, ResponsesInv, TypeOK, ResponsesTypeOK
<1>4. CASE i < 0
  <2>1. i % (SizeMax + 1) = i + SizeMax + 1
    BY <1>2, <1>4
  <2> QED
    BY <1>1, <1>2, <1>4, <2>1 DEF Accepted
<1> QED
  BY <1>2, <1>3, <1>4

\* The invariant of the responses holds before the first request.
LEMMA InitResponses == Init => ResponsesInv
<1> SUFFICES ASSUME Init PROVE ResponsesInv
  OBVIOUS
<1>1. DOMAIN responses = {}
  BY DEF Init, ResponsesInit
<1>2. PlaceKnown /\ FoundInPlace
  BY <1>1 DEF Init, ResponsesInit, PlaceKnown, FoundInPlace
<1>3. RightResponse /\ OutsideOnlyForZero
  BY <1>1 DEF Init, ResponsesInit, RightResponse, OutsideOnlyForZero
<1> QED
  BY <1>2, <1>3, InitTypes DEF ResponsesInv

\* The part of RightResponse about places.
PlacesRight == \A i \in DOMAIN responses : responses[i] \notin overtaken => id[responses[i]] = i

\* The part of RightResponse about lookups follows from where everything is.
LEMMA LookupsRight == ResponsesTypeOK /\ PlaceKnown /\ FoundInPlace /\ PlacesRight => RightResponse
<1> USE DEF PlacesRight
<1> SUFFICES ASSUME ResponsesTypeOK, PlaceKnown, FoundInPlace, PlacesRight
             PROVE  RightResponse
  OBVIOUS
<1> SUFFICES ASSUME NEW q \in Request, NEW r \in Request,
                    found[r] # None, id[q] # 0, asked[r] = id[q], q \notin overtaken
             PROVE  found[r] = q
  BY DEF RightResponse
<1>1. asked[r] \in DOMAIN responses /\ found[r] = responses[asked[r]]
  BY DEF FoundInPlace
<1>2. asked[r] # NextId
  BY <1>1, LenProperties DEF ResponsesTypeOK, NextId
<1>3. PICK i \in DOMAIN responses : responses[i] = q
  BY <1>2 DEF PlaceKnown
<1> QED
  BY <1>1, <1>3

\* Every step of a request keeps places and lookups.
LEMMA PlacesStep ==
    ASSUME ResponsesInv, ResponsesTypeOK', undefined = "no", NEW r \in Request, Step(r)
    PROVE  /\ PlaceKnown' /\ FoundInPlace' /\ OutsideOnlyForZero' /\ PlacesRight'
<1> USE DEF ResponsesInv, TypeOK, ResponsesTypeOK, PlacesRight
<1>0. DOMAIN responses = 1..Len(responses) /\ Len(responses) \in Nat /\ \A i \in DOMAIN responses : responses[i] \in Request
  BY LenProperties
<1>1. ASSUME NEW i \in ResponseId, LookupStep(r, i)
      PROVE  /\ PlaceKnown' /\ FoundInPlace' /\ OutsideOnlyForZero' /\ PlacesRight'
  <2>1. /\ pc[r] = "call" /\ found[r] = None /\ asked' = [asked EXCEPT ![r] = i]
        /\ UNCHANGED <<responses, id, pushing, overtaken>>
    BY <1>1 DEF LookupStep, Lookup, FoundInPlace
  <2> PICK to \in {"build", "test", "leave"} : pc' = [pc EXCEPT ![r] = to]
    BY <1>1 DEF LookupStep
  <2>2. PlaceKnown'
    BY <2>1, <1>0 DEF PlaceKnown, NextId
  <2>3. FoundInPlace'
    <3>1. CASE UNCHANGED found
      BY <2>1, <3>1 DEF FoundInPlace
    <3>2. CASE Element(i) \in DOMAIN responses /\ found' = [found EXCEPT ![r] = responses[Element(i)]]
      BY <2>1, <3>2 DEF FoundInPlace, Element
    <3> QED
      BY <1>1, <3>1, <3>2 DEF LookupStep, Lookup
  <2>4. OutsideOnlyForZero'
    <3> SUFFICES ASSUME undefined' = "outside" PROVE \E q \in Request : asked'[q] = 0
      BY DEF OutsideOnlyForZero
    <3>1. Accepted(i) /\ Element(i) \notin DOMAIN responses
      BY <1>1 DEF LookupStep, Lookup
    <3>2. i = 0
      BY <3>1, AcceptedInside
    <3> QED
      BY <2>1, <3>2
  <2>5. PlacesRight'
    BY <2>1 DEF RightResponse
  <2> QED
    BY <2>2, <2>3, <2>4, <2>5
<1>2. CASE TakeId(r)
  <2>1. /\ pc[r] = "number" /\ pc' = [pc EXCEPT ![r] = "push"] /\ id' = [id EXCEPT ![r] = NextId]
        /\ UNCHANGED <<responses, asked, found, pushing, overtaken>>
    BY <1>2 DEF TakeId, Goto, Number
  <2>2. NextId # 0 /\ NextId' = NextId /\ \A i \in DOMAIN responses : responses[i] # r
    <3>1. NextId # 0 /\ NextId' = NextId
      BY <1>0, <2>1 DEF NextId
    <3>2. \A i \in DOMAIN responses : pc[responses[i]] # "number"
      BY DEF PlaceKnown
    <3> QED
      BY <2>1, <3>1, <3>2
  <2>3. PlaceKnown'
    BY <2>1, <2>2, <1>0 DEF PlaceKnown
  <2>4. FoundInPlace' /\ OutsideOnlyForZero'
    BY <1>2, <2>1 DEF FoundInPlace, OutsideOnlyForZero, TakeId, Number
  <2>5. PlacesRight'
    BY <2>1, <2>2, <1>0 DEF RightResponse
  <2> QED
    BY <2>3, <2>4, <2>5
<1>3. CASE Push(r)
  <2>1. /\ pc[r] = "push" /\ pc' = [pc EXCEPT ![r] = "pushing"] /\ pushing' = pushing \cup {r}
        /\ UNCHANGED <<responses, asked, found, id, overtaken>>
    BY <1>3 DEF Push, Goto, BeginPush
  <2>2. PlaceKnown'
    BY <2>1, <1>0 DEF PlaceKnown, NextId
  <2>3. FoundInPlace' /\ OutsideOnlyForZero'
    BY <1>3, <2>1 DEF FoundInPlace, OutsideOnlyForZero, Push, BeginPush
  <2>4. PlacesRight'
    BY <2>1 DEF RightResponse
  <2> QED
    BY <2>2, <2>3, <2>4
<1>4. CASE Pushed(r)
  <2>1. /\ pc[r] = "pushing" /\ pc' = [pc EXCEPT ![r] = "leave"] /\ pushing' = pushing \ {r}
        /\ responses' = Append(responses, r)
        /\ UNCHANGED <<asked, found, id, undefined>>
    BY <1>4 DEF Pushed, Goto, EndPush
  <2>2. /\ DOMAIN responses' = 1..(Len(responses) + 1) /\ responses'[Len(responses) + 1] = r
        /\ \A i \in 1..Len(responses) : responses'[i] = responses[i]
    <3>1. Len(responses') = Len(responses) + 1
      BY <2>1, AppendProperties
    <3> QED
      BY <2>1, <3>1, AppendProperties, LenProperties
  <2>3. id[r] # 0 /\ \A i \in DOMAIN responses : responses[i] # r
    BY <2>1 DEF PlaceKnown
  <2>4. ASSUME NEW q \in Request, \A i \in DOMAIN responses' : responses'[i] # q
        PROVE  q # r /\ \A i \in DOMAIN responses : responses[i] # q
    <3>1. Len(responses) + 1 \in DOMAIN responses' /\ \A i \in DOMAIN responses : i \in DOMAIN responses'
      BY <2>2, <1>0
    <3> QED
      BY <2>4, <2>2, <3>1, <1>0
  <2>5. \A q \in Request : (\A i \in DOMAIN responses' : responses'[i] # q) /\ id[q] # 0 => q \in overtaken'
    <3> SUFFICES ASSUME NEW q \in Request, \A i \in DOMAIN responses' : responses'[i] # q, id[q] # 0
                 PROVE  q \in overtaken'
      OBVIOUS
    <3>1. q # r /\ \A i \in DOMAIN responses : responses[i] # q
      BY <2>4
    <3> QED
      BY <1>4, <3>1 DEF Pushed, EndPush
  <2>6. PlaceKnown'
    <3>1. \A i \in DOMAIN responses' :
             /\ id'[responses'[i]] # 0 /\ pc'[responses'[i]] \in {"leave", "flush", "done"}
             /\ \A k \in DOMAIN responses' : responses'[i] = responses'[k] => i = k
      BY <2>1, <2>2, <2>3, <1>0 DEF PlaceKnown
    <3>2. \A q \in Request :
             /\ q \in pushing' <=> pc'[q] = "pushing"
             /\ pc'[q] \in {"push", "pushing"} => id'[q] # 0
      BY <2>1 DEF PlaceKnown
    <3>3. ASSUME NEW q \in Request, id'[q] # 0, \A i \in DOMAIN responses' : responses'[i] # q
          PROVE  pc'[q] \in {"push", "pushing"} /\ (q \notin overtaken' => id'[q] = NextId')
      <4>1. q # r /\ \A i \in DOMAIN responses : responses[i] # q
        BY <3>3, <2>4
      <4>2. pc[q] \in {"push", "pushing"}
        BY <4>1, <3>3, <2>1 DEF PlaceKnown
      <4> QED
        BY <4>1, <4>2, <3>3, <2>1, <2>5
    <3> QED
      BY <3>1, <3>2, <3>3 DEF PlaceKnown
  <2>7. FoundInPlace'
    <3> SUFFICES ASSUME NEW q \in Request
                 PROVE  /\ pc'[q] \in {"start", "count", "call"} => found'[q] = None
                        /\ found'[q] # None => asked'[q] \in DOMAIN responses' /\ found'[q] = responses'[asked'[q]]
      BY DEF FoundInPlace
    <3> QED
      BY <2>1, <2>2, <1>0 DEF FoundInPlace
  <2>8. OutsideOnlyForZero'
    BY <2>1 DEF OutsideOnlyForZero
  <2>9. PlacesRight'
    <3> SUFFICES ASSUME NEW k \in DOMAIN responses', responses'[k] \notin overtaken' PROVE id'[responses'[k]] = k
      OBVIOUS
    <3>1. overtaken \subseteq overtaken'
      BY <1>4 DEF Pushed, EndPush
    <3>2. CASE k = Len(responses) + 1
      BY <3>1, <3>2, <2>1, <2>2, <2>3 DEF PlaceKnown, NextId
    <3>3. CASE k \in 1..Len(responses)
      BY <3>1, <3>3, <2>1, <2>2, <1>0 DEF RightResponse
    <3> QED
      BY <3>2, <3>3, <2>2, <1>0
  <2> QED
    BY <2>6, <2>7, <2>8, <2>9
<1>5. CASE ResponsesIdle(r)
  <2>1. UNCHANGED <<responses, asked, found, id, pushing, overtaken, undefined>> /\ pc[r] \notin {"push", "pushing"}
    BY <1>5 DEF ResponsesIdle, responseVars
  <2> PICK to \in Places \ {"push", "pushing"} :
          /\ pc' = [pc EXCEPT ![r] = to]
          /\ to \in {"start", "count", "call"} => pc[r] \in {"start", "count", "call"}
          /\ pc[r] \in {"leave", "flush", "done"} => to \in {"leave", "flush", "done"}
    BY <1>5 DEF ResponsesIdle
  <2>2. PlaceKnown'
    BY <2>1, <1>0 DEF PlaceKnown, NextId
  <2>3. FoundInPlace' /\ OutsideOnlyForZero'
    BY <2>1 DEF FoundInPlace, OutsideOnlyForZero
  <2>4. PlacesRight'
    BY <2>1 DEF RightResponse
  <2> QED
    BY <2>2, <2>3, <2>4
<1> QED
  BY <1>1, <1>2, <1>3, <1>4, <1>5, ResponsesSteps

\* The invariant of the responses holds after every step.
LEMMA ResponsesStep == ResponsesInv /\ [Next]_vars => ResponsesInv'
<1> SUFFICES ASSUME ResponsesInv, [Next]_vars PROVE ResponsesInv'
  OBVIOUS
<1>1. TypeOK' /\ ResponsesTypeOK'
  BY TypeStep DEF ResponsesInv, TypeOK
<1>2. CASE UNCHANGED vars
  BY <1>1, <1>2 DEF vars, responseVars, ResponsesInv, PlaceKnown, FoundInPlace, RightResponse, OutsideOnlyForZero, NextId
<1>3. ASSUME undefined = "no", NEW r \in Request, Step(r) PROVE ResponsesInv'
  <2>1. PlaceKnown' /\ FoundInPlace' /\ OutsideOnlyForZero' /\ PlacesRight'
    BY <1>1, <1>3, PlacesStep
  <2>2. RightResponse'
    BY <1>1, <2>1, LookupsRight, PTL
  <2> QED
    BY <1>1, <2>1, <2>2 DEF ResponsesInv
<1> QED
  BY <1>2, <1>3 DEF Next, Terminated

\* Of a session: an id leads to the response it was answered for, unless another
\* get of the session came in between (Session::get, responses[responseId-1]).
THEOREM RequestsRightResponse == Spec => []RightResponse
<1>1. ResponsesInv => RightResponse
  BY DEF ResponsesInv
<1> QED
  BY <1>1, InitResponses, ResponsesStep, PTL DEF Spec

\* Of a session: outside of its elements the vector is read for the id 0 only,
\* for every width of int and size_t (responses.size() >= responseId).
THEOREM RequestsOutsideOnlyForZero == Spec => []OutsideOnlyForZero
<1>1. ResponsesInv => OutsideOnlyForZero
  BY DEF ResponsesInv
<1> QED
  BY <1>1, InitResponses, ResponsesStep, PTL DEF Spec

-----------------------------------------------------------------------------
\* The invariant of the context holds before the first request.
LEMMA InitContext == Init => ContextInv
<1> SUFFICES ASSUME Init PROVE ContextInv
  OBVIOUS
<1>1. FilledByHolder /\ WholeCopies
  BY DEF Init, ContextInit, FilledByHolder, WholeCopies
<1> QED
  BY <1>1, InitTypes DEF ContextInv

\* Every step of a request keeps the invariant of the context.
LEMMA CopiesStep == ASSUME ContextInv, NEW r \in Request, Step(r) PROVE FilledByHolder' /\ WholeCopies'
<1> USE DEF ContextInv, TypeOK, ContextTypeOK, FilledByHolder, WholeCopies
<1>1. CASE Populate(r)
  <2>1. mutex = Nobody /\ filling = {}
    BY <1>1 DEF Populate, Enter, ContextDataAssumption
  <2>2. CASE dataPopulated
    BY <1>1, <2>1, <2>2 DEF Populate, Enter, Goto
  <2>3. CASE ~dataPopulated
    BY <1>1, <2>1, <2>3 DEF Populate, Enter, Goto
  <2> QED
    BY <2>2, <2>3
<1>2. CASE FillOne(r)
  BY <1>2 DEF FillOne, Fill, Goto
<1>3. CASE FillEnds(r)
  <2>1. filling = {r}
    BY <1>3 DEF FillEnds, Filled
  <2> QED
    BY <1>3, <2>1 DEF FillEnds, Filled, Goto
<1>4. CASE ReadAll(r)
  <2>1. data = Field /\ filling = {}
    BY <1>4 DEF ReadAll, Goto
  <2>2. copies' = copies \cup {Field} /\ UNCHANGED <<data, dataPopulated, mutex, filling>>
    BY <1>4, <2>1 DEF ReadAll, Copy
  <2> QED
    BY <1>4, <2>2 DEF ReadAll, Goto
<1>5. CASE ContextIdle(r)
  BY <1>5 DEF ContextIdle, contextVars
<1> QED
  BY <1>1, <1>2, <1>3, <1>4, <1>5, ContextSteps

\* The invariant of the context holds after every step.
LEMMA ContextStep == ContextInv /\ [Next]_vars => ContextInv'
<1> SUFFICES ASSUME ContextInv, [Next]_vars PROVE ContextInv'
  OBVIOUS
<1>1. TypeOK'
  BY TypeStep DEF ContextInv
<1>2. CASE UNCHANGED vars
  BY <1>1, <1>2 DEF vars, contextVars, ContextInv, FilledByHolder, WholeCopies
<1>3. ASSUME NEW r \in Request, Step(r) PROVE ContextInv'
  BY <1>1, <1>3, CopiesStep DEF ContextInv
<1> QED
  BY <1>2, <1>3 DEF Next, Terminated

\* Of a context: getData, which tests dataPopulated and copies without the mutex,
\* returns all the fields, for any number of requests and fields.
THEOREM RequestsWholeCopies == Spec => []WholeCopies
<1>1. ContextInv => WholeCopies
  BY DEF ContextInv
<1> QED
  BY <1>1, InitContext, ContextStep, PTL DEF Spec
=============================================================================
