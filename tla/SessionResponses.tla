-------------------------- MODULE SessionResponses --------------------------
(***************************************************************************)
(* The responses of a session (session.cpp): a std::vector that requests   *)
(* of the session append to and read without any lock.  An answer's id is  *)
(* its number in the vector, counted from 1.                               *)
(*                                                                         *)
(* get reads size() for the id and then calls push_back: two steps.  If    *)
(* push_back runs while another request is in push_back or reads the       *)
(* vector, or if the vector is read outside its elements, the behaviour is *)
(* undefined; the history variable undefined says which of the two it was. *)
(***************************************************************************)
EXTENDS Workers, Integers, Sequences, FiniteSets

CONSTANTS IntMax,      \* the largest int
          SizeMax,     \* the largest size_t
          None         \* no response; a response is named by the request that built it

\* A size_t has at least the bits of an int, and no vector gets so long that a
\* negative int becomes a number of one of its elements.
ASSUME SessionResponsesAssumption ==
    /\ IntMax \in Nat /\ SizeMax \in Nat /\ 2 * IntMax + 1 <= SizeMax
    /\ IsFiniteSet(Request) /\ Cardinality(Request) < SizeMax - IntMax
    /\ None \notin Request \cup Int

VARIABLES responses,
          asked,       \* request -> the responseId it looked up, or None
          found,       \* request -> the response it found, or None
          id,          \* request -> the id it answers, 0 if none
          pushing,     \* requests inside push_back
          overtaken,   \* history: requests that another's push_back overtook
          undefined    \* history: "no", "overlap" or "outside"

responseVars == <<responses, asked, found, id, pushing, overtaken, undefined>>

ResponsesInit ==
    /\ responses = <<>>
    /\ asked = [r \in Request |-> None]
    /\ found = [r \in Request |-> None]
    /\ id = [r \in Request |-> 0]
    /\ pushing = {} /\ overtaken = {}
    /\ undefined = "no"

\* Mutant: the comparison is made in int.
Accepted_Signed(i) == Len(responses) >= i

\* responses.size() >= responseId, where the int is converted to a size_t.
Accepted(i) == Len(responses) >= i % (SizeMax + 1)

\* Mutant: the id is taken for an index.
Element_Index(i) == i + 1

\* The element of responseId: responses[responseId - 1], counted from 1.
Element(i) == i

\* The session's vector is used while another request changes it.
Disturbed == pushing # {}

\* The lookup that data, structure, and, unless the id is 0, get and createInfo
\* start with.
Lookup(r, i) ==
    /\ asked' = [asked EXCEPT ![r] = i]
    /\ \/ Disturbed /\ undefined' = "overlap" /\ UNCHANGED found
       \/ ~Disturbed /\ Accepted(i) /\ Element(i) \in DOMAIN responses
            /\ found' = [found EXCEPT ![r] = responses[Element(i)]] /\ UNCHANGED undefined
       \/ ~Disturbed /\ Accepted(i) /\ Element(i) \notin DOMAIN responses
            /\ undefined' = "outside" /\ UNCHANGED found
    /\ UNCHANGED <<responses, id, pushing, overtaken>>

\* Invalid responseId
Refuse(r, i) ==
    /\ ~Disturbed /\ ~Accepted(i)
    /\ UNCHANGED responseVars

NextId == Len(responses) + 1

\* get: res["id"] = responses.size()+1
Number(r) ==
    /\ id' = [id EXCEPT ![r] = NextId]
    /\ undefined' = IF Disturbed THEN "overlap" ELSE undefined
    /\ UNCHANGED <<responses, asked, found, pushing, overtaken>>

\* get: responses.push_back(response)
BeginPush(r) ==
    /\ pushing' = pushing \cup {r}
    /\ undefined' = IF Disturbed THEN "overlap" ELSE undefined
    /\ UNCHANGED <<responses, asked, found, id, overtaken>>

\* Those that have read the size and are not in the vector yet are overtaken.
EndPush(r) ==
    /\ r \in pushing
    /\ pushing' = pushing \ {r}
    /\ responses' = Append(responses, r)
    /\ overtaken' = overtaken \cup {q \in Request \ {r} : id[q] # 0 /\ \A i \in DOMAIN responses : responses[i] # q}
    /\ UNCHANGED <<asked, found, id, undefined>>
-----------------------------------------------------------------------------
ResponsesTypeOK ==
    /\ responses \in Seq(Request)
    /\ asked \in [Request -> Int \cup {None}]
    /\ found \in [Request -> Request \cup {None}]
    /\ id \in [Request -> Nat]
    /\ pushing \subseteq Request /\ overtaken \subseteq Request
    /\ undefined \in {"no", "overlap", "outside"}

\* Session::get answers the place of its own response in the vector, and a
\* request that gives that id (responses[responseId-1]) works on that response,
\* unless another get of the session went through push_back between size() and
\* its own.
RightResponse ==
    /\ \A i \in DOMAIN responses :
          responses[i] \notin overtaken => id[responses[i]] = i
    /\ \A q, r \in Request :
          found[r] # None /\ id[q] # 0 /\ asked[r] = id[q] /\ q \notin overtaken => found[r] = q

\* The conversion to size_t in responses.size() >= responseId refuses negative
\* ids, and ids beyond the vector are refused: outside its elements it is read
\* for the id 0 only.
OutsideOnlyForZero ==
    undefined = "outside" => \E r \in Request : asked[r] = 0
=============================================================================
