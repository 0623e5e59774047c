--------------------------- MODULE SessionsProofs ---------------------------
(***************************************************************************)
(* Proofs about Sessions, for every number of workers, IDs and objects and *)
(* every SESSION_REAP_TIME.                                                *)
(***************************************************************************)
EXTENDS Sessions, TLAPS

USE SessionsAssumption

\* The inductive invariant: OwnSession needs no strengthening but the types.
IInv ==
    /\ TypeOK
    /\ OwnSession

\* An empty table satisfies the invariant.
LEMMA InitIInv == Init => IInv
<1> SUFFICES ASSUME Init PROVE IInv
  OBVIOUS
<1>1. 0 \in 0..Cap /\ 0 \in 0..MaxLag
  BY DEF Cap
<1>2. TypeOK
  BY <1>1 DEF Init, TypeOK
<1>3. OwnSession
  BY DEF Init, OwnSession
<1> QED
  BY <1>2, <1>3 DEF IInv

\* The steps that change neither the table nor a worker keep OwnSession.
LEMMA SameTable ==
    ASSUME IInv, TypeOK', UNCHANGED <<sessions, id, ref>>
    PROVE  IInv'
BY DEF IInv, OwnSession

\* The passing of time keeps the invariant; ages stop at the cap.
LEMMA TickIInv == IInv /\ Tick => IInv'
<1> SUFFICES ASSUME IInv, Tick PROVE IInv'
  OBVIOUS
<1>1. phase' \in {0, 1}
  BY DEF IInv, TypeOK, Tick
<1>2. age' \in [Obj -> 0..Cap] /\ lag' \in 0..MaxLag
  <2>1. CASE phase = 0
    BY <2>1 DEF IInv, TypeOK, Tick
  <2>2. CASE phase # 0
    <3>1. Cap \in Nat /\ \A o \in Obj : age[o] \in 0..Cap
      BY DEF IInv, TypeOK, Cap
    <3>2. age' \in [Obj -> 0..Cap]
      BY <2>2, <3>1 DEF Tick
    <3>3. lag' \in 0..MaxLag
      BY <2>2 DEF IInv, TypeOK, Tick
    <3> QED
      BY <3>2, <3>3
  <2> QED
    BY <2>1, <2>2
<1>3. TypeOK'
  BY <1>1, <1>2 DEF IInv, TypeOK, Tick
<1> QED
  BY <1>3, SameTable DEF Tick

\* A new session's object is one nobody points to.
LEMMA openSessionIInv == IInv /\ openSession => IInv'
<1> SUFFICES ASSUME IInv, openSession PROVE IInv'
  OBVIOUS
<1>1. PICK i \in Id, o \in Obj \ Referenced :
          /\ sessions[i] = NoObj
          /\ sessions' = [sessions EXCEPT ![i] = o]
          /\ age' = [age EXCEPT ![o] = 0]
          /\ half' = [half EXCEPT ![o] = phase]
  BY DEF openSession
<1>2. UNCHANGED <<phase, pc, id, ref, reaper, lag, mysqlUp>>
  BY DEF openSession
<1>3. 0 \in 0..Cap
  BY DEF Cap
<1>4. TypeOK'
  BY <1>1, <1>2, <1>3 DEF IInv, TypeOK
<1>5. o # NoObj /\ (\A j \in Id : sessions[j] # o) /\ (\A w \in Worker : ref[w] # o)
  BY <1>1 DEF Referenced
<1>6. \A j \in Id : sessions'[j] = IF j = i THEN o ELSE sessions[j]
  BY <1>1 DEF IInv, TypeOK
<1>7. OwnSession'
  BY <1>2, <1>5, <1>6 DEF IInv, OwnSession
<1> QED
  BY <1>4, <1>7 DEF IInv

\* A request that finds its session has the object of its ID.
LEMMA processIInv ==
    ASSUME IInv, NEW w \in Worker, process(w)
    PROVE  IInv'
<1>1. PICK i \in Id, handler \in {"use", "close"} :
          /\ sessions[i] # NoObj
          /\ ref' = [ref EXCEPT ![w] = sessions[i]]
          /\ id' = [id EXCEPT ![w] = i]
          /\ pc' = [pc EXCEPT ![w] = handler]
  BY DEF process
<1>2. UNCHANGED <<sessions, age, half, phase, reaper, lag, mysqlUp>>
  BY DEF process
<1>3. TypeOK'
  BY <1>1, <1>2 DEF IInv, TypeOK
<1>4. \A v \in Worker : /\ ref'[v] = IF v = w THEN sessions[i] ELSE ref[v]
                        /\ id'[v] = IF v = w THEN i ELSE id[v]
  BY <1>1 DEF IInv, TypeOK
<1>5. OwnSession'
  BY <1>1, <1>2, <1>4 DEF IInv, OwnSession
<1> QED
  BY <1>3, <1>5 DEF IInv

\* The end of a request, with or without erasing an entry, keeps the invariant.
LEMMA ReturnIInv ==
    ASSUME IInv, NEW w \in Worker, Handle(w) \/ closeSession(w)
    PROVE  IInv'
<1>1. /\ Return(w)
      /\ sessions' \in {sessions, [sessions EXCEPT ![id[w]] = NoObj]}
  BY DEF Handle, closeSession
<1>2. TypeOK'
  BY <1>1 DEF IInv, TypeOK, Return
<1>3. \A v \in Worker : /\ ref'[v] = IF v = w THEN NoObj ELSE ref[v]
                        /\ v # w => id'[v] = id[v]
  BY <1>1 DEF IInv, TypeOK, Return
<1>4. \A i \in Id : sessions'[i] \in {sessions[i], NoObj}
  BY <1>1 DEF IInv, TypeOK
<1>5. OwnSession'
  BY <1>3, <1>4 DEF IInv, OwnSession
<1> QED
  BY <1>2, <1>5 DEF IInv

\* Reaping keeps the invariant: it only erases.
LEMMA ReapIInv == IInv /\ Reap => IInv'
<1> SUFFICES ASSUME IInv, Reap PROVE IInv'
  OBVIOUS
<1>1. \A i \in Id : sessions'[i] \in {sessions[i], NoObj}
  BY DEF Reap
<1>2. TypeOK'
  BY DEF IInv, TypeOK, Reap
<1>3. OwnSession'
  BY <1>1 DEF IInv, OwnSession, Reap
<1> QED
  BY <1>2, <1>3 DEF IInv

\* Every step keeps the invariant.
LEMMA NextIInv == IInv /\ [Next]_vars => IInv'
<1> SUFFICES ASSUME IInv, [Next]_vars PROVE IInv'
  OBVIOUS
<1>1. CASE UNCHANGED vars
  BY <1>1 DEF vars, IInv, TypeOK, OwnSession
<1>2. CASE ReaperWake \/ garbageCollect
  <2>1. TypeOK'
    BY <1>2 DEF IInv, TypeOK, ReaperWake, garbageCollect
  <2> QED
    BY <1>2, <2>1, SameTable DEF ReaperWake, garbageCollect
<1> QED
  BY <1>1, <1>2, TickIInv, openSessionIInv, processIInv, ReturnIInv, ReapIInv DEF Next

\* Two IDs never share a session, and a running request never holds the session
\* of another ID, whatever is opened, closed and reaped meanwhile.
THEOREM SessionsOwn == Spec => []OwnSession
<1>1. Init => IInv
  BY InitIInv
<1>2. IInv /\ [Next]_vars => IInv'
  BY NextIInv
<1>3. IInv => OwnSession
  BY DEF IInv
<1> QED
  BY <1>1, <1>2, <1>3, PTL DEF Spec

\* The types, by the same invariant.
LEMMA SessionsType == Spec => []TypeOK
<1>1. Init => IInv
  BY InitIInv
<1>2. IInv /\ [Next]_vars => IInv'
  BY NextIInv
<1>3. IInv => TypeOK
  BY DEF IInv
<1> QED
  BY <1>1, <1>2, <1>3, PTL DEF Spec

\* The reaper never takes a session before it has lived for SESSION_REAP_TIME
\* seconds: rounding to whole seconds costs less than one second, which the
\* strict comparison makes up for, and a late reaper only waits longer.
THEOREM SessionsKeptForScript == Spec => KeptForScript
<1> DEFINE Kept == reaper = "lock" /\ reaper' = "gc" =>
                     \A i \in Id : sessions[i] # NoObj /\ sessions'[i] = NoObj =>
                        RealAge(sessions[i]) > 2 * ReapTime
<1>1. TypeOK /\ [Next]_vars => [Kept]_vars
  <2> SUFFICES ASSUME TypeOK, [Next]_vars, reaper = "lock", reaper' = "gc",
                      NEW i \in Id, sessions[i] # NoObj, sessions'[i] = NoObj
               PROVE  RealAge(sessions[i]) > 2 * ReapTime
    OBVIOUS
  <2>1. Reap
    BY DEF vars, Next, Tick, openSession, process, Handle, closeSession, Return, ReaperWake,
           garbageCollect
  <2>2. Expired(sessions[i]) /\ sessions[i] \in Obj
    BY <2>1 DEF Reap, TypeOK
  <2> DEFINE o == sessions[i]
  <2>3. age[o] \in Nat /\ half[o] \in {0, 1} /\ phase \in {0, 1} /\ lag \in Nat
    BY <2>2 DEF TypeOK
  <2> HIDE DEF o
  <2>4. age[o] - lag > ReapTime
    BY <2>2 DEF Expired, o
  <2> QED
    BY <2>3, <2>4 DEF RealAge, o
<1> QED
  BY <1>1, SessionsType, PTL DEF Spec, KeptForScript

\* No step gives a session's ID to another session.
THEOREM SessionsNeverTakenOver == Spec => NeverTakenOver
<1> DEFINE Kept == \A i \in Id : sessions[i] # NoObj => sessions'[i] \in {sessions[i], NoObj}
<1>1. TypeOK /\ [Next]_vars => [Kept]_vars
  <2> SUFFICES ASSUME TypeOK, [Next]_vars PROVE Kept
    OBVIOUS
  <2>1. CASE UNCHANGED sessions
    BY <2>1
  <2>2. CASE openSession
    BY <2>2 DEF openSession, TypeOK
  <2>3. ASSUME NEW w \in Worker, closeSession(w) PROVE Kept
    BY <2>3 DEF closeSession, TypeOK
  <2>4. CASE Reap
    BY <2>4 DEF Reap
  <2> QED
    BY <2>1, <2>2, <2>3, <2>4 DEF Next, vars, Tick, process, Handle, ReaperWake, garbageCollect
<1> QED
  BY <1>1, SessionsType, PTL DEF Spec, NeverTakenOver
=============================================================================
