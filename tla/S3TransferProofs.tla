-------------------------- MODULE S3TransferProofs --------------------------
(***************************************************************************)
(* Proofs about S3Transfer, for any number of loaders and versions.        *)
(*                                                                         *)
(* WholeAnswer is not inductive: what read_s3 answers was in the cache or  *)
(* in memory before, and what is in the cache was a temporary file.        *)
(* WholeInFlight follows the content back to the download, and CopyKept    *)
(* needs it too: a loader at the rename has a file to move.                *)
(***************************************************************************)
EXTENDS S3Transfer, TLAPS

USE S3TransferAssumption

\* The conjuncts of WholeInFlight that are about one loader.
InFlight(l) ==
    /\ pc[l] \in {"remove", "rename"} => temp[l] # NoFile /\ ~failed[l]
    /\ pc[l] \in {"complete", "finalize", "remove", "rename", "exists"} => ss[l] # NoFile
    /\ temp[l] # NoFile /\ ss[l] # NoFile => shortWrite \/ (ss[l].whole => temp[l].whole)
    /\ pc[l] \in {"finalize", "remove", "rename", "exists"} /\ ~failed[l] => Whole(ss[l])

\* WholeInFlight says this of every loader, and that the cache is whole.
LEMMA InFlightOfAll == WholeInFlight <=> (shortWrite \/ Whole(cache)) /\ \A l \in Loader : InFlight(l)
BY DEF WholeInFlight, InFlight

\* The invariant holds before the first transfer.
LEMMA InitIInv == Init => IInv
<1> SUFFICES ASSUME Init PROVE IInv
  OBVIOUS
<1>1. object \in Version
  BY DEF Init, Version, S3TransferAssumption
<1>2. cache \in File /\ pc \in [Loader -> PC]
  BY DEF Init, File, PC
<1>3. ss \in [Loader -> File] /\ temp \in [Loader -> File] /\ answer \in [Loader -> File]
  BY DEF Init, File
<1>4. failed \in [Loader -> BOOLEAN]
  BY DEF Init
<1>5. everCached \in BOOLEAN /\ spoiled \in BOOLEAN /\ shortWrite \in BOOLEAN
  BY DEF Init
<1>6. TypeOK
  BY <1>1, <1>2, <1>3, <1>4, <1>5 DEF TypeOK
<1>7. WholeInFlight /\ WholeAnswer /\ CopyKept
  BY DEF Init, WholeInFlight, WholeAnswer, CopyKept, Whole
<1> QED
  BY <1>6, <1>7 DEF IInv

\* Every step of read_s3, of the CMS and of a crash keeps the types.
LEMMA TypeStep == TypeOK /\ [Next]_vars => TypeOK'
<1> SUFFICES ASSUME TypeOK, [Next]_vars PROVE TypeOK'
  OBVIOUS
<1>1. CASE Publish
  BY <1>1 DEF Publish, TypeOK, Version
<1>2. ASSUME NEW l \in Loader, StartTransfer(l) PROVE TypeOK'
  BY <1>2 DEF StartTransfer, TypeOK, File, PC
<1>3. ASSUME NEW l \in Loader, commit_buffer(l) PROVE TypeOK'
  <2> PICK whole \in BOOLEAN, written \in BOOLEAN, opened \in BOOLEAN :
         /\ ss' = [ss EXCEPT ![l] = [ver |-> object, whole |-> whole]]
         /\ temp' = [temp EXCEPT ![l] =
               IF opened THEN [ver |-> object, whole |-> whole /\ written] ELSE NoFile]
         /\ shortWrite' = (shortWrite \/ (opened /\ ~written))
    BY <1>3 DEF commit_buffer
  <2>1. [ver |-> object, whole |-> whole] \in File /\ [ver |-> object, whole |-> whole /\ written] \in File
    BY DEF TypeOK, File, Content
  <2>2. ss' \in [Loader -> File] /\ temp' \in [Loader -> File]
    BY <2>1 DEF TypeOK, File
  <2>3. shortWrite' \in BOOLEAN
    BY Zenon DEF TypeOK
  <2> QED
    BY <1>3, <2>2, <2>3 DEF commit_buffer, TypeOK, PC
<1>4. ASSUME NEW l \in Loader, responseCompleteCallback(l) PROVE TypeOK'
  BY <1>4 DEF responseCompleteCallback, TypeOK, PC
<1>5. ASSUME NEW l \in Loader, finalize(l) PROVE TypeOK'
  BY <1>5 DEF finalize, ReturnEarly, Goto, TypeOK, PC
<1>6. ASSUME NEW l \in Loader, RemoveCache(l) PROVE TypeOK'
  BY <1>6 DEF RemoveCache, TypeOK, PC, File
<1>7. ASSUME NEW l \in Loader, RenameTemp(l) PROVE TypeOK'
  BY <1>7 DEF RenameTemp, TypeOK, PC
<1>8. ASSUME NEW l \in Loader, get_value(l) PROVE TypeOK'
  BY <1>8 DEF get_value, TypeOK, PC, File
<1>9. ASSUME NEW l \in Loader, read_cache(l) PROVE TypeOK'
  BY <1>9 DEF read_cache, TypeOK, PC
<1>10. CASE Crash
  BY <1>10 DEF Crash, TypeOK, PC, File
<1>11. CASE UNCHANGED vars
  BY <1>11 DEF vars, TypeOK
<1> QED
  BY <1>1, <1>2, <1>3, <1>4, <1>5, <1>6, <1>7, <1>8, <1>9, <1>10, <1>11 DEF Next

\* What is on its way stays whole.
LEMMA WholeStep == IInv /\ [Next]_vars => WholeInFlight'
<1> SUFFICES ASSUME IInv, [Next]_vars PROVE (shortWrite \/ Whole(cache))' /\ \A m \in Loader : InFlight(m)'
  BY InFlightOfAll DEF WholeInFlight, InFlight
<1>a. (shortWrite \/ Whole(cache)) /\ \A m \in Loader : InFlight(m)
  BY InFlightOfAll DEF IInv
<1>b. TypeOK
  BY DEF IInv
<1> DEFINE Goal == (shortWrite \/ Whole(cache))' /\ \A m \in Loader : InFlight(m)'
<1>1. CASE Publish
  BY <1>1, <1>a DEF Publish, InFlight, Whole
<1>2. ASSUME NEW l \in Loader, StartTransfer(l) PROVE Goal
  BY <1>2, <1>a, <1>b DEF StartTransfer, InFlight, Whole, TypeOK
<1>3. ASSUME NEW l \in Loader, commit_buffer(l) PROVE Goal
  <2> PICK whole \in BOOLEAN, written \in BOOLEAN, opened \in BOOLEAN :
         /\ ss' = [ss EXCEPT ![l] = [ver |-> object, whole |-> whole]]
         /\ temp' = [temp EXCEPT ![l] =
               IF opened THEN [ver |-> object, whole |-> whole /\ written] ELSE NoFile]
         /\ shortWrite' = (shortWrite \/ (opened /\ ~written))
    BY <1>3 DEF commit_buffer
  <2>1. cache' = cache /\ pc' = [pc EXCEPT ![l] = "complete"] /\ failed' = failed
    BY <1>3 DEF commit_buffer
  <2>2. shortWrite => shortWrite'
    OBVIOUS
  <2>3. (shortWrite \/ Whole(cache))'
    BY <2>1, <2>2, <1>a DEF Whole
  <2>4. ASSUME NEW m \in Loader, m # l PROVE InFlight(m)'
    BY <2>1, <2>2, <2>4, <1>a, <1>b DEF InFlight, Whole, TypeOK
  <2>5. InFlight(l)'
    <3>1. ss'[l] = [ver |-> object, whole |-> whole] /\ ss'[l] # NoFile /\ pc'[l] = "complete"
      BY <2>1, <1>b DEF TypeOK, Content
    <3>2. temp'[l] = IF opened THEN [ver |-> object, whole |-> whole /\ written] ELSE NoFile
      BY <1>b DEF TypeOK
    <3>3. CASE opened /\ written
      BY <3>1, <3>2, <3>3 DEF InFlight
    <3>4. CASE opened /\ ~written
      BY <3>1, <3>2, <3>4 DEF InFlight
    <3>5. CASE ~opened
      BY <3>1, <3>2, <3>5 DEF InFlight
    <3> QED
      BY <3>3, <3>4, <3>5
  <2> QED
    BY <2>3, <2>4, <2>5
<1>4. ASSUME NEW l \in Loader, responseCompleteCallback(l) PROVE Goal
  BY <1>4, <1>a, <1>b DEF responseCompleteCallback, InFlight, Whole, TypeOK
<1>5. ASSUME NEW l \in Loader, finalize(l) PROVE Goal
  BY <1>5, <1>a, <1>b DEF finalize, ReturnEarly, Goto, InFlight, Whole, TypeOK
<1>6. ASSUME NEW l \in Loader, RemoveCache(l) PROVE Goal
  BY <1>6, <1>a, <1>b DEF RemoveCache, InFlight, Whole, TypeOK
<1>7. ASSUME NEW l \in Loader, RenameTemp(l) PROVE Goal
  <2>1. shortWrite \/ Whole(temp[l])
    BY <1>7, <1>a DEF RenameTemp, InFlight, Whole
  <2> QED
    BY <1>7, <2>1, <1>a, <1>b DEF RenameTemp, InFlight, Whole, TypeOK
<1>8. ASSUME NEW l \in Loader, get_value(l) PROVE Goal
  BY <1>8, <1>a, <1>b DEF get_value, InFlight, Whole, TypeOK
<1>9. ASSUME NEW l \in Loader, read_cache(l) PROVE Goal
  BY <1>9, <1>a, <1>b DEF read_cache, InFlight, Whole, TypeOK
<1>10. CASE Crash
  BY <1>10, <1>a DEF Crash, InFlight, Whole
<1>11. CASE UNCHANGED vars
  BY <1>11, <1>a DEF vars, InFlight, Whole
<1> QED
  BY <1>1, <1>2, <1>3, <1>4, <1>5, <1>6, <1>7, <1>8, <1>9, <1>10, <1>11 DEF Next

\* An answer comes from memory after a download that succeeded, or from the cache.
LEMMA AnswerStep == IInv /\ [Next]_vars => WholeAnswer'
<1> SUFFICES ASSUME IInv, [Next]_vars PROVE WholeAnswer'
  OBVIOUS
<1>a. (shortWrite \/ Whole(cache)) /\ \A m \in Loader : InFlight(m)
  BY InFlightOfAll DEF IInv
<1>b. TypeOK /\ WholeAnswer
  BY DEF IInv
<1>1. CASE UNCHANGED <<answer, shortWrite>>
  BY <1>1, <1>b DEF WholeAnswer, Whole
<1>2. ASSUME NEW l \in Loader, commit_buffer(l) PROVE WholeAnswer'
  BY <1>2, <1>b DEF commit_buffer, WholeAnswer, Whole
<1>3. ASSUME NEW l \in Loader, get_value(l) PROVE WholeAnswer'
  <2>1. ~failed[l] => Whole(ss[l])
    BY <1>3, <1>a DEF get_value, InFlight
  <2> QED
    BY <1>3, <2>1, <1>b DEF get_value, WholeAnswer, Whole, TypeOK
<1>4. ASSUME NEW l \in Loader, read_cache(l) PROVE WholeAnswer'
  BY <1>4, <1>a, <1>b DEF read_cache, WholeAnswer, Whole, TypeOK
<1>5. CASE Crash
  BY <1>5, <1>b DEF Crash, WholeAnswer, Whole
<1>6. CASE \/ Publish \/ UNCHANGED vars
           \/ \E l \in Loader : \/ StartTransfer(l) \/ responseCompleteCallback(l) \/ finalize(l)
                               \/ RemoveCache(l) \/ RenameTemp(l)
  BY <1>6, <1>1 DEF Publish, vars, StartTransfer, responseCompleteCallback, finalize, RemoveCache, RenameTemp
<1> QED
  BY <1>2, <1>3, <1>4, <1>5, <1>6 DEF Next

\* A copy is given up by a loader that then is at the rename, and has a file.
LEMMA CopyStep == IInv /\ [Next]_vars => CopyKept'
<1> SUFFICES ASSUME IInv, [Next]_vars PROVE CopyKept'
  OBVIOUS
<1>a. \A m \in Loader : InFlight(m)
  BY InFlightOfAll DEF IInv
<1>b. TypeOK /\ CopyKept
  BY DEF IInv
<1>1. ASSUME NEW l \in Loader, RemoveCache(l) PROVE CopyKept'
  BY <1>1, <1>b DEF RemoveCache, CopyKept, TypeOK
<1>2. ASSUME NEW l \in Loader, RenameTemp(l) PROVE CopyKept'
  <2>1. temp[l] # NoFile
    BY <1>2, <1>a DEF RenameTemp, InFlight
  <2> QED
    BY <1>2, <2>1, <1>b DEF RenameTemp, CopyKept
<1>3. CASE Crash
  BY <1>3, <1>b DEF Crash, CopyKept
<1>4. CASE Publish \/ UNCHANGED vars
  BY <1>4, <1>b DEF Publish, vars, CopyKept
<1>5. ASSUME NEW l \in Loader,
             \/ StartTransfer(l) \/ commit_buffer(l) \/ responseCompleteCallback(l)
             \/ finalize(l) \/ get_value(l) \/ read_cache(l)
      PROVE  CopyKept'
  <2>1. UNCHANGED <<cache, everCached, spoiled>> /\ pc[l] # "rename" /\ \A m \in Loader \ {l} : pc'[m] = pc[m]
    BY <1>5, <1>b DEF StartTransfer, commit_buffer, responseCompleteCallback, finalize, ReturnEarly, Goto,
                      get_value, read_cache, TypeOK
  <2> QED
    BY <2>1, <1>b DEF CopyKept
<1> QED
  BY <1>1, <1>2, <1>3, <1>4, <1>5 DEF Next

\* The inductive invariant of read_s3 and struct transfer.
THEOREM TransferInvariant == Spec => []IInv
<1>1. IInv /\ [Next]_vars => IInv'
  BY TypeStep, WholeStep, AnswerStep, CopyStep DEF IInv
<1> QED
  BY InitIInv, <1>1, PTL DEF Spec

\* read_s3 never answers with a part of an object, unless the disk cut a
\* temporary file short, for any number of loaders, failures and crashes.
THEOREM TransferWholeAnswer == Spec => []WholeAnswer
<1>1. IInv => WholeAnswer
  BY DEF IInv
<1> QED
  BY TransferInvariant, <1>1, PTL

\* The copy in the disk cache is missing only between remove and rename, unless
\* a rename failed or a crash came between the two.
THEOREM TransferCopyKept == Spec => []CopyKept
<1>1. IInv => CopyKept
  BY DEF IInv
<1> QED
  BY TransferInvariant, <1>1, PTL
=============================================================================
