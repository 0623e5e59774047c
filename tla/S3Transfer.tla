----------------------------- MODULE S3Transfer -----------------------------
(***************************************************************************)
(* read_s3 and struct transfer (s3.cpp): download one S3 object into       *)
(* memory and into a temporary file, move the file over the copy in the    *)
(* disk cache, and answer from the disk cache when the download failed.    *)
(*                                                                         *)
(* Two loaders can run at once on one object: the site's mutex is per      *)
(* subdomain and mode, but both modes read the same feed.  Every call on   *)
(* the file system is a step.  The process can crash; its disk survives.   *)
(***************************************************************************)
EXTENDS Naturals

CONSTANTS Loader,      \* threads inside read_s3 of this object
          MaxVersion,  \* bound: versions published of the object
          NoFile       \* no copy in the cache; also the empty answer

Version == 1..MaxVersion

\* Contents of a buffer or file: a version of the object, whole or cut short.
Content == [ver : Version, whole : BOOLEAN]
File == Content \cup {NoFile}

ASSUME S3TransferAssumption == MaxVersion \in Nat \ {0} /\ NoFile \notin Content

VARIABLES object,      \* the version in S3
          cache,       \* the file at cachename
          pc,
          ss, temp,    \* per loader: the memory buffer, the temporary file
          failed,
          answer,      \* per loader: what read_s3 returned last
          everCached,  \* history: a copy was moved into the cache
          spoiled,     \* history: a rename failed, or a crash hit the window
          shortWrite   \* history: a write to a temporary file was cut short

vars == <<object, cache, pc, ss, temp, failed, answer, everCached, spoiled, shortWrite>>

PC == {"idle", "download", "complete", "finalize", "remove", "rename", "exists", "read"}
-----------------------------------------------------------------------------
Init ==
    /\ object = 1
    /\ cache = NoFile
    /\ pc = [l \in Loader |-> "idle"]
    /\ ss = [l \in Loader |-> NoFile]
    /\ temp = [l \in Loader |-> NoFile]
    /\ failed = [l \in Loader |-> FALSE]
    /\ answer = [l \in Loader |-> NoFile]
    /\ everCached = FALSE /\ spoiled = FALSE /\ shortWrite = FALSE

\* The CMS (external) puts a new version of the object.
Publish ==
    /\ object < MaxVersion
    /\ object' = object + 1
    /\ UNCHANGED <<cache, pc, ss, temp, failed, answer, everCached, spoiled, shortWrite>>

\* The constructor of transfer, and S3_get_object sends its request.
StartTransfer(l) ==
    /\ pc[l] = "idle"
    /\ pc' = [pc EXCEPT ![l] = "download"]
    /\ ss' = [ss EXCEPT ![l] = NoFile]
    /\ temp' = [temp EXCEPT ![l] = NoFile]
    /\ failed' = [failed EXCEPT ![l] = FALSE]
    /\ UNCHANGED <<object, cache, answer, everCached, spoiled, shortWrite>>

\* readObjectDataCallback commits a buffer: memory takes it whole, the file as
\* the disk allows (the stream's state is not looked at).  A transfer that is
\* about to break delivers only a part.  temp stays NoFile when the temporary
\* file could not be created.
commit_buffer(l) ==
    /\ pc[l] = "download"
    /\ \E whole, written, opened \in BOOLEAN :
          /\ ss' = [ss EXCEPT ![l] = [ver |-> object, whole |-> whole]]
          /\ temp' = [temp EXCEPT ![l] =
                IF opened THEN [ver |-> object, whole |-> whole /\ written] ELSE NoFile]
          /\ shortWrite' = (shortWrite \/ (opened /\ ~written))
    /\ pc' = [pc EXCEPT ![l] = "complete"]
    /\ UNCHANGED <<object, cache, failed, answer, everCached, spoiled>>

\* Mutant: a broken transfer is not recorded as failed.
responseCompleteCallback_NoStatus(l) ==
    /\ pc[l] = "complete"
    /\ UNCHANGED failed
    /\ pc' = [pc EXCEPT ![l] = "finalize"]
    /\ UNCHANGED <<object, cache, ss, temp, answer, everCached, spoiled, shortWrite>>

\* responseCompleteCallback: S3StatusOK only for a whole object.
responseCompleteCallback(l) ==
    /\ pc[l] = "complete"
    /\ \E ok \in BOOLEAN :
          /\ ok => ss[l].whole
          /\ failed' = [failed EXCEPT ![l] = ~ok]
    /\ pc' = [pc EXCEPT ![l] = "finalize"]
    /\ UNCHANGED <<object, cache, ss, temp, answer, everCached, spoiled, shortWrite>>

Goto(l, to) == pc' = [pc EXCEPT ![l] = to]

\* finalize's early returns: without a temporary file, and after a failed download,
\* when the removal of that file may throw filesystem_error out of read_s3.
ReturnEarly(l) ==
    \/ temp[l] = NoFile /\ Goto(l, "exists")
    \/ temp[l] # NoFile /\ failed[l] /\ \E to \in {"exists", "idle"} : Goto(l, to)

\* Mutant: the cached copy is given up before the outcome is looked at.
finalize_RemoveFirst(l) ==
    /\ pc[l] = "finalize"
    /\ cache' = NoFile
    /\ ReturnEarly(l) \/ (temp[l] # NoFile /\ ~failed[l] /\ Goto(l, "rename"))
    /\ UNCHANGED <<object, ss, temp, failed, answer, everCached, spoiled, shortWrite>>

\* finalize up to the removal of the cached copy.
finalize(l) ==
    /\ pc[l] = "finalize"
    /\ ReturnEarly(l) \/ (temp[l] # NoFile /\ ~failed[l] /\ Goto(l, "remove"))
    /\ UNCHANGED <<object, cache, ss, temp, failed, answer, everCached, spoiled, shortWrite>>

\* remove(cachename); an error throws filesystem_error out of read_s3.
RemoveCache(l) ==
    /\ pc[l] = "remove"
    /\ \/ cache' = NoFile /\ pc' = [pc EXCEPT ![l] = "rename"]
       \/ UNCHANGED cache /\ pc' = [pc EXCEPT ![l] = "idle"]
    /\ UNCHANGED <<object, ss, temp, failed, answer, everCached, spoiled, shortWrite>>

\* rename(tempname, cachename), atomic; its error is caught and logged.
RenameTemp(l) ==
    /\ pc[l] = "rename"
    /\ \/ cache' = temp[l] /\ everCached' = TRUE /\ UNCHANGED spoiled
       \/ spoiled' = TRUE /\ UNCHANGED <<cache, everCached>>
    /\ pc' = [pc EXCEPT ![l] = "exists"]
    /\ UNCHANGED <<object, ss, temp, failed, answer, shortWrite>>

\* get_value: the buffer, or the test for a copy in the cache.
get_value(l) ==
    /\ pc[l] = "exists"
    /\ \/ /\ ~failed[l]
          /\ answer' = [answer EXCEPT ![l] = ss[l]]
          /\ pc' = [pc EXCEPT ![l] = "idle"]
       \/ /\ failed[l] /\ cache # NoFile
          /\ pc' = [pc EXCEPT ![l] = "read"]
          /\ UNCHANGED answer
       \/ /\ failed[l] /\ cache = NoFile
          /\ answer' = [answer EXCEPT ![l] = NoFile]
          /\ pc' = [pc EXCEPT ![l] = "idle"]
    /\ UNCHANGED <<object, cache, ss, temp, failed, everCached, spoiled, shortWrite>>

\* read_cache opens the file again: another loader may have removed it since.
read_cache(l) ==
    /\ pc[l] = "read"
    /\ answer' = [answer EXCEPT ![l] = cache]
    /\ pc' = [pc EXCEPT ![l] = "idle"]
    /\ UNCHANGED <<object, cache, ss, temp, failed, everCached, spoiled, shortWrite>>

\* The process dies and is started again.
Crash ==
    /\ pc' = [l \in Loader |-> "idle"]
    /\ ss' = [l \in Loader |-> NoFile]
    /\ temp' = [l \in Loader |-> NoFile]
    /\ failed' = [l \in Loader |-> FALSE]
    /\ answer' = [l \in Loader |-> NoFile]
    /\ spoiled' = (spoiled \/ \E l \in Loader : pc[l] = "rename")
    /\ UNCHANGED <<object, cache, everCached, shortWrite>>

Next ==
    \/ Publish
    \/ \E l \in Loader :
          \/ StartTransfer(l) \/ commit_buffer(l) \/ responseCompleteCallback(l)
          \/ finalize(l) \/ RemoveCache(l) \/ RenameTemp(l) \/ get_value(l) \/ read_cache(l)
    \/ Crash

Spec == Init /\ [][Next]_vars
-----------------------------------------------------------------------------
TypeOK ==
    /\ object \in Version
    /\ cache \in File
    /\ pc \in [Loader -> PC]
    /\ ss \in [Loader -> File] /\ temp \in [Loader -> File] /\ answer \in [Loader -> File]
    /\ failed \in [Loader -> BOOLEAN]
    /\ everCached \in BOOLEAN /\ spoiled \in BOOLEAN /\ shortWrite \in BOOLEAN

Whole(f) == f # NoFile => f.whole

\* read_s3 never answers with a part of an object, whatever broke and whoever
\* else was moving files: the download was whole, or the file came from one
\* that was.  Only a temporary file the disk cut short gets around it.
WholeAnswer == shortWrite \/ \A l \in Loader : Whole(answer[l])

\* Once an object was cached, its copy is missing only while some loader is
\* between remove and rename: a failed download never costs the copy.  A
\* rename that fails, or a crash between the two, does.
CopyKept ==
    everCached /\ ~spoiled /\ cache = NoFile => \E l \in Loader : pc[l] = "rename"

\* What a loader is about to move into the cache is whole, or the disk cut it.
WholeInFlight ==
    /\ shortWrite \/ Whole(cache)
    /\ \A l \in Loader :
          /\ pc[l] \in {"remove", "rename"} => temp[l] # NoFile /\ ~failed[l]
          /\ pc[l] \in {"complete", "finalize", "remove", "rename", "exists"} => ss[l] # NoFile
          /\ temp[l] # NoFile /\ ss[l] # NoFile => shortWrite \/ (ss[l].whole => temp[l].whole)
          /\ pc[l] \in {"finalize", "remove", "rename", "exists"} /\ ~failed[l] => Whole(ss[l])

\* The inductive invariant of a transfer.
IInv == TypeOK /\ WholeInFlight /\ WholeAnswer /\ CopyKept
=============================================================================
