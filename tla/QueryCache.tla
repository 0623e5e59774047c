----------------------------- MODULE QueryCache -----------------------------
(***************************************************************************)
(* Site::fetch_query over the site's LRUCache of compiled queries.  The    *)
(* cache's own mutex covers the lookup and the insertion, not what lies    *)
(* between them: two requests that miss one key both run the query, and    *)
(* the second insertion replaces the entry the first one uses.             *)
(*                                                                         *)
(* Data are the addresses of Query objects.  An object lives as long as a  *)
(* shared_ptr to it does; then its memory is used again.  The nodes that a *)
(* Query lists belong to the site's document, and its destructor reads     *)
(* them (xmlXPathFreeObject).  The site is kept alive by the registry, by  *)
(* its sessions, and by the requests that have found a session.            *)
(***************************************************************************)
EXTENDS LRUCache

CONSTANTS Worker,
          NoKey

VARIABLES pc,        \* "idle", "opening" a session of the site, or in another handler: "handler",
                     \* "build" after a miss, "use" with a query
          key,       \* worker -> the context and query text it asks for
          p_query,   \* worker -> the Query it holds, or NoData
          queryOf,   \* object -> the key it was built for
          owners,    \* which of "sites" and "sessions" have a shared_ptr to the site
          doc        \* the site's document exists

workerVars == <<pc, key, p_query>>
siteVars == <<owners, doc>>
vars == <<cacheVars, workerVars, queryOf, siteVars>>

\* Mutant: a worker's pointer keeps nothing alive.
Live_CacheOnly == {_index[k] : k \in Key}

Live == {_index[k] : k \in Key} \cup {p_query[w] : w \in Worker}

Init ==
    /\ CacheInit
    /\ pc = [w \in Worker |-> "idle"]
    /\ key = [w \in Worker |-> NoKey]
    /\ p_query = [w \in Worker |-> NoData]
    /\ queryOf = [o \in Data |-> NoKey]
    /\ owners = {"sites", "sessions"}
    /\ doc = TRUE

\* process finds the session, and holds it until the handler has returned.
Begin(w) ==
    /\ pc[w] = "idle" /\ "sessions" \in owners
    /\ pc' = [pc EXCEPT ![w] = "handler"]
    /\ UNCHANGED <<cacheVars, key, p_query, queryOf, siteVars>>

End(w) ==
    /\ pc[w] = "handler"
    /\ pc' = [pc EXCEPT ![w] = "idle"]
    /\ UNCHANGED <<cacheVars, key, p_query, queryOf, siteVars>>

\* query_cache.fetch(key, false): a lookup that does not touch the entry.
Lookup(w, k) ==
    /\ pc[w] = "handler"
    /\ key' = [key EXCEPT ![w] = k]
    /\ \/ /\ fetch(k, FALSE)
          /\ p_query' = [p_query EXCEPT ![w] = _index[k]]
          /\ pc' = [pc EXCEPT ![w] = "use"]
       \/ /\ k \notin Cached
          /\ pc' = [pc EXCEPT ![w] = "build"]
          /\ UNCHANGED <<cacheVars, p_query>>
    /\ UNCHANGED <<queryOf, siteVars>>

\* p_query goes out of scope, or its constructor threw.
Drop(w) ==
    /\ p_query' = [p_query EXCEPT ![w] = NoData]
    /\ key' = [key EXCEPT ![w] = NoKey]
    /\ pc' = [pc EXCEPT ![w] = "handler"]

\* new Query(this, key.p, key.s) runs the query without any lock.
BuildQuery(w) ==
    /\ pc[w] = "build" /\ p_query[w] = NoData
    /\ \/ \E o \in Data \ Live :
             /\ p_query' = [p_query EXCEPT ![w] = o]
             /\ queryOf' = [queryOf EXCEPT ![o] = key[w]]
             /\ UNCHANGED <<pc, key>>
       \/ Drop(w) /\ UNCHANGED queryOf
    /\ UNCHANGED <<cacheVars, siteVars>>

\* query_cache.insert(key, p_query), even if the key is there by now.
Keep(w) ==
    /\ pc[w] = "build" /\ p_query[w] # NoData
    /\ insert(key[w], p_query[w])
    /\ pc' = [pc EXCEPT ![w] = "use"]
    /\ UNCHANGED <<key, p_query, queryOf, siteVars>>

Return(w) ==
    /\ pc[w] = "use"
    /\ Drop(w)
    /\ UNCHANGED <<cacheVars, queryOf, siteVars>>
-----------------------------------------------------------------------------
\* reloadSite erases the site, closeSession and the reaper the last session of it.
Release(owner) ==
    /\ owner \in owners
    /\ owners' = owners \ {owner}
    /\ UNCHANGED <<cacheVars, workerVars, queryOf, doc>>

\* getSite finds the site in the registry, and openSession holds it while it waits
\* for sessionsMutex.
getSite(w) ==
    /\ pc[w] = "idle" /\ "sites" \in owners
    /\ pc' = [pc EXCEPT ![w] = "opening"]
    /\ UNCHANGED <<cacheVars, key, p_query, queryOf, siteVars>>

\* The new session has a pointer to the site, which a reload may have erased.
openSession(w) ==
    /\ pc[w] = "opening"
    /\ pc' = [pc EXCEPT ![w] = "idle"]
    /\ owners' = owners \cup {"sessions"}
    /\ UNCHANGED <<cacheVars, key, p_query, queryOf, doc>>

\* Mutant: a request that runs does not keep the site alive.
Held_ByMapsOnly == owners # {}

\* Somebody has a shared_ptr to the site.
Held == owners # {} \/ \E w \in Worker : pc[w] # "idle"

\* The body of ~Site, which frees the document.
FreeDoc ==
    /\ doc /\ ~Held
    /\ doc' = FALSE
    /\ UNCHANGED <<cacheVars, workerVars, queryOf, owners>>

\* Then the members of Site are destroyed, query_cache with the queries in it.
DestroyCache ==
    /\ ~doc /\ Cached # {}
    /\ clear
    /\ UNCHANGED <<workerVars, queryOf, siteVars>>

Destroyed == ~doc /\ Cached = {} /\ UNCHANGED vars

Next ==
    \/ \E w \in Worker : \/ Begin(w) \/ End(w) \/ getSite(w) \/ openSession(w)
                         \/ \E k \in Key : Lookup(w, k)
                         \/ BuildQuery(w) \/ Keep(w) \/ Return(w)
    \/ \E owner \in {"sites", "sessions"} : Release(owner)
    \/ FreeDoc \/ DestroyCache \/ Destroyed

Spec == Init /\ [][Next]_vars

\* Somebody uses the cache's other public operations, which the program itself
\* does not call.
OtherUse == doc /\ OtherOperation /\ UNCHANGED <<workerVars, queryOf, siteVars>>

UsedSpec == Init /\ [][Next \/ OtherUse]_vars
-----------------------------------------------------------------------------
TypeOK ==
    /\ CacheTypeOK
    /\ pc \in [Worker -> {"idle", "opening", "handler", "build", "use"}]
    /\ key \in [Worker -> Key \cup {NoKey}]
    /\ p_query \in [Worker -> Data \cup {NoData}]
    /\ queryOf \in [Data -> Key \cup {NoKey}]
    /\ owners \subseteq {"sites", "sessions"} /\ doc \in BOOLEAN

\* The Query a request works with is the one for the context and text it asked
\* for, and stays so while other requests build, replace and discard entries of
\* the cache, which never leads a key to a Query that was built for another.
OwnQuery ==
    /\ \A w \in Worker : p_query[w] # NoData => queryOf[p_query[w]] = key[w]
    /\ \A k \in Cached : queryOf[_index[k]] = k

\* A request runs its queries, and the last pointer to a Query it has used goes,
\* while the document exists, whatever reloads and closings of sessions take away
\* meanwhile: the only queries left when the document is freed are in the cache.
NodesOutliveQueries ==
    ~doc => \A w \in Worker : p_query[w] = NoData /\ pc[w] # "build"

\* A request has a key while it looks for or works with a query, and a query at
\* no other time; the document is freed when nobody can start a request.
WorkersInPlace ==
    /\ \A w \in Worker : IF pc[w] \in {"build", "use"} THEN key[w] \in Key ELSE p_query[w] = NoData
    /\ ~doc => ~Held

\* The inductive invariant of the requests and the cache they share.
QueryCacheInv == TypeOK /\ CacheInv /\ OwnQuery /\ WorkersInPlace
=============================================================================
