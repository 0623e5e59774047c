---------------------------- MODULE SiteRegistry ----------------------------
(***************************************************************************)
(* The registry of loaded sites: Server::getSite and its helpers, which    *)
(* load a site's feed at most once per key, and Server::reloadSite, called *)
(* by the Bus when the CMS announces a new feed (twice per message: by the *)
(* bus thread and again by a thread it spawns).                            *)
(*                                                                         *)
(* sitesMutex protects the map in each helper, so each helper is one step. *)
(* The mutex of a site is held over the whole of getSite, downloads and    *)
(* parsing included; reloadSite does not take it, so a reload can overtake *)
(* a load.  Objects in S3 are versions that only grow; what read_s3 does   *)
(* with the disk cache is the subject of module S3Transfer.                *)
(***************************************************************************)
EXTENDS Naturals, Sequences

CONSTANTS Worker,       \* threads that serve requests
          Subdomain,
          All,          \* the bus message "all"
          Broken,       \* versions of a feed that do not load as a site
          MaxVersion,   \* bound: versions of a subdomain's two objects together
          MaxQueue,     \* bound: messages waiting on the bus socket
          MaxThreads,   \* bound: reload threads not joined yet
          NoSite, NoWorker, NoThread

ASSUME SiteRegistryAssumption ==
    /\ MaxVersion \in Nat \ {0} /\ MaxQueue \in Nat /\ MaxThreads \in Nat
    /\ Broken \subseteq 1..MaxVersion
    /\ All \notin Subdomain
    /\ NoWorker \notin Worker

SiteKey == Subdomain \X BOOLEAN          \* a subdomain and its staging mode
Message == Subdomain \cup {All}
Version == 0..MaxVersion                 \* 0: the empty string
How == {"fresh", "disk", "overtaken"}
Site == [feed : Version, secret : Version, how : How]

VARIABLES
    feed, secret,   \* the objects in S3: subdomain -> version
    sites,          \* key -> Site or NoSite
    siteMutex,      \* key -> the worker that holds the site's mutex
    pc,
    job,            \* job[w]: the key w asks for and the site it is building
    queue,          \* messages on the ZMQ socket
    threads,        \* Bus::run's reload threads not joined yet, in slots
    published       \* history: key -> the versions in S3 at its last reload

vars == <<feed, secret, sites, siteMutex, pc, job, queue, threads, published>>

PC == {"idle", "lock", "find", "feed", "secret", "store", "validate"}
Locked == {"find", "feed", "secret", "store", "validate"}
Building == {"feed", "secret", "store"}
Read == {"secret", "store"}               \* the feed is read, the site not stored
Job == [key : SiteKey, site : Site]
Thread == [sub : Message, done : BOOLEAN]
Slot == 1..MaxThreads

Blank == [feed |-> 0, secret |-> 0, how |-> "fresh"]
-----------------------------------------------------------------------------
Init ==
    /\ feed = [s \in Subdomain |-> 1]
    /\ secret = [s \in Subdomain |-> 1]
    /\ sites = [k \in SiteKey |-> NoSite]
    /\ siteMutex = [k \in SiteKey |-> NoWorker]
    /\ pc = [w \in Worker |-> "idle"]
    /\ job \in [Worker -> {[key |-> k, site |-> Blank] : k \in SiteKey}]
    /\ queue = <<>>
    /\ threads = [i \in Slot |-> NoThread]
    /\ published = [k \in SiteKey |-> Blank]

\* The CMS (external) writes a new feed or a new list of secret keys to S3.
Publish(s) ==
    /\ feed[s] + secret[s] < MaxVersion
    /\ \/ feed' = [feed EXCEPT ![s] = @ + 1] /\ UNCHANGED secret
       \/ secret' = [secret EXCEPT ![s] = @ + 1] /\ UNCHANGED feed
    /\ UNCHANGED <<sites, siteMutex, pc, job, queue, threads, published>>

\* The CMS (external) pushes a message; nothing ties it to a publication.
Announce(m) ==
    /\ Len(queue) < MaxQueue
    /\ queue' = Append(queue, m)
    /\ UNCHANGED <<feed, secret, sites, siteMutex, pc, job, threads, published>>
-----------------------------------------------------------------------------
\* The worker's key and the site it builds.
Key(w) == job[w].key
Build(w, s, to) ==
    /\ job' = [job EXCEPT ![w].site = s]
    /\ pc' = [pc EXCEPT ![w] = to]

\* getSite returns or throws: lockSite is destroyed either way.
Leave(w) ==
    /\ siteMutex' = [siteMutex EXCEPT ![Key(w)] = NoWorker]
    /\ Build(w, Blank, "idle")

\* A request to open a session names a subdomain and a mode.
getSite(w) ==
    /\ pc[w] = "idle"
    /\ \E k \in SiteKey : job' = [job EXCEPT ![w].key = k]
    /\ pc' = [pc EXCEPT ![w] = "lock"]
    /\ UNCHANGED <<feed, secret, sites, siteMutex, queue, threads, published>>

\* Mutant: every call makes a mutex of its own, so nobody is ever kept out.
_get_site_mutex_Fresh(w) ==
    /\ pc[w] = "lock"
    /\ siteMutex' = [siteMutex EXCEPT ![Key(w)] = w]
    /\ pc' = [pc EXCEPT ![w] = "find"]
    /\ UNCHANGED <<feed, secret, sites, job, queue, threads, published>>

\* The lock on the site's own mutex, made on first use.
_get_site_mutex(w) ==
    /\ pc[w] = "lock"
    /\ siteMutex[Key(w)] = NoWorker
    /\ siteMutex' = [siteMutex EXCEPT ![Key(w)] = w]
    /\ pc' = [pc EXCEPT ![w] = "find"]
    /\ UNCHANGED <<feed, secret, sites, job, queue, threads, published>>

\* Mutant: an exception leaves the site's mutex locked.
_getSite_KeepsLock(w) ==
    /\ pc[w] = "find"
    /\ \/ sites[Key(w)] # NoSite /\ Leave(w)
       \/ sites[Key(w)] # NoSite /\ Build(w, Blank, "idle") /\ UNCHANGED siteMutex
       \/ /\ sites[Key(w)] = NoSite
          /\ pc' = [pc EXCEPT ![w] = "feed"]
          /\ UNCHANGED <<siteMutex, job>>
    /\ UNCHANGED <<feed, secret, sites, queue, threads, published>>

\* A site that is loaded is returned, or its validateSecretKey throws: the mutex
\* is released on both ways, so which of the two is left open.
_getSite(w) ==
    /\ pc[w] = "find"
    /\ \/ sites[Key(w)] # NoSite /\ Leave(w)
       \/ /\ sites[Key(w)] = NoSite
          /\ pc' = [pc EXCEPT ![w] = "feed"]
          /\ UNCHANGED <<siteMutex, job>>
    /\ UNCHANGED <<feed, secret, sites, queue, threads, published>>

\* read_s3 of an object whose current version is v: v, or when the download
\* fails an older copy from the disk cache or the empty string.
read_s3(v) == {<<v, "fresh">>} \cup {<<u, "disk">> : u \in 0..v}

\* The stricter of two tags of one site's parts.
Worse(h, i) == IF h = "fresh" THEN i ELSE h

ReadFeed(w) ==
    /\ pc[w] = "feed"
    /\ \E r \in read_s3(feed[Key(w)[1]]) :
          Build(w, [feed |-> r[1], secret |-> 0, how |-> r[2]], "secret")
    /\ UNCHANGED <<feed, secret, sites, siteMutex, queue, threads, published>>

\* The constructor of Site reads the secret keys and parses the feed; a feed
\* that does not parse, or has no root, design or generation node, throws.
LoadXmlDoc(w) ==
    /\ pc[w] = "secret"
    /\ \/ job[w].site.feed \in Broken \cup {0} /\ Leave(w)
       \/ /\ job[w].site.feed \notin Broken \cup {0}
          /\ \E r \in read_s3(secret[Key(w)[1]]) :
                Build(w, [job[w].site EXCEPT !.secret = r[1], !.how = Worse(@, r[2])], "store")
          /\ UNCHANGED siteMutex
    /\ UNCHANGED <<feed, secret, sites, queue, threads, published>>

\* _loadSite puts the site into the map.
_loadSite(w) ==
    /\ pc[w] = "store"
    /\ sites' = [sites EXCEPT ![Key(w)] = job[w].site]
    /\ pc' = [pc EXCEPT ![w] = "validate"]
    /\ UNCHANGED <<feed, secret, siteMutex, job, queue, threads, published>>

\* The site stays in the map whether or not the secret key of this request is
\* one of its keys.
validateSecretKey(w) ==
    /\ pc[w] = "validate"
    /\ Leave(w)
    /\ UNCHANGED <<feed, secret, sites, queue, threads, published>>
-----------------------------------------------------------------------------
\* The keys a message names: both modes of a subdomain, or all of them.
Named(m) == IF m = All THEN SiteKey ELSE {k \in SiteKey : k[1] = m}

\* Mutant: the copy of the site in staging mode is not erased.
reloadSite_NotStaging(m) ==
    /\ sites' = [k \in SiteKey |-> IF k \in Named(m) /\ ~k[2] THEN NoSite ELSE sites[k]]
    /\ published' = [k \in SiteKey |->
          IF k \in Named(m) THEN [feed |-> feed[k[1]], secret |-> secret[k[1]], how |-> "fresh"]
                            ELSE published[k]]
    /\ job' = [w \in Worker |->
          IF pc[w] \in Read /\ Key(w) \in Named(m)
          THEN [job[w] EXCEPT !.site.how = "overtaken"] ELSE job[w]]

\* reloadSite erases the entries.  The history notes what was in S3 at that
\* moment and which loads of these keys the reload overtook.
reloadSite(m) ==
    /\ sites' = [k \in SiteKey |-> IF k \in Named(m) THEN NoSite ELSE sites[k]]
    /\ published' = [k \in SiteKey |->
          IF k \in Named(m) THEN [feed |-> feed[k[1]], secret |-> secret[k[1]], how |-> "fresh"]
                            ELSE published[k]]
    /\ job' = [w \in Worker |->
          IF pc[w] \in Read /\ Key(w) \in Named(m)
          THEN [job[w] EXCEPT !.site.how = "overtaken"] ELSE job[w]]

Running(i) == threads[i] # NoThread /\ ~threads[i].done

\* One turn of Bus::run's loop: reload, join the threads that ended (a
\* timed_join of no time), start a thread that reloads once more.
BusRun ==
    /\ queue # <<>>
    /\ reloadSite(Head(queue))
    /\ queue' = Tail(queue)
    /\ \E i \in Slot :
          /\ ~Running(i)
          /\ threads' = [j \in Slot |->
                IF j = i THEN [sub |-> Head(queue), done |-> FALSE]
                ELSE IF Running(j) THEN threads[j] ELSE NoThread]
    /\ UNCHANGED <<feed, secret, siteMutex, pc>>

\* Bus::reload, the body of such a thread.
BusReload(i) ==
    /\ Running(i)
    /\ reloadSite(threads[i].sub)
    /\ threads' = [threads EXCEPT ![i].done = TRUE]
    /\ UNCHANGED <<feed, secret, siteMutex, pc, queue>>
-----------------------------------------------------------------------------
Serve(w) ==
    \/ _get_site_mutex(w) \/ _getSite(w) \/ ReadFeed(w) \/ LoadXmlDoc(w)
    \/ _loadSite(w) \/ validateSecretKey(w)

Next ==
    \/ \E s \in Subdomain : Publish(s)
    \/ \E m \in Message : Announce(m)
    \/ \E w \in Worker : getSite(w) \/ Serve(w)
    \/ BusRun
    \/ \E i \in Slot : BusReload(i)

Spec == Init /\ [][Next]_vars

\* A worker inside getSite keeps running (libs3 and libxml return).  No
\* fairness for clients, the CMS or the bus.
FairSpec == Spec /\ \A w \in Worker : WF_vars(Serve(w))
-----------------------------------------------------------------------------
TypeOK ==
    /\ feed \in [Subdomain -> 1..MaxVersion]
    /\ secret \in [Subdomain -> 1..MaxVersion]
    /\ sites \in [SiteKey -> Site \cup {NoSite}]
    /\ siteMutex \in [SiteKey -> Worker \cup {NoWorker}]
    /\ pc \in [Worker -> PC]
    /\ job \in [Worker -> Job]
    /\ queue \in Seq(Message)
    /\ threads \in [Slot -> Thread \cup {NoThread}]
    /\ published \in [SiteKey -> Site]

\* The mutex of a site is held by exactly the worker that is inside getSite for
\* its key, so a second request for the key waits and finds the site loaded.
MutexMatchesPC ==
    \A w \in Worker, k \in SiteKey :
       siteMutex[k] = w <=> pc[w] \in Locked /\ Key(w) = k

\* While a worker builds the site of a key, the map has none for that key: two
\* requests never load the same site side by side, and a loaded site is never
\* replaced under the sessions that will share it.
LoadedOnce == \A w \in Worker : pc[w] \in Building => sites[Key(w)] = NoSite

AtLeast(s, p) == s.feed >= p.feed /\ s.secret >= p.secret

\* A reload takes effect: a site in the map is at least as new as S3 was when
\* its key was last reloaded, unless that reload came after the load had read
\* its feed and before it stored the site, or the load used the disk cache.
ReloadTakesEffect ==
    \A k \in SiteKey :
       sites[k] # NoSite => sites[k].how # "fresh" \/ AtLeast(sites[k], published[k])

\* The same for the sites being built, part by part as they are read.
LoadsAreFresh ==
    \A w \in Worker :
       job[w].site.how = "fresh" =>
          /\ pc[w] \in Read => job[w].site.feed >= published[Key(w)].feed
          /\ pc[w] = "store" => job[w].site.secret >= published[Key(w)].secret

\* What was published at a reload is still not newer than what is in S3.
PublishedIsPast ==
    \A k \in SiteKey : published[k].feed <= feed[k[1]] /\ published[k].secret <= secret[k[1]]

\* The inductive invariant of the registry: mutexes, program counters and the
\* map agree, and every part read since the last reload is fresh.
IInv ==
    /\ TypeOK
    /\ MutexMatchesPC
    /\ LoadedOnce
    /\ ReloadTakesEffect
    /\ LoadsAreFresh
    /\ PublishedIsPast

\* A step never puts a site in the place of another one: a site leaves the map
\* only by a reload.
NeverReplaced ==
    [][\A k \in SiteKey : sites[k] # NoSite => sites'[k] \in {sites[k], NoSite}]_vars

\* Every way out of getSite, a return or an exception, gives the mutex of the
\* site back.
MutexReleased ==
    \A k \in SiteKey : siteMutex[k] # NoWorker ~> siteMutex[k] = NoWorker
=============================================================================
