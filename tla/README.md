# TLA+ models of VaeDB

VaeDB is an in-memory database that serves the content of web sites made with
the Vae CMS. One process, many threads: HTTP workers answer JSON requests of PHP
scripts, a bus thread takes reload messages from the CMS, a reaper thread removes
old sessions. Sites come from S3 (with a disk cache behind it), shared caches and
locks live in MySQL and memcached, and both are reached through pools of
connections.

This directory models the parts of that program whose correctness depends on the
order in which threads, statements and failures happen, the pointers that a
loaded site consists of, the arithmetic of pagination and the comparison of
results. The models are checked by TLC on small instances; the safety properties
that hold are also proved with TLAPS for every value of the constants. All paths
below are relative to the repository.

Contents: [inventory](#inventory), [modules](#modules-and-how-they-follow-the-code),
[runs](#runs), [bounds](#bounds), [fairness](#fairness), [proofs](#proofs),
[what was found](#what-was-found), [what is left out](#what-is-not-modelled),
[plan](#plan), [how to run](#how-to-run).

## Inventory

| Component | State | Operations | What makes it correct |
|---|---|---|---|
| Connection pools (`mysql_proxy.cpp`, `memcache_proxy.cpp`) | map connection -> free / in use, counter, mutex, condition variable | `getConnection`, `freeConnection`, `garbageCollect`, every operation as a user | one user per connection, no lost wakeup, the "Should never get here" throw is not reached |
| Site registry (`server.cpp`, `site.cpp`) | `sites`, `siteMutexes`, `sitesMutex` | `getSite`, `_getSite`, `_get_site_mutex`, `_loadSite`, `validateSecretKey`, `reloadSite` | a site is loaded once, never replaced in place; a reload takes effect; the site's mutex is always released |
| Bus (`bus.cpp`) | ZMQ socket, vector of threads | `run`, `reload` | every message reloads |
| S3 transfer (`s3.cpp`) | object in S3, memory buffer, temporary file, cached file | `transfer`, `commit_buffer`, `finalize`, `get_value`, `read_cache` | never a part of an object; the cached copy survives failed downloads |
| Session table and reaper (`server.cpp`, `session.cpp`, `reaper.cpp`) | `sessions`, `createdAt`, the clock | `process`, `openSession`, `closeSession`, handlers, `Reaper::Run` | nobody gets another's session; none is reaped early; all are reaped in the end |
| Sitewide lock (`mysql_proxy.cpp`, `db/schema.sql`) | table `locks` | `lock`, `unlock` | leases exclude each other; the row of a dead client goes away |
| Long term cache (`server.cpp`, `mysql_proxy.cpp`, `memcache_proxy.cpp`) | table `kvstore`, copies in memcached | `longTermCacheGet`, `Set`, `Delete`, `Empty`, `SweeperInfo` | copies agree with rows, or not for long; rows are not lost |
| LRU cache (`lru_cache.h`) | list, index, size | `clear`, `remove`, `touch`, `fetch`, `fetch_ptr`, `insert` | list and index agree; the least recently used entry goes |
| Query cache (`site.cpp`) | one LRU cache of `Query` objects per site, the site's document, the pointers to the site | `fetch_query`, `~Site` | a request works on its own query for as long as it needs it, and the document is there as long |
| Response (`response.cpp`) | options, window, contexts | `Response::query`, `sortCallback` | the window is within the results; pages and groups partition them; the sort's comparison is an order |
| Natural comparison (`util.cpp`) | none | `tokenize_string`, `merge_floats`, `str_compare_nat` | a strict weak order; numbers by value |
| HTTP server and dispatch (`server.cpp`) | none of its own | `process` | every way out ends the request's log entry |
| Responses of a session (`session.cpp`) | vector `responses` | `get`, `data`, `structure`, `createInfo` | an id leads to the response it was answered for; an invalid id is refused |
| Query log (`query_log.cpp`) | counter, stream | `QueryLogEntry` and its destructor | numbers are distinct, one block per request |
| Data of contexts (`context.cpp`) | map `data`, `dataPopulated`, mutex | `getData`, `getCount`, `populateData` | a reader sees all fields or waits |
| Feed loading (`site.cpp`, `context.cpp`) | libxml2 tree, `Context` objects, `nodes`, `associationsToInitialize`, lists of nodes to clean | `Context::Context`, `initializeAssociation`, `loadXmlDoc`, `~Site` | pointers stay valid, associated nodes see each other, everything is freed once |
| Session cache (`mysql_proxy.cpp`, `db/schema.sql`) | table `session_data` | `sessionCacheGet`, `Set`, `Delete`, `garbageCollect` | the last value stored is read; sites do not disturb each other; expired rows go |
| Short term cache | memcached | `shortTermCacheGet`, `Set`, `Delete` | one call each on memcached |
| Queries (`query.cpp`) | a libxml2 result | `Query` | text is rewritten to XPath and evaluated |
| Start-up, logger, HTTP library, JSON, ZMQ headers | settings | | |

How they interact. A request passes `Server::process`, which looks the session up
under `sessionsMutex` and calls the handler with a `shared_ptr` to it.
`openSession` calls `getSite`, which holds the site's own mutex while `read_s3`
and the constructor of `Site` run. The cache and lock handlers call the proxies,
each of which takes a connection from its pool for one operation. `get` builds a
`Response`, which asks its site's query cache. The bus thread calls `reloadSite`,
which takes `sitesMutex` only. The reaper takes `sessionsMutex`, then a
connection of MySQL's pool.

What is hard to test here: a reload that overtakes a load; a thread woken for a
connection that somebody else took; two `Set`s of one key that interleave their
`DELETE` and `INSERT`; a `Get` that writes to memcached what it read before a
change; the window between `remove` and `rename`; memory and IDs used again while
a request still holds them; two requests of one session in the same vector; a
mutex that is released in the statement that takes it; a table whose key is less
than what its statements name; locks of clients that died or overran; rounding of
the clock; overflow in the arithmetic of pages; lists that several nodes of a
document share. `PROJECT.json` lists each with its line and the properties that
would show it going wrong.

## Modules and how they follow the code

Every module that is checked has an `MC` module with the definitions of its
instance. A `..Proofs` module holds the theorems of a component. Definitions keep
the names of the functions they model; `PROJECT.json` maps each to its lines.
Definitions with a suffix such as `_Missing` are mutants: faulty versions that
stand before the real one and are not used by any specification. They show that
a property would notice such a fault.

**ResourcePool, ConnPool.** `ConnPool` is both pools: the code is the same twice.
A critical section under `poolMutex` is one action; `cond.wait` splits
`getConnection` into `Wait` and `getConnection`, with spurious wakeups. The map is
ordered, and the first free connection is taken. An operation holds the handle
`con` and perhaps a statement `stmt` that uses the connection until it is
destroyed. Workers destroy the statement first, the `Collector` (the reaper in
`garbageCollect`) last. `Init` opens any subset of the connections, as
`createConnection` may return NULL. `ResourcePool` says what callers rely on:
handles are exclusive.

**SiteRegistry.** Feeds and lists of secret keys in S3 are version numbers. A
worker in `getSite` goes through `lock`, `find`, `feed`, `secret`, `store`,
`validate`, one step per critical section or download; exceptions are ways back
to `idle` that release `siteMutex`. `read_s3` gives the current version, or an
older one or nothing when the download fails. `BusRun` is one turn of `Bus::run`:
the reload, the joins, and the new thread that reloads a second time
(`BusReload`). `published` and `how` are history: what S3 had at the last reload
of a key, and whether a load was overtaken by a reload or used the disk cache.

**S3Transfer.** One object, several loaders (the two modes of a site read the
same feed under different mutexes), one step per call on the file system. A
buffer or file is a version, whole or cut short. Writes, renames, removals and
downloads fail; a removal that fails throws out of `read_s3`; the process crashes and starts again with the disk as it was.

**Sessions.** IDs lead to objects; an object whose last `shared_ptr` is gone is
memory that the next session may get. Time passes in half seconds while
`time(NULL)` counts whole ones, and the reaper reads the clock before it has the
mutex, so `KeptForScript` compares real ages with what the reaper computed.
`mysqlUp` is FALSE when MySQL's pool has no connection: `garbageCollect` then
never returns.

**SitewideLock.** A row of `locks` per key, with the client whose `INSERT` made it
(the table does not say), its age, and what each client was told. Statements fail
before or after they took effect; clients die or overrun.

**LongTermCache.** A row of `kvstore` and a copy in memcached per key, and one
step per call to either. `overtaken`, `tainted` and `stored` are history:
a worker is overtaken when the row changes under the value it is about to copy,
or when it knows that its own statement failed; a copy is tainted when such a
worker wrote it, when a call that should have replaced or removed it failed, or
when `Empty` or the sweep took its row away.

**LRUCache, QueryCache.** The template with its list, index and count; `newer`
(which of two keys was used later), `latest` and `removed` are history. `QueryCache` extends it with requests in
`Site::fetch_query`, where lookup, construction and insertion are three steps,
and with the lifetime of the site: `reloadSite` and the end of the last session
drop their pointers at any time (`Release`), `openSession` takes one from the registry
(`getSite`) and gives it to the new session, a request holds one from `Begin` to
`End`, and when nobody does `FreeDoc` and `DestroyCache` are the body of `~Site`
and the destruction of its members, in this order. The program calls `fetch` with
`touch_data` false only, so in use the cache discards the entry inserted first,
whether or not it was used since. `UsedSpec` lets the other operations of the
template happen between those of the requests, so that all of them are checked
and proved about; `Spec` is the program as it is.

**NaturalOrder, Paging.** `NaturalOrder` is `str_compare_nat`: tokens in turn,
numbers with a dot merged, numbers compared as multiples of a small unit. The loops
over characters and tokens are recursive functions, one turn of each an operator
(`Extend`, `Merge`, `Scan`). `Paging`
is `Response::query` in steps, on ints up to `IntMax` that wrap around. A
conversion to int that is undefined gives the smallest int, zero or the largest.
A node of the result may match the filter or not and may have a context or not,
and has what it can be sorted by: an id, a text, a count. `sortCallback` goes
through the fields of the order. `std::sort` is any order that the comparison
allows, and any permutation where the comparison is no strict weak order.

**Workers, QueryLog, SessionResponses, ContextData, Requests.** `Requests` is
`Server::process` from the parsed body to each of its ways out, for several
requests of one session. It composes three components that have their state and
operations in a module each, over the requests that `Workers` declares:
`QueryLog` (the increment and the output are two steps each, as the
`scoped_lock` is a temporary), `SessionResponses` (the vector `responses`:
reading its size, the beginning and the end of `push_back`, and the lookup with
the conversion of an int to `size_t`) and `ContextData` (the test of
`dataPopulated`, the loop of `populateData` under the mutex, and the copy without
it). Where the behaviour of the program is undefined (`push_back` beside another
use of the vector, an element that does not exist) the model stops and
`undefined` says why.

**SessionCache.** A row of `session_data` per id, as its primary key has it, while
the statements name the id and the subdomain. One step per statement; a statement
fails before or after it took effect. `latest`, `lost` and `actor` are history:
what the last `Set` or `Delete` of a site and id left, why it did not, and whose
handler took a step.

**SiteLoad.** The libxml2 nodes as functions `children`, `next`, `last`, `parent`,
`properties` and `_private` on numbers, with what is allocated. `LoadContexts` is
the parsed document with a `Context` for every element, without the elements
that staging removes; `initializeAssociation` links one association, or unlinks
and frees it when it names no node (the associations wait in the order of the document); `CloseSite` is `~Site` with `freeContexts`
and `xmlFreeDoc`. A feed is given by the kinds of its nodes, their parents, the
numbers that associations hold, the ids and the staging marks. It is supposed
that associations are children of items and do not name each other, as in the
feeds the CMS writes, and that the types they name are in the design.

## Runs

| Run | Distinct states | Shows |
|---|---|---|
| `conn_pool` | 4 675 | `NeverGetsThere`, `WorkersExclusive`, `NoLostWakeup`, and `AbstractSpec`: the pool implements `ResourcePool`; `WaiterServed` |
| `conn_pool_exclusive` | violated | `ExclusiveUse`, see [what was found](#what-was-found) |
| `site_registry` | 539 082 | `LoadedOnce`, `ReloadTakesEffect`, `NeverReplaced`, `MutexReleased` |
| `s3_transfer` | 340 713 | `WholeAnswer`, `CopyKept` |
| `sessions` | 424 592 | `OwnSession`, `KeptForScript`, `EventuallyReaped` |
| `sitewide_lock` | 33 448 | `LeaseExclusive`, `DeadRowPurged` |
| `long_term_cache` | 107 136 | `CopyMatchesRow`, `RowKept`, `Converges` |
| `query_cache` | 212 012 | `OwnQuery`, `NodesOutliveQueries`, `ListMatchesIndex`, `LeastRecentGoes` |
| `paging` | 423 882 | `ReadsInRange`, `PageIsSlice`, `GroupIsBalanced`, `ComparesConsistently`, `NumbersByValue` |
| `requests` | 645 043 | `NumbersDistinct`, `RightResponse`, `OutsideOnlyForZero`, `WholeCopies`, `LoggedOnce` |
| `session_cache` | 113 080 | `LastSetAnswered`, `KeptFromOthers`, `ExpiredGo` |
| `site_load` | 139 712 | `NoDangling`, `BothWays`, `LastIsLast`, `FreedOnce` |

No run turns the check for deadlocks off.

What the conditions of the properties say about the code:

- `ReloadTakesEffect` excepts loads that a reload overtook. `reloadSite` does not
  wait for a load, so a feed read before the reload can be stored after it, and
  then stays until the next message. The second reload by the spawned thread
  makes this less likely and does not exclude it.
- `CopyKept` excepts a failing rename and a crash between `remove` and `rename`.
  A rename alone would replace the file atomically.
- `WholeAnswer` excepts temporary files that the disk cut short: the stream's
  state is never looked at, so such a file is cached as if it were whole.
- `LeaseExclusive` holds until somebody unlocks after his minute is over:
  `unlock` deletes whatever row the key has, possibly the next client's.
- `OwnSession` lets `closeSession` erase a newer session with the same ID: it
  looks the ID up a second time, after the session that `process` found may have
  been reaped.
- `CopyMatchesRow` lists the ways in which memcached and MySQL come to disagree;
  `Converges` says that none of them lasts longer than the copy's day.
- `RightResponse` excepts requests that another `get` of their session overtook
  between reading `size()` and the end of its `push_back`: both then answer the
  same id. `NumbersDistinct` excepts pairs of which one took its number while
  another request was between reading and writing the counter.
- `OutsideOnlyForZero`: `data` and `structure` do not refuse the `responseId` 0 and
  read the element before the first. Negative ids are refused because they
  are converted to a large `size_t`.
- `LastSetAnswered` excepts a `Set` that found the row of another site, or a `Set`
  of the same site between its two statements: its value is not stored, and it
  answers as if it were. Another site's row blocks an id until it has expired and
  was collected, which `ExpiredGo` says does happen.
- `NoDangling`, `BothWays` and `LastIsLast` except sites in which an association
  that names no node was removed from a list that other nodes had been given
  before: their first or last child may then be the freed node.
- `BothWays` says that an association which is the first to a node without children
  stays without the node's children. Such an association is given the end of the
  list (`context.cpp:115`) before the pointer node is added to the node
  (`context.cpp:130`), and its `next` is not set again: neither that pointer node nor
  any later one is seen from it (`Blind`). Every other association has the children
  of its node, those that are linked later too.
- `NodesOutliveQueries` is about the queries of requests; those that are in the
  cache when the site goes are destroyed after the document.
- `ComparesConsistently` excepts ids in descending order where two contexts have
  the same, and different numbers less than `EPS` apart.
- `EventuallyReaped` and `WaiterServed` need a pool with at least one connection.
  If none could be opened at startup, the reaper stops in its first turn.

## Bounds

- Threads: three workers and the reaper over two connections give waiters, a free
  connection and a competitor at once, the smallest case of a lost wakeup. Two
  requests for one key are enough for a double load, and the proof covers more.
  Two workers in `long_term_cache` are enough for every pair of handlers to run
  into each other; that more of them change nothing is proved.
- Two session objects for two IDs and two requests: memory that a request still
  points to is not used again, memory that nobody points to is.
- `MaxVersion = 3` bounds the versions of a subdomain's two objects together: one
  publication, of the feed or of the secret keys, so that a site that is stored may
  have an old one of either and there is an older version to fall back to. `Broken`
  is empty: the feed that does not load is the empty one of a failed download, and the
  proof covers any. `MaxQueue` and
  `MaxThreads` bound messages and reload threads; with one slot a second message
  is taken while the first one's thread has ended or waits until it has.
- `ReapTime = 2`, `MaxLag = 1`, `Lease = 2`: small times with every comparison on
  both sides of its edge. Ages stop counting where no comparison can tell them
  from more. Days and half days do the same for rows and copies, `RenewBelow = 1`
  for the ten days of the code.
- A cache of 2 entries for 3 keys is filled and overflows; four objects suffice for
  what two workers and two entries can hold.
- Three requests in `requests`: one to be overtaken, one that overtakes it and one
  that asks for the id; two overlapping increments and a third that gets a number
  again. `MaxId = 2` lets the counter start again from 0, `IntMax = 3` and
  `SizeMax = 7` make -1 the last `size_t`. Two fields make a copy that is neither
  empty nor whole.
- One id in `session_cache` used by two sites, and two values: different ids do not
  touch each other's rows. `Lifetime = 2` is the two days of the code.
- `site_load` takes every feed of four nodes with one staging mark, and every
  feed of five with at least two associations: enough for two associations of
  one node, for two items that name each other, for an association whose own item
  is linked later, and for one that is removed in between.
- `Paging` has ints of 6 bits (`IntMax = 31`): the window is computed as in 32 bits, and a
  page of 20 overflows at page 3 as the default page of 99999999 does at page 23.
  Options go from below zero to beyond the results; `groups` below, equal to and
  beyond the page reach the division by zero. Every list of at most three nodes
  is a result, and for groups also lists of five, seven and eight plain nodes.
  For the sort, all triples of fourteen texts: empty, numbers with leading zeros,
  with one and two dots, with a dot at the end, close to each other, behind
  letters. `EPS` is a fifth (1e-10 in the code), so that short texts are close.

Symmetry is used over threads, keys, values and objects in the runs of
`S3Transfer`, `QueryCache` and `Requests`, which check no liveness property; the
runs that do check one use none.

## Fairness

`Spec` has none. The `FairSpec`s assume only that a thread which is running
continues and that calls to other systems return or fail:

- `ConnPool`: weak fairness of a thread that was woken or holds a connection. An
  idle thread may stay idle. `WaiterServed` supposes that the others stop
  competing, since `notify_one` promises nothing about who wins the mutex.
- `SiteRegistry`: weak fairness of a request inside `getSite`. Clients, CMS and
  bus may do nothing.
- `Sessions`: time passes and the reaper's thread runs. `garbageCollect` is taken
  only when it can return.
- `SitewideLock`: time passes, a request ends, and (strong fairness) MySQL does
  not fail every purge. Nobody is obliged to ask for a lock: `DeadRowPurged`
  supposes that somebody does.
- `LongTermCache`: time passes in memcached and a request ends.
- `SessionCache`: weak fairness of `garbageCollect`. The reaper calls it every two
  seconds, and MySQL does not fail it every time.

## Proofs

Eight modules hold theorems, for all values of the constants under the assumptions
named in the component modules: finite sets of threads and connections and
ordered connections in `ConnPoolAssumption`, that `INT_MAX` is at least 1, that a list of
results is no longer than that and that numbers in texts have at most `Decimals` decimals
in `PagingAssumption` (a number of units is an integer then), that feeds are numbered in the
order of the document with associations inside items and naming none but items in
`SiteLoadAssumption`, that `size_t` holds twice the ints
and the requests are fewer than `size_t` has room above the ints in
`SessionResponsesAssumption`; otherwise only that markers such as `NoSite` or `NoKey`
are not what they mark and that bounds are numbers.

| Module | Theorems | Argument |
|---|---|---|
| `ConnPoolProofs` | `PoolInvariant`, `PoolNeverGetsThere`, `PoolNoLostWakeup`, `PoolWorkersExclusive`, `PoolRefinesResourcePool` | `IInv` ties the counter to the number of free entries, the entries to the handles and the handles to the program counters. Without the first the throw could be reached, without the second a handle could be given twice. Each action changes one entry and one handle; cardinalities change by one. |
| `SiteProofs` | `RegistryInvariant`, `RegistryLoadedOnce`, `RegistryReloadTakesEffect`, `RegistryNeverReplaced` | The holder of a site's mutex is the worker inside `getSite` for its key, so at most one builds. What a load has read since the last reload is at least as new as that reload, because versions in S3 only grow. |
| | `LoadInvariant`, `LoadTyped`, `NothingDangles`, `EndsSeeEachOther`, `EndsAreEnds`, `AllFreedOnce` | `LoadIInv` says of every list of the document which nodes are in it, what is allocated, and who owns each context and property list. See below. |
| `SessionsProofs` | `SessionsOwn`, `SessionsKeptForScript`, `SessionsNeverTakenOver` | An object is given to a new session only when no pointer leads to it. For `KeptForScript`, arithmetic: a clock age above the limit in whole seconds is at least half a second above it in real time. |
| `SqlTablesProofs` | `LockInvariant`, `LockLeaseExclusive` | Until a late unlock, a client within its lease owns the row of its key, as old as its lock: the purge leaves it and an `INSERT` of another fails. |
| | `SessionCacheLastSetAnswered`, `SessionCacheKeptFromOthers` | The row of an id is what `latest` says of its site, unless `lost` has a reason; a worker between its two statements is such a reason. A statement that names the subdomain removes only rows of its own site, so a row goes by its owner or by its age. |
| `LongTermCacheProofs` | `CacheInvariant`, `CacheCopyMatchesRow`, `CacheRowKept` | The invariant adds `HoldersKnow`: a worker that was not overtaken holds the row's value, so the copy it writes agrees. A writer exempts its key until it has written the copy. |
| `S3TransferProofs` | `TransferInvariant`, `TransferWholeAnswer`, `TransferCopyKept` | `WholeAnswer` speaks of answers only. `WholeInFlight` follows them back: what is in the cache was a temporary file, what is in a temporary file is as whole as the buffer, and a buffer that did not fail is whole. `CopyKept` needs that a loader at the rename has a file to move. |
| `QueryProofs` | `QueryCacheListMatchesIndex`, `QueryCacheLeastRecentGoes` | `CacheInv`: keys of the list are distinct and cached, the index leads to their data, the count is the length, and the list is sorted by `newer`. Erasing one entry keeps the order of the others, and what leaves at the end was used before all that stays. |
| | `QueryCacheOwnQuery`, `QueryCacheNodesOutliveQueries` | An object is built only when neither the index nor a request leads to it, so `queryOf` of an object in use does not change. A request between `Begin` and `End` holds the site, and so does one in `openSession`, so the document goes when all of them are idle. |
| | `PagingReadsInRange`, `PagingPageIsSlice`, `PagingGroupIsBalanced` | `PagingInv` follows the window through the steps of `query`: its place after `PageStart` or after each turn of `GroupLoop` (`PagesInv`, `GroupsInv`), then what the loops take of it and the sort cuts out (`WindowInv`). See below. |
| | `PagingComparesConsistently`, `PagingNumbersByValue` | Comparing element by element keeps a strict weak order, whether the elements are characters, tokens or fields. `OrderInv` adds that the results are sorted wherever the comparison is an order. See below. |
| `RequestsProofs` | `RequestsLoggedOnce`, `RequestsNumbersDistinct` | `LogInv`: a request that was counted alone has a number that the counter has passed, and is at its end when its block is written. With more requests than numbers the counter starts again, so `RequestsNumbersDistinct` supposes that there are at most `MaxId + 1`. |
| | `RequestsRightResponse`, `RequestsOutsideOnlyForZero` | `ResponsesInv`: a response that nobody overtook is in the place its id says, and what a lookup found was there. Of the ids that pass the test, only 0 has no element. |
| | `RequestsWholeCopies` | `ContextInv`: while the data is not populated, it is filled by the holder of the mutex only, and whoever copies has seen it populated. |

Each action has a lemma or a step of its own, and the theorems follow by temporal
logic from the initial condition and the step. The inductive invariants are defined in
the modules they are about (those of `Sessions` and `SiteLoad` beside their proofs) and were checked by TLC on the instances of the runs
first. `SessionsNeverTakenOver` states an action property that no run checks; the
other theorems about properties have their run.

The argument about pages. `Kept`, what a loop takes of a sequence, is a recursive
function. That such a function exists, and what it computes, is proved by induction
up to the length of the sequence (`Induct`, from the least element of a set of
naturals): it is not longer than the sequence, and the sequence itself if every
member is taken. `Parts` is the arithmetic of the groups: with `n = q g + r`, the `i`-th
part starts behind `(i - 1) q + min(i - 1, r)` results, and rounding up what is left,
divided among the parts that are left, gives its length. A part may be empty, in which case it starts at
the end, so that the correction of its length to 1 does no harm; and with a skip
beyond the results the loop goes backwards, but never to before the end
(`CeilNotPositive`). `Wrap` and `Quotient` are shown to do nothing unexpected where the options
are plain. The model takes `ceil` of the exact quotient, which the code's division in
`float` gives for fewer than 2^24 results; beyond that the theorems say nothing about
the code.

The argument about the order. `WeakOrder(V, L)` is a strict weak order as asymmetry and
"what is before something is before, or behind, any third". `LexOrder` says that sequences
compared element by element (`LexLess`) are in such an order if their elements are, each
place with an order of its own. It is used three times. `operator<` of
strings compares codes. The tokens of a text take turns, texts at odd places and numbers or
nothing at even ones (`Tokens`, kept by each turn of the loops of `tokenize_string` and
`merge_floats`), so tokens at one place are of one kind; two of them that `str_compare_nat`
passes over are tied in the order, which is where numbers that are close would break it
(`TokenOrder`). And `sortCallback` compares fields, those behind the first
id never being looked at. That a function such as `tokenize_string` computes what its loop
does is `FoldExists`, by induction on the length of the text; what each turn keeps holds in the
end by `Throughout`. `OrderInv` knows of a
sorted list that no element is behind one that it is before, if the comparison of its elements is an
order, which `ComparesWell` shows. For `NumbersByValue`, a decimal number is one token
(`DecimalTok`: digits, dot and digits are joined to the text they came from), so the comparison
of two of them is that of their values. The model computes with the exact decimals where
the code converts to `double` (`util.cpp:103-105`). Different numbers of more than about 15
digits can be the same `double`, and a difference as small as rounding may fall on either
side of `EPS`; of such numbers neither the run nor the theorems say anything.

The argument about feeds. Nodes are numbered in document order and every pointer node is
behind them, so a list of children is a set of numbers, `ListOf(x)`: it begins at the
least, and `next` leads to the least of the later ones. `LoadIInv` says that at every moment
of the loading `children`, `next`, `last` and `parent` have the values which that set gives
them (`Lists`), which nodes, contexts and property lists are allocated (`Allocated`), whose
they are (`Own`), and, until an association that names no node is removed from a shared list, that both
ends of an association have the same children (`Sharing`), except where the association was the first
to a node without any (`Blind`). `initializeAssociation` adds a pointer node behind
all others of one list, or takes an association out of one; each changes the set by one
element. `BothWays` and `LastIsLast` then are facts about least and greatest elements.
`NoDangling` and `FreedOnce` speak of what is reached: the recursive function `Reach` adds
what the nodes found so far point to, round after round. Each round but the last adds a node, so
as many rounds as there are nodes reach a set that is closed (`ReachClosed`), and nothing
outside a closed set is ever reached (`ReachLeast`). Every node of the feed that was not removed is reached
by induction on its number (`Descent`), so `~Site` reaches exactly the nodes that are allocated
(`AllReached`); at that time no two of them own the same context or list (`OwnApart`), so nothing is freed twice.

Only model-checked is liveness, which the prover does not handle: `WaiterServed`,
`MutexReleased`, `EventuallyReaped`, `DeadRowPurged`, `Converges`, `ExpiredGo`.

## What was found

- `conn_pool_exclusive`: `garbageCollect` declares its statement before its
  connection (`mysql_proxy.cpp:86-87`), so the connection goes back to the pool
  before the statement is destroyed, and a request may get it meanwhile. The
  other operations declare them the other way round.

That is the one place where the code contradicts what it says of itself. The
models also show behaviour that the properties have to except, listed above, and
reading the code for them brought up these:

- `fetch_ptr` ignores its parameter `touch` (`lru_cache.h:166-173`). Nothing in the
  program calls it.
- `~Site` frees the document (`site.cpp:47`) before the member `query_cache` is
  destroyed, and the destructor of a cached `Query` reads nodes of the document
  (`xmlXPathFreeObject`).
- Concurrent `get`s of one session answer one id twice, and run `push_back` beside
  each other (`session.cpp:57-58`). `data` and `structure` accept the `responseId` 0
  (`session.cpp:36`, `72`).
- `boost::mutex::scoped_lock(_log._mutex)` is a temporary (`query_log.cpp:5`, `61`).
  A late write puts the counter back, so that requests that overlapped nobody
  repeat numbers too.
- An association that is not found stays in `nodes` and `permalinks`
  (`context.cpp:146-149`). Elements without an id share `nodes[0]`, which is the last
  of them. An association's own `last` is not updated when the list it shares
  grows.
- The first association to an item without children never sees any, although the
  item gets pointer nodes, its own among them, and later associations to the same item
  see them all (`context.cpp:115`, `130`). What a query finds below an empty item so
  depends on which of its associations it comes through. No comment or document
  says otherwise.
- A feed without a generation throws after the contexts were linked
  (`site.cpp:114-121`); the destructor does not run, and the document stays.
- `uniqueMatch` follows the context of a node that may have none. The comment in
  `query.cpp` that `size` is not initialized does not apply, as `find` always sets
  the result.
- The keys of the caches contain the subdomain, and not whether a session is a
  staging one: both modes of a site share their entries.
- With a descending id `sortCallback` puts contexts of equal ids before each other.
  libstdc++ stays in range for up to 16 elements whatever the comparison says, and
  relies on it above. An id always decides, so that fields behind it are never
  looked at.
- `tokenize_string` compares the result of `isdigit` with a boolean. This works as
  long as `isdigit` gives 0 or 1, which GCC's builtin does and the function of the
  library does not.

## What is not modelled

- Query text (`query.cpp`) and its evaluation by libxml2: rewriting of strings with
  regular expressions and a library. A `Query` is an object built for a key, or an
  exception; `Query::find` is part of `SiteLoad`.
- Which nodes the terms of a filter match, and the JSON of responses and structures
  (`response.cpp`, `session.cpp`): `Paging` leaves the matches open.
- The short term cache: one call each on memcached, through the pool that is
  modelled, on keys that nothing else reads.
- The text of log lines (`query_log.h`, `logger.cpp`), and of a block of the query
  log more than that it is written.
- Test mode (`testMode`), option parsing and wiring (`main.cpp`), the table of
  endpoints and the HTTP library.
- `json.hpp` and `zmq.hpp`, which are vendored: they are 15 445 of the 18 863 lines of
  C++ in the repository. Of the 3 418 lines that are the project's own, the
  definitions of the models are mapped to 1 617 (47%).

## Plan

The order is that of what matters most when it goes wrong.

1. Done, with proofs of all safety properties: pools, site registry, sessions, sitewide
   lock, long term cache and S3 transfer; query cache with the lifetime of its site,
   pagination and order, requests of a session with query log, responses and contexts,
   session cache, and feed loading.
2. Worth stating next: a register that `LongTermCache` implements for one client at a
   time, and a map with atomic loads for `SiteRegistry`.
3. Open: liveness beyond the instances of the runs, and the query text.

## How to run

    cd tla
    tlc -workers 2 -config ConnPool.cfg MCConnPool
    tlapm ConnPoolProofs.tla

and likewise for the other pairs of configuration and module in `PROJECT.json`.
