---------------------------- MODULE SessionCache ----------------------------
(***************************************************************************)
(* The session cache: sessionCacheGet, Set and Delete (mysql_proxy.cpp,    *)
(* called by the handlers of server.cpp) over the table session_data,      *)
(* which all sites share, and the reaper's garbageCollect.                 *)
(*                                                                         *)
(* The primary key of the table is the id alone, while every statement     *)
(* names the id and the subdomain.  No transaction spans the two           *)
(* statements of a Set.  A statement can fail before or after it took      *)
(* effect; the error is logged and the handler answers as if all was well. *)
(***************************************************************************)
EXTENDS Integers

CONSTANTS Worker, Subdomain, Id, Value,
          Empty,       \* the empty string, which also stands for "nothing there"
          Lifetime,    \* days a row is kept (86400*2 seconds)
          NoRow, NoCall, NoActor

Row == [subdomain : Subdomain, data : Value, left : -1..Lifetime]
Call == [subdomain : Subdomain, id : Id, value : Value]

ASSUME SessionCacheAssumption ==
    /\ Lifetime \in Nat
    /\ Empty \notin Value /\ NoRow \notin Row /\ NoCall \notin Call /\ NoActor \notin Subdomain

VARIABLES session_data,   \* id -> Row or NoRow; left is -1 when it has expired
          stmt, call,     \* per worker: the statement of a Set that is next, and of what Set
          latest,         \* history: subdomain, id -> what the last Set or Delete left
          lost,           \* history: subdomain, id -> why the last Set left nothing
          actor           \* history: the site whose handler took the last step

sessionCacheVars == <<session_data, stmt, call, latest, lost, actor>>

SessionCacheInit ==
    /\ session_data = [i \in Id |-> NoRow]
    /\ stmt = [w \in Worker |-> "idle"]
    /\ call = [w \in Worker |-> NoCall]
    /\ latest = [s \in Subdomain |-> [i \in Id |-> Empty]]
    /\ lost = [s \in Subdomain |-> [i \in Id |-> "no"]]
    /\ actor = NoActor

\* Mutant: the statement names the id only.
Owned_ById(s, i) == session_data[i] # NoRow

\* WHERE id=? AND subdomain=?
Owned(s, i) == session_data[i] # NoRow /\ session_data[i].subdomain = s

\* What sessionCacheGet answers, unless the SELECT fails.
sessionCacheGet(s, i) == IF Owned(s, i) THEN session_data[i].data ELSE Empty

Without(s, i) == IF Owned(s, i) THEN [session_data EXCEPT ![i] = NoRow] ELSE session_data

\* Worker w goes on, or answers.
Goto(w, from, to) ==
    /\ stmt[w] = from /\ stmt' = [stmt EXCEPT ![w] = to]
    /\ call' = IF to = "idle" THEN [call EXCEPT ![w] = NoCall] ELSE call

\* After the last step of a Set or a Delete of s and i.
Leaves(s, i, value, why) ==
    /\ latest' = [latest EXCEPT ![s][i] = value]
    /\ lost' = [lost EXCEPT ![s][i] = why]
-----------------------------------------------------------------------------
sessionCacheSet(w) ==
    /\ stmt[w] = "idle" /\ stmt' = [stmt EXCEPT ![w] = "delete"]
    /\ \E c \in Call : call' = [call EXCEPT ![w] = c] /\ actor' = c.subdomain
    /\ UNCHANGED <<session_data, latest, lost>>

\* Set's DELETE; an error, before or after it took effect, skips the INSERT.
SetDelete(w) ==
    LET s == call[w].subdomain
        i == call[w].id
    IN  /\ \/ /\ Goto(w, "delete", "insert")
              /\ session_data' = Without(s, i)
              /\ UNCHANGED <<latest, lost>>
           \/ /\ Goto(w, "delete", "idle")
              /\ session_data' \in {session_data, Without(s, i)}
              /\ Leaves(s, i, call[w].value, "failed")
        /\ actor' = s

\* The table with the row of a Set.
With(c) == [session_data EXCEPT ![c.id] = [subdomain |-> c.subdomain, data |-> c.value, left |-> Lifetime]]

\* Set's INSERT: it works, and may seem to have failed; or the id has a row by
\* now; or an error keeps it from working.
SetInsert(w) ==
    LET s == call[w].subdomain
        i == call[w].id
    IN  /\ Goto(w, "insert", "idle") /\ actor' = s
        /\ \/ /\ session_data[i] = NoRow
              /\ session_data' = With(call[w])
              /\ \E why \in {"no", "failed"} : Leaves(s, i, call[w].value, why)
           \/ /\ session_data[i] # NoRow
              /\ UNCHANGED session_data
              /\ Leaves(s, i, call[w].value, IF Owned(s, i) THEN "overlap" ELSE "foreign")
           \/ /\ UNCHANGED session_data
              /\ Leaves(s, i, call[w].value, "failed")

sessionCacheDelete(s, i) ==
    /\ \/ session_data' = Without(s, i) /\ \E why \in {"no", "failed"} : Leaves(s, i, Empty, why)
       \/ UNCHANGED session_data /\ Leaves(s, i, Empty, "failed")
    /\ actor' = s
    /\ UNCHANGED <<stmt, call>>

\* Mutant: rows are taken on their last day.
Expired_Early(i) == session_data[i] # NoRow /\ session_data[i].left <= 0

\* expires < UNIX_TIMESTAMP()
Expired(i) == session_data[i] # NoRow /\ session_data[i].left < 0

\* Mutant: only rows that are overdue by more than they were kept for.
garbageCollect_Late ==
    /\ \E i \in Id : session_data[i] # NoRow /\ session_data[i].left < -Lifetime
    /\ UNCHANGED sessionCacheVars

\* The reaper, every two seconds.
garbageCollect ==
    /\ \E i \in Id : Expired(i)
    /\ session_data' = [i \in Id |-> IF Expired(i) THEN NoRow ELSE session_data[i]]
    /\ latest' = [s \in Subdomain |-> [i \in Id |-> IF Expired(i) /\ Owned(s, i) THEN Empty ELSE latest[s][i]]]
    /\ lost' = [s \in Subdomain |-> [i \in Id |-> IF Expired(i) /\ Owned(s, i) THEN "no" ELSE lost[s][i]]]
    /\ actor' = NoActor
    /\ UNCHANGED <<stmt, call>>

Aged(r) == IF r = NoRow \/ r.left < 0 THEN r ELSE [r EXCEPT !.left = @ - 1]

DayPasses ==
    /\ session_data' = [i \in Id |-> Aged(session_data[i])]
    /\ actor' = NoActor
    /\ UNCHANGED <<stmt, call, latest, lost>>

SessionCacheNext ==
    \/ \E w \in Worker : sessionCacheSet(w) \/ SetDelete(w) \/ SetInsert(w)
    \/ \E s \in Subdomain, i \in Id : sessionCacheDelete(s, i)
    \/ garbageCollect \/ DayPasses

\* The reaper's statement works now and then.
SessionCacheSpec == SessionCacheInit /\ [][SessionCacheNext]_sessionCacheVars /\ WF_sessionCacheVars(garbageCollect)
-----------------------------------------------------------------------------
SessionCacheTypeOK ==
    /\ session_data \in [Id -> Row \cup {NoRow}]
    /\ stmt \in [Worker -> {"idle", "delete", "insert"}]
    /\ call \in [Worker -> Call \cup {NoCall}]
    /\ \A w \in Worker : stmt[w] # "idle" => call[w] # NoCall
    /\ latest \in [Subdomain -> [Id -> Value \cup {Empty}]]
    /\ lost \in [Subdomain -> [Id -> {"no", "failed", "overlap", "foreign"}]]
    /\ actor \in Subdomain \cup {NoActor}

\* A Set of s and i has deleted the row there was, and not inserted its own.
Between(s, i) == \E w \in Worker : stmt[w] = "insert" /\ call[w].subdomain = s /\ call[w].id = i

\* A Get answers what the last Set or Delete of its own site and id left: the
\* answer of sessionCacheSet is true unless a statement failed, another Set of
\* the same id was between its two statements, or another site has a row of the
\* id.  No site sees the data of another, although they share the ids.  Sets that
\* run into each other leave the row of one of them.
LastSetAnswered ==
    \A s \in Subdomain, i \in Id : ~Between(s, i) =>
       /\ lost[s][i] = "no" => sessionCacheGet(s, i) = latest[s][i]
       /\ lost[s][i] = "overlap" => sessionCacheGet(s, i) # Empty

\* The data of row r is no longer there.
Gone(r, i) == session_data'[i] = NoRow \/ session_data'[i].subdomain # r.subdomain \/ session_data'[i].data # r.data

LeavesByOwner(i) ==
    LET r == session_data[i]
    IN  r # NoRow /\ r.left >= 0 /\ Gone(r, i) => actor' = r.subdomain

\* Whatever the other sites do with an id, a row leaves the table only by its own
\* site's Set or Delete, or when its two days are over.
KeptFromOthers == [][\A i \in Id : LeavesByOwner(i)]_sessionCacheVars

\* Rows that have expired do not stay: an id that another site has used is free
\* for the next Set after two days, unless that site has used it again.
ExpiredGo == \A i \in Id : Expired(i) ~> ~Expired(i)
=============================================================================
