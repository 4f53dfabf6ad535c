------------------------------ MODULE TaskCache ------------------------------
(***************************************************************************)
(* The task endpoints of the Go API around one task: the cached copy in    *)
(* Redis (30 s), the Redis lock that cancel and status take (10 s), and    *)
(* the Python service, which changes the task and knows neither.           *)
(*                                                                         *)
(* TaskStore has what happens inside the database.  Here a transaction is  *)
(* one step, the row is its version (the number of changes committed) and  *)
(* time counts, because the lock, the cache entry and the request each     *)
(* have a lifetime of their own and nothing ties one to another.           *)
(*                                                                         *)
(* A request makes its calls with its own context, so each takes effect    *)
(* within the request's deadline or fails; only the release of the lock    *)
(* uses a context of its own and may come at any later time.               *)
(***************************************************************************)
EXTENDS Integers

CONSTANTS
    Requests,    \* request goroutines; each serves one request
    LockTTL,     \* lifetime of the task lock
    CacheTTL,    \* lifetime of a cached task
    Deadline,    \* REQUEST_TIMEOUT plus what a Redis call may take after it
    MaxVersion,  \* bound: changes of the task
    MaxTime      \* bound: the clock

ASSUME TaskCacheAssumption ==
    /\ LockTTL \in Nat \ {0}
    /\ CacheTTL \in Nat \ {0}
    /\ {Deadline, MaxVersion, MaxTime} \subseteq Nat
    /\ "nobody" \notin Requests

VARIABLES
    now,        \* the clock
    version,    \* changes of the row committed so far, 0 without a row
    changedAt,  \* when each of them was committed
    changedBy,  \* and under which protection
    cache,      \* [row, until], row 0 when the key is absent
    lock,       \* [owner, until]: the token is one request's
    req         \* the requests

rowVars == <<version, changedAt, changedBy>>
vars == <<now, rowVars, cache, lock, req>>

NoEntry == [row |-> 0, until |-> 0]
NoLock  == [owner |-> "nobody", until |-> 0]

\* started: when the request came; locked: when it got the lock;
\* row: the version it read or wrote and is about to cache.
Idle == [pc |-> "idle", op |-> "none", started |-> 0, locked |-> 0, row |-> 0]
Done == [Idle EXCEPT !.pc = "done"]

Init ==
    /\ now       = 0
    /\ version   = 0
    /\ changedAt = [v \in 1 .. MaxVersion |-> 0]
    /\ changedBy = [v \in 1 .. MaxVersion |-> "unlocked"]
    /\ cache     = NoEntry
    /\ lock      = NoLock
    /\ req       = [r \in Requests |-> Idle]

-----------------------------------------------------------------------------
At(r, label) == req[r].pc = label

\* The request's context is not done.
InTime(r) == now <= req[r].started + Deadline

Finish(r) == req' = [req EXCEPT ![r] = Done]

\* cancel and status begin with the lock, create with its transaction, get
\* with the cache.
FirstStep(op) == CASE op = "create"     -> "commit"
                   [] op = "transition" -> "acquire"
                   [] op = "get"        -> "lookup"

Begin(r, op) ==
    /\ At(r, "idle")
    /\ req' = [req EXCEPT ![r] = [pc |-> FirstStep(op), op |-> op, started |-> now,
                                  locked |-> 0, row |-> 0]]
    /\ UNCHANGED <<now, rowVars, cache, lock>>

-----------------------------------------------------------------------------
(* The lock.                                                               *)

\* SET key token NX PX ttl
Acquire(r) ==
    /\ At(r, "acquire") /\ InTime(r)
    /\ lock = NoLock
    /\ lock' = [owner |-> r, until |-> now + LockTTL]
    /\ req'  = [req EXCEPT ![r].pc = "commit", ![r].locked = now]
    /\ UNCHANGED <<now, rowVars, cache>>

\* 409: the task is locked.
Refuse(r) ==
    /\ At(r, "acquire") /\ InTime(r)
    /\ lock # NoLock
    /\ Finish(r)
    /\ UNCHANGED <<now, rowVars, cache, lock>>

\* Redis does not answer, or the deadline is over: 500.
AcquireFails(r) ==
    /\ At(r, "acquire")
    /\ Finish(r)
    /\ UNCHANGED <<now, rowVars, cache, lock>>

\* The answer to SET NX is lost: 500 too, and nobody will release the lock.
AcquireLost(r) ==
    /\ At(r, "acquire") /\ InTime(r)
    /\ lock = NoLock
    /\ lock' = [owner |-> r, until |-> now + LockTTL]
    /\ Finish(r)
    /\ UNCHANGED <<now, rowVars, cache>>

\* Mutant of Release: DEL without comparing the token.
ReleaseAny(r) ==
    /\ At(r, "release")
    /\ lock' = NoLock
    /\ Finish(r)
    /\ UNCHANGED <<now, rowVars, cache>>

\* Compare the token and delete, in one script; or the call fails.
Release(r) ==
    /\ At(r, "release")
    /\ lock' \in {lock, IF lock.owner = r THEN NoLock ELSE lock}
    /\ Finish(r)
    /\ UNCHANGED <<now, rowVars, cache>>

-----------------------------------------------------------------------------
(* Writers.                                                                *)

\* What a request that is done with its calls has left to do.
Leave(r) ==
    IF req[r].op = "transition"
    THEN [req[r] EXCEPT !.pc = "release", !.row = 0, !.started = 0]
    ELSE Done

NewVersion(by) ==
    /\ version < MaxVersion
    /\ version'   = version + 1
    /\ changedAt' = [changedAt EXCEPT ![version + 1] = now]
    /\ changedBy' = [changedBy EXCEPT ![version + 1] = by]

\* Whether the request's change is protected from others like it: create takes
\* no lock, and a lock may have run out.
Protection(r) == IF req[r].op # "create" /\ now < req[r].locked + LockTTL
                 THEN "locked" ELSE "unlocked"

\* Mutant of Commit: the lock is released before the cache is written.
CommitReleasesFirst(r) ==
    /\ At(r, "commit") /\ InTime(r)
    /\ (req[r].op = "create") <=> (version = 0)
    /\ NewVersion(Protection(r))
    /\ req'  = [req EXCEPT ![r].pc = "write", ![r].row = version + 1]
    /\ lock' = IF lock.owner = r THEN NoLock ELSE lock
    /\ UNCHANGED <<now, cache>>

\* The transaction changes the row (created, or changed).
Commit(r) ==
    /\ At(r, "commit") /\ InTime(r)
    /\ (req[r].op = "create") <=> (version = 0)
    /\ NewVersion(Protection(r))
    /\ req' = [req EXCEPT ![r].pc = "write", ![r].row = version + 1]
    /\ UNCHANGED <<now, cache, lock>>

\* The task exists already, has the status asked for, may not change so, does
\* not exist, or a statement fails: nothing is cached.
NoChange(r) ==
    /\ At(r, "commit")
    /\ req' = [req EXCEPT ![r] = Leave(r)]
    /\ UNCHANGED <<now, rowVars, cache, lock>>

PutInCache(r) == cache' = [row |-> req[r].row, until |-> now + CacheTTL]

\* SET of the task as the transaction returned it, or of the row a get read,
\* whatever the cache holds by now.
SetJSON(r) ==
    /\ At(r, "write") /\ InTime(r)
    /\ PutInCache(r)
    /\ req' = [req EXCEPT ![r] = Leave(r)]
    /\ UNCHANGED <<now, rowVars, lock>>

\* The error of SetJSON is dropped.
SetJSONFails(r) ==
    /\ At(r, "write")
    /\ req' = [req EXCEPT ![r] = Leave(r)]
    /\ UNCHANGED <<now, rowVars, cache, lock>>

\* The Python service creates or changes the task.
PythonWrite ==
    /\ NewVersion("unlocked")
    /\ UNCHANGED <<now, cache, lock, req>>

-----------------------------------------------------------------------------
(* GET /api/v1/tasks/{task_id}                                             *)

Hit(r) ==
    /\ At(r, "lookup") /\ InTime(r)
    /\ cache # NoEntry
    /\ Finish(r)
    /\ UNCHANGED <<now, rowVars, cache, lock>>

\* The key is absent, or the cache does not answer.
Miss(r) ==
    /\ At(r, "lookup")
    /\ req' = [req EXCEPT ![r].pc = "load"]
    /\ UNCHANGED <<now, rowVars, cache, lock>>

Load(r) ==
    /\ At(r, "load") /\ InTime(r)
    /\ version > 0
    /\ req' = [req EXCEPT ![r].pc = "write", ![r].row = version]
    /\ UNCHANGED <<now, rowVars, cache, lock>>

\* 404, or the query fails.
LoadFails(r) ==
    /\ At(r, "load")
    /\ Finish(r)
    /\ UNCHANGED <<now, rowVars, cache, lock>>

-----------------------------------------------------------------------------
\* The API process ends; its locks stay until they expire.
Restart ==
    /\ req' = [r \in Requests |-> IF At(r, "idle") THEN Idle ELSE Done]
    /\ UNCHANGED <<now, rowVars, cache, lock>>

\* Mutant of Tick: entries are set without a time to live.
TickForgetsCache ==
    /\ now < MaxTime
    /\ now'  = now + 1
    /\ lock' = IF lock.until <= now' THEN NoLock ELSE lock
    /\ UNCHANGED <<rowVars, cache, req>>

\* Time passes; Redis drops the keys whose lifetime is over.
Tick ==
    /\ now < MaxTime
    /\ now'   = now + 1
    /\ cache' = IF cache.until <= now' THEN NoEntry ELSE cache
    /\ lock'  = IF lock.until <= now' THEN NoLock ELSE lock
    /\ UNCHANGED <<rowVars, req>>

Next ==
    \/ \E r \in Requests :
        \/ \E op \in {"create", "transition", "get"} : Begin(r, op)
        \/ Acquire(r) \/ Refuse(r) \/ AcquireFails(r) \/ AcquireLost(r) \/ Release(r)
        \/ Commit(r) \/ NoChange(r) \/ SetJSON(r) \/ SetJSONFails(r)
        \/ Hit(r) \/ Miss(r) \/ Load(r) \/ LoadFails(r)
    \/ PythonWrite
    \/ Restart
    \/ Tick

Spec == Init /\ [][Next]_vars

-----------------------------------------------------------------------------
(* Properties                                                              *)

Request == [pc : {"idle", "acquire", "commit", "write", "release", "lookup", "load", "done"},
            op : {"none", "create", "transition", "get"},
            started : 0 .. MaxTime, locked : 0 .. MaxTime, row : 0 .. MaxVersion]

\* Well typed, and only rows that were committed are cached or about to be.
TypeOK ==
    /\ now       \in 0 .. MaxTime
    /\ version   \in 0 .. MaxVersion
    /\ changedAt \in [1 .. MaxVersion -> 0 .. MaxTime]
    /\ changedBy \in [1 .. MaxVersion -> {"locked", "unlocked"}]
    /\ cache     \in [row : 0 .. MaxVersion, until : Nat]
    /\ lock      \in [owner : Requests \cup {"nobody"}, until : Nat]
    /\ req       \in [Requests -> Request]
    /\ cache # NoEntry => cache.row \in 1 .. version
    /\ \A r \in Requests : At(r, "write") => req[r].row \in 1 .. version

\* A cancel or status request between the acquisition and the release.
Holds(r)     == req[r].op = "transition" /\ req[r].pc \in {"commit", "write", "release"}
\* ... that the lifetime of its lock has not outrun.
Protected(r) == Holds(r) /\ now < req[r].locked + LockTTL

\* The lock excludes: two requests are inside only if the lifetime of the lock
\* of one of them is over.  In particular the late release of such a request
\* never opens the lock that another has taken since.
LockExcludes ==
    \A r, s \in Requests : Protected(r) /\ Protected(s) => r = s

\* How long ago version v stopped being the row.
Age(v) == IF v < version THEN now - changedAt[v + 1] ELSE 0

\* What a get answers from the cache was the row at some time in the last
\* CacheTTL + Deadline, however reads, write-throughs, lost locks and writes of
\* the Python service interleave.
BoundedStaleness ==
    cache # NoEntry => Age(cache.row) <= CacheTTL + Deadline

\* A transition whose lock is alive writes through the newest version there is,
\* except for changes made outside the lock: by the Python service or by a
\* request that has outrun its own lock.  No second transition commits under
\* the lock before the first one's copy is in the cache.
OrderedWriteThrough ==
    \A r \in Requests : Protected(r) /\ At(r, "write") =>
        \A v \in req[r].row + 1 .. version : changedBy[v] # "locked"
=============================================================================
