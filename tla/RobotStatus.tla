----------------------------- MODULE RobotStatus -----------------------------
(***************************************************************************)
(* The robot endpoints of the Go API, for one robot: PUT replaces its row, *)
(* a report adds a status with its outbox event, writes the row again and  *)
(* caches the status for 30 s, and GET answers with the cached or with the *)
(* newest status.                                                          *)
(*                                                                         *)
(* A report carries the time at which the robot made it; reports come in   *)
(* any order.  Of the row, only display_name matters here: it is written   *)
(* by PUT, and by a report that read it earlier.  The insert of the status *)
(* and of its outbox event is one transaction; Outbox takes it from there. *)
(***************************************************************************)
EXTENDS Naturals

CONSTANTS
    Requests,  \* request goroutines; each serves one request
    Stamps,    \* reported_at values of the clients
    CacheTTL,  \* lifetime of the cached status
    Deadline,  \* REQUEST_TIMEOUT plus what a Redis call may take after it
    MaxTime    \* bound: the clock

\* The two names stand for no request.
StatusAssumption ==
    /\ Stamps \subseteq Nat
    /\ {CacheTTL, Deadline, MaxTime} \subseteq Nat
    /\ {"nobody", "earlier"} \cap Requests = {}

VARIABLES
    now,       \* the clock
    name,      \* robots.display_name, named by the PUT it comes from
    lastPut,   \* [by, alone]: the last PUT; no report held an older name then
    stored,    \* robot_statuses: the stamp of each report that is in
    storedAt,  \* when the last one came
    cache,     \* [report, until]
    req        \* the requests

vars == <<now, name, lastPut, stored, storedAt, cache, req>>

Nobody  == "nobody"
Earlier == "earlier"  \* a PUT before the first of the requests
NoEntry == [report |-> Nobody, until |-> 0]
Idle    == [pc |-> "idle", started |-> 0, stamp |-> 0, name |-> Nobody, report |-> Nobody]
Done    == [Idle EXCEPT !.pc = "done"]

Init ==
    /\ now      = 0
    /\ name     \in {Nobody, Earlier}
    /\ lastPut  = [by |-> name, alone |-> TRUE]
    /\ stored   = [r \in {} |-> 0]
    /\ storedAt = 0
    /\ cache    = NoEntry
    /\ req      = [r \in Requests |-> Idle]

-----------------------------------------------------------------------------
At(r, label) == req[r].pc = label
InTime(r)    == now <= req[r].started + Deadline
Finish(r)    == req' = [req EXCEPT ![r] = Done]

\* A statement or a Redis call fails: the handler answers 500.
Fail(r) ==
    /\ req[r].pc \in {"put", "read", "insert", "load"}
    /\ Finish(r)
    /\ UNCHANGED <<now, name, lastPut, stored, storedAt, cache>>

Begin(r, label) ==
    /\ At(r, "idle")
    /\ req' = [req EXCEPT ![r] = [Idle EXCEPT !.pc = label, !.started = now]]
    /\ UNCHANGED <<now, name, lastPut, stored, storedAt, cache>>

\* PUT /api/v1/robots/{robot_code}
Put(r) ==
    /\ At(r, "put") /\ InTime(r)
    /\ name'    = r
    /\ lastPut' = [by |-> r, alone |-> \A q \in Requests : req[q].pc \notin {"insert", "upsert"}]
    /\ Finish(r)
    /\ UNCHANGED <<now, stored, storedAt, cache>>

-----------------------------------------------------------------------------
(* POST /api/v1/robots/{robot_code}/status                                 *)

\* 404 without a row; otherwise the report keeps the row it read.
GetRobotByCode(r) ==
    /\ At(r, "read") /\ InTime(r)
    /\ IF name = Nobody
       THEN Finish(r)
       ELSE \E s \in Stamps : req' = [req EXCEPT ![r].pc = "insert", ![r].stamp = s, ![r].name = name]
    /\ UNCHANGED <<now, name, lastPut, stored, storedAt, cache>>

InsertStatusWithOutbox(r) ==
    /\ At(r, "insert") /\ InTime(r)
    /\ stored'   = [q \in DOMAIN stored \cup {r} |-> IF q = r THEN req[r].stamp ELSE stored[q]]
    /\ storedAt' = now
    /\ req'      = [req EXCEPT ![r].pc = "upsert", ![r].report = r]
    /\ UNCHANGED <<now, name, lastPut, cache>>

\* Mutant of UpsertRobot: display_name is not passed on.
UpsertRobotUnnamed(r) ==
    /\ At(r, "upsert") /\ InTime(r)
    /\ name' = Nobody
    /\ req'  = [req EXCEPT ![r].pc = "cache"]
    /\ UNCHANGED <<now, lastPut, stored, storedAt, cache>>

\* The row is written again with the display_name read before.
UpsertRobot(r) ==
    /\ At(r, "upsert") /\ InTime(r)
    /\ name' = req[r].name
    /\ req'  = [req EXCEPT ![r].pc = "cache"]
    /\ UNCHANGED <<now, lastPut, stored, storedAt, cache>>

\* The report has no status field, or the error of UpsertRobot is dropped.
SkipUpsert(r) ==
    /\ At(r, "upsert")
    /\ req' = [req EXCEPT ![r].pc = "cache"]
    /\ UNCHANGED <<now, name, lastPut, stored, storedAt, cache>>

\* Of a report, and of a get that missed: whatever the cache holds by now.
SetJSON(r) ==
    /\ At(r, "cache") /\ InTime(r)
    /\ cache' = [report |-> req[r].report, until |-> now + CacheTTL]
    /\ Finish(r)
    /\ UNCHANGED <<now, name, lastPut, stored, storedAt>>

SetJSONFails(r) ==
    /\ At(r, "cache")
    /\ Finish(r)
    /\ UNCHANGED <<now, name, lastPut, stored, storedAt, cache>>

-----------------------------------------------------------------------------
(* GET /api/v1/robots/{robot_code}/status                                  *)

Hit(r) ==
    /\ At(r, "lookup") /\ InTime(r)
    /\ cache # NoEntry
    /\ Finish(r)
    /\ UNCHANGED <<now, name, lastPut, stored, storedAt, cache>>

\* The key is absent, or the cache does not answer.
Miss(r) ==
    /\ At(r, "lookup")
    /\ req' = [req EXCEPT ![r].pc = "load"]
    /\ UNCHANGED <<now, name, lastPut, stored, storedAt, cache>>

\* Mutant of GetLatestStatus: ORDER BY reported_at without DESC.
GetOldestStatus(r) ==
    /\ At(r, "load") /\ InTime(r)
    /\ \E q \in DOMAIN stored :
          /\ \A p \in DOMAIN stored : stored[p] >= stored[q]
          /\ req' = [req EXCEPT ![r].pc = "cache", ![r].report = q]
    /\ UNCHANGED <<now, name, lastPut, stored, storedAt, cache>>

\* ORDER BY reported_at DESC LIMIT 1: any of the newest.
GetLatestStatus(r) ==
    /\ At(r, "load") /\ InTime(r)
    /\ \E q \in DOMAIN stored :
          /\ \A p \in DOMAIN stored : stored[p] <= stored[q]
          /\ req' = [req EXCEPT ![r].pc = "cache", ![r].report = q]
    /\ UNCHANGED <<now, name, lastPut, stored, storedAt, cache>>

-----------------------------------------------------------------------------
\* Time passes; Redis drops the entry when its lifetime is over.
Tick ==
    /\ now < MaxTime
    /\ now'   = now + 1
    /\ cache' = IF cache.until <= now' THEN NoEntry ELSE cache
    /\ UNCHANGED <<name, lastPut, stored, storedAt, req>>

Next ==
    \/ \E r \in Requests :
        \/ \E label \in {"put", "read", "lookup"} : Begin(r, label)
        \/ Put(r)
        \/ GetRobotByCode(r) \/ InsertStatusWithOutbox(r) \/ UpsertRobot(r) \/ SkipUpsert(r)
        \/ SetJSON(r) \/ SetJSONFails(r)
        \/ Hit(r) \/ Miss(r) \/ GetLatestStatus(r)
        \/ Fail(r)
    \/ Tick

Spec == Init /\ [][Next]_vars

-----------------------------------------------------------------------------
(* Properties                                                              *)

Callers == Requests \cup {Nobody, Earlier}

TypeOK ==
    /\ now      \in 0 .. MaxTime
    /\ name     \in Callers
    /\ lastPut  \in [by : Callers, alone : BOOLEAN]
    /\ DOMAIN stored \subseteq Requests
    /\ \A r \in DOMAIN stored : stored[r] \in Stamps
    /\ storedAt \in 0 .. MaxTime
    /\ cache    \in [report : Callers, until : Nat]
    /\ req      \in [Requests -> [pc : {"idle", "put", "read", "insert", "upsert", "cache",
                                        "lookup", "load", "done"},
                                  started : 0 .. MaxTime, stamp : Stamps \cup {0},
                                  name : Callers, report : Callers]]

\* The cache may hold an older report than the table's newest one while reports
\* come in, out of order or overtaken by a get's late write; but when none has
\* come for CacheTTL + Deadline, a cached status is a newest one.
CacheSettles ==
    cache # NoEntry /\ now > storedAt + CacheTTL + Deadline =>
        /\ cache.report \in DOMAIN stored
        /\ \A r \in DOMAIN stored : stored[r] <= stored[cache.report]

\* A report writes back the display_name it read, which may undo a PUT, and
\* further reports may carry the old name on.  That needs a report which had
\* read the row and not yet written it when the PUT came: the name of any other
\* PUT stays until the next one.
RenameSticks == lastPut.alone => name = lastPut.by
=============================================================================
