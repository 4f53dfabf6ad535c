---------------------------- MODULE RequestShell ----------------------------
(***************************************************************************)
(* What the Go API does around every handler: the timeout that answers     *)
(* while the handler's goroutine goes on, the checks in front of it, the   *)
(* audit record written behind it, the recovery that does not reach it,    *)
(* and the shutdown that waits for some of this.                           *)
(*                                                                         *)
(* From the outside in: recover, timeout, CORS, database, authentication,  *)
(* tenant, audit, rate limit, routes.  Everything inside the timeout runs  *)
(* in a goroutine of its own and writes to a buffer.  A handler makes one  *)
(* change in one transaction, creating a task under its idempotency key or *)
(* setting a task's status, and requests for the same change are each      *)
(* other's retries.  TaskStore has what the statements do, how a rejected  *)
(* transition comes to leak its connection, and what other transitions of  *)
(* the task do: here a change once made stays.                             *)
(***************************************************************************)
EXTENDS Naturals, FiniteSets

CONSTANTS
    Requests,  \* requests; each is served once
    Changes,   \* what a request may ask the database to change
    PoolSize,  \* DB_MAX_CONNS
    MayLeak    \* BOOLEAN: some request asks for a forbidden transition

ASSUME ShellAssumption ==
    /\ PoolSize \in Nat \ {0}
    /\ MayLeak \in BOOLEAN

VARIABLES
    asks,      \* the change each request asks for
    auditing,  \* AUDIT_ENABLED
    proc,      \* the process
    hand,      \* the handler goroutines: [pc, status]
    expired,   \* requests whose context is done: deadline, or client gone
    answer,    \* what WithTimeout has answered: a status, "504", or "none"
    present,   \* the database: changes that are made
    pending,   \* the database: requests whose COMMIT is sent and not decided
    changed,   \* requests whose transaction made their change
    conns,     \* connections in use, by a handler or an audit goroutine
    leaked,    \* requests whose transaction nobody will end
    audit      \* audit goroutines and records: [pc, status]

inputs == <<asks, auditing>>
vars == <<inputs, proc, hand, expired, answer, present, pending, changed, conns, leaked, audit>>

\* Where a handler goroutine may be while it runs.  At "same" the transaction
\* has found the change made, at "write" it holds the row, at "reply" it is
\* over and Redis and the response are written, at "leave" the audit
\* middleware is done too.
Running == {"guards", "slug", "lookup", "limit", "serve", "acquire",
            "tx", "same", "write", "commit", "reply"}

\* What the environment, the clients and an earlier life of the database set.
Inputs ==
    /\ asks \in [Requests -> Changes]
    /\ auditing \in BOOLEAN
    /\ present \in SUBSET Changes

Start ==
    /\ proc    = "up"
    /\ hand    = [r \in Requests |-> [pc |-> "idle", status |-> "open"]]
    /\ expired = {}
    /\ answer  = [r \in Requests |-> "none"]
    /\ pending = {}
    /\ changed = {}
    /\ conns   = {}
    /\ leaked  = {}
    /\ audit   = [r \in Requests |-> [pc |-> "none", status |-> "open"]]

Init == Inputs /\ Start

-----------------------------------------------------------------------------
Alive == proc \in {"up", "draining", "closing"}
At(r, label) == Alive /\ hand[r].pc = label

Goto(r, label) == hand' = [hand EXCEPT ![r].pc = label]

\* Statuses by what they say about the change: "ok" is 200 or 201, "refused"
\* any 4xx and 503, "failed" 500, and "open" the state before there is one.

\* The response is decided and the goroutine goes on at the label.
Decide(r, label, status) == hand' = [hand EXCEPT ![r] = [pc |-> label, status |-> status]]

\* The inner handler writes its response and will return to the audit middleware.
Reply(r, status) == Decide(r, "reply", status)

Free == Cardinality(conns) + Cardinality(leaked) < PoolSize
Of(r) == <<r, "handler">>

database == <<present, pending, changed>>

-----------------------------------------------------------------------------
(* In front of the handler.                                                *)

\* WithTimeout starts the goroutine.
Arrive(r) ==
    /\ proc = "up"
    /\ At(r, "idle")
    /\ Goto(r, "guards")
    /\ UNCHANGED <<inputs, proc, expired, answer, database, conns, leaked, audit>>

\* A preflight request, no database, no or a bad token, no tenant header or one
\* the token does not allow: answered before the audit middleware is reached,
\* so not recorded.
Refuse(r) ==
    /\ At(r, "guards")
    /\ Decide(r, "returned", "refused")
    /\ UNCHANGED <<inputs, proc, expired, answer, database, conns, leaked, audit>>

\* X-Tenant-ID is believed, X-Tenant-Slug looked up.
Admit(r) ==
    /\ At(r, "guards")
    /\ \E label \in {"limit", "slug"} : Goto(r, label)
    /\ UNCHANGED <<inputs, proc, expired, answer, database, conns, leaked, audit>>

\* GetTenantBySlug has its row: the tenant is the one of the token.
TenantFound(r) ==
    /\ At(r, "lookup")
    /\ conns' = conns \ {Of(r)}
    /\ Goto(r, "limit")
    /\ UNCHANGED <<inputs, proc, expired, answer, database, leaked, audit>>

\* 404 for an unknown slug, 403 for another tenant, 500 when the query fails.
TenantNotFound(r) ==
    /\ At(r, "lookup")
    /\ conns' = conns \ {Of(r)}
    /\ \E status \in {"refused", "failed"} : Decide(r, "returned", status)
    /\ UNCHANGED <<inputs, proc, expired, answer, database, leaked, audit>>

\* 429
TooMany(r) ==
    /\ At(r, "limit")
    /\ Reply(r, "refused")
    /\ UNCHANGED <<inputs, proc, expired, answer, database, conns, leaked, audit>>

Route(r) ==
    /\ At(r, "limit")
    /\ Goto(r, "serve")
    /\ UNCHANGED <<inputs, proc, expired, answer, database, conns, leaked, audit>>

-----------------------------------------------------------------------------
(* The handler.                                                            *)

\* 404 without a route, 400 for what the handler does not accept, 409 and 500
\* when the task's lock is held or Redis fails; a tenant that is no UUID is
\* refused without a record.
Reject(r) ==
    /\ At(r, "serve")
    /\ \/ \E status \in {"refused", "failed"} : Reply(r, status)
       \/ Decide(r, "leave", "refused")
    /\ UNCHANGED <<inputs, proc, expired, answer, database, conns, leaked, audit>>

Accept(r) ==
    /\ At(r, "serve")
    /\ Goto(r, "acquire")
    /\ UNCHANGED <<inputs, proc, expired, answer, database, conns, leaked, audit>>

\* The tenant lookup and the handler's transaction take a connection each.
Acquire(r) ==
    /\ proc # "closing"
    /\ r \notin expired
    /\ Free
    /\ \/ At(r, "slug") /\ Goto(r, "lookup")
       \/ At(r, "acquire") /\ Goto(r, "tx")
    /\ conns' = conns \cup {Of(r)}
    /\ UNCHANGED <<inputs, proc, expired, answer, database, leaked, audit>>

\* The context is done, the pool is closed, or the database refuses: 500.
AcquireFails(r) ==
    /\ \/ At(r, "slug") /\ Decide(r, "returned", "failed")
       \/ At(r, "acquire") /\ Reply(r, "failed")
    /\ UNCHANGED <<inputs, proc, expired, answer, database, conns, leaked, audit>>

\* Transactions that hold the row of a change they have not committed.
Holding(r) == hand[r].pc = "write" \/ r \in pending \/ r \in leaked

\* Mutant of Take: SELECT without FOR UPDATE.
TakeUnlocked(r) ==
    /\ At(r, "tx")
    /\ r \notin expired
    /\ Goto(r, IF asks[r] \in present THEN "same" ELSE "write")
    /\ UNCHANGED <<inputs, proc, expired, answer, database, conns, leaked, audit>>

\* SELECT ... FOR UPDATE, or INSERT ... ON CONFLICT DO NOTHING: waits for the
\* transaction that holds the row, and then finds the change made or makes it.
Take(r) ==
    /\ At(r, "tx")
    /\ r \notin expired
    /\ \A q \in Requests : asks[q] = asks[r] => ~Holding(q)
    /\ Goto(r, IF asks[r] \in present THEN "same" ELSE "write")
    /\ UNCHANGED <<inputs, proc, expired, answer, database, conns, leaked, audit>>

\* Nothing to change: committed all the same, 200 with created or changed false.
NothingToChange(r) ==
    /\ At(r, "same")
    /\ r \notin expired
    /\ conns' = conns \ {Of(r)}
    /\ Reply(r, "ok")
    /\ UNCHANGED <<inputs, proc, expired, answer, database, leaked, audit>>

\* Mutant of Fail: the connection is not given back.
FailKeeps(r) ==
    /\ \/ \E status \in {"refused", "failed"} : At(r, "tx") /\ Reply(r, status)
       \/ (At(r, "same") \/ At(r, "write")) /\ Reply(r, "failed")
    /\ UNCHANGED <<inputs, proc, expired, answer, database, conns, leaked, audit>>

\* The first statement finds no such task, 404; or a statement fails, for one
\* because the context is done, 500.  Rolled back.
Fail(r) ==
    /\ \/ \E status \in {"refused", "failed"} : At(r, "tx") /\ Reply(r, status)
       \/ (At(r, "same") \/ At(r, "write")) /\ Reply(r, "failed")
    /\ conns' = conns \ {Of(r)}
    /\ UNCHANGED <<inputs, proc, expired, answer, database, leaked, audit>>

\* A transition that is not allowed: 409, and neither commit nor rollback.
Leak(r) ==
    /\ MayLeak
    /\ At(r, "write")
    /\ conns'  = conns \ {Of(r)}
    /\ leaked' = leaked \cup {r}
    /\ Reply(r, "refused")
    /\ UNCHANGED <<inputs, proc, expired, answer, database, audit>>

\* The last statement went through; COMMIT is sent.
SendCommit(r) ==
    /\ At(r, "write")
    /\ r \notin expired
    /\ Goto(r, "commit")
    /\ pending' = pending \cup {r}
    /\ UNCHANGED <<inputs, proc, expired, answer, present, changed, conns, leaked, audit>>

\* The database commits, whether or not somebody still waits for its answer.
DatabaseCommits(r) ==
    /\ r \in pending
    /\ pending' = pending \ {r}
    /\ changed' = changed \cup {r}
    /\ present' = present \cup {asks[r]}
    /\ UNCHANGED <<inputs, proc, hand, expired, answer, conns, leaked, audit>>

\* COMMIT never arrived, or the database has restarted.
DatabaseDrops(r) ==
    /\ r \in pending
    /\ pending' = pending \ {r}
    /\ UNCHANGED <<inputs, proc, hand, expired, answer, present, changed, conns, leaked, audit>>

\* 200 or 201, after the task is in Redis too.
CommitReturns(r) ==
    /\ At(r, "commit")
    /\ r \in changed
    /\ conns' = conns \ {Of(r)}
    /\ Reply(r, "ok")
    /\ UNCHANGED <<inputs, proc, expired, answer, database, leaked, audit>>

\* Mutant of CommitFails: the error of the commit is dropped.
CommitFailsOk(r) ==
    /\ At(r, "commit")
    /\ conns' = conns \ {Of(r)}
    /\ Reply(r, "ok")
    /\ UNCHANGED <<inputs, proc, expired, answer, database, leaked, audit>>

\* 500, whether the database has committed, has not, or is yet to decide.
CommitFails(r) ==
    /\ At(r, "commit")
    /\ conns' = conns \ {Of(r)}
    /\ Reply(r, "failed")
    /\ UNCHANGED <<inputs, proc, expired, answer, database, leaked, audit>>

\* WithRecover defers in another goroutine: the process ends.
Panic(r) ==
    /\ At(r, hand[r].pc) /\ hand[r].pc \in Running
    /\ proc'  = "crashed"
    /\ conns' = {}
    /\ UNCHANGED <<inputs, hand, expired, answer, database, leaked, audit>>

-----------------------------------------------------------------------------
(* Behind the handler.                                                     *)

\* Mutant of StartAudit: nothing is recorded for a request that was answered 504.
StartAuditInTime(r) ==
    /\ At(r, "reply")
    /\ Goto(r, "leave")
    /\ audit' = IF auditing /\ r \notin expired
                THEN [audit EXCEPT ![r] = [pc |-> "begun", status |-> hand[r].status]]
                ELSE audit
    /\ UNCHANGED <<inputs, proc, expired, answer, database, conns, leaked>>

\* AuditMiddleware, when the inner handler has returned: a goroutine of its own
\* will write the record.
StartAudit(r) ==
    /\ At(r, "reply")
    /\ Goto(r, "leave")
    /\ audit' = IF auditing
                THEN [audit EXCEPT ![r] = [pc |-> "begun", status |-> hand[r].status]]
                ELSE audit
    /\ UNCHANGED <<inputs, proc, expired, answer, database, conns, leaked>>

\* close(done): the buffered response is complete.
Return(r) ==
    /\ At(r, "leave")
    /\ Goto(r, "returned")
    /\ UNCHANGED <<inputs, proc, expired, answer, database, conns, leaked, audit>>

Expire(r) ==
    /\ Alive /\ hand[r].pc # "idle"
    /\ answer[r] = "none" /\ r \notin expired
    /\ expired' = expired \cup {r}
    /\ UNCHANGED <<inputs, proc, hand, answer, database, conns, leaked, audit>>

\* The two cases of WithTimeout's select: either, when both are ready.
Answer(r) ==
    /\ answer[r] = "none"
    /\ At(r, "returned")
    /\ answer' = [answer EXCEPT ![r] = hand[r].status]
    /\ UNCHANGED <<inputs, proc, hand, expired, database, conns, leaked, audit>>

AnswerTimeout(r) ==
    /\ Alive
    /\ answer[r] = "none"
    /\ r \in expired
    /\ answer' = [answer EXCEPT ![r] = "504"]
    /\ UNCHANGED <<inputs, proc, hand, expired, database, conns, leaked, audit>>

AuditAcquire(r) ==
    /\ Alive /\ proc # "closing"
    /\ audit[r].pc = "begun"
    /\ Free
    /\ audit' = [audit EXCEPT ![r].pc = "insert"]
    /\ conns' = conns \cup {<<r, "audit">>}
    /\ UNCHANGED <<inputs, proc, hand, expired, answer, database, leaked>>

\* Two seconds are over, or the pool is closed: a warning in the log.
AuditGivesUp(r) ==
    /\ Alive
    /\ audit[r].pc = "begun"
    /\ audit' = [audit EXCEPT ![r].pc = "lost"]
    /\ UNCHANGED <<inputs, proc, hand, expired, answer, database, conns, leaked>>

AuditInsert(r) ==
    /\ Alive
    /\ audit[r].pc = "insert"
    /\ \E result \in {"written", "lost"} : audit' = [audit EXCEPT ![r].pc = result]
    /\ conns' = conns \ {<<r, "audit">>}
    /\ UNCHANGED <<inputs, proc, hand, expired, answer, database, leaked>>

-----------------------------------------------------------------------------
(* Shutdown.                                                               *)

\* SIGTERM: server.Shutdown takes no new request.
Signal ==
    /\ proc = "up"
    /\ proc' = "draining"
    /\ UNCHANGED <<inputs, hand, expired, answer, database, conns, leaked, audit>>

\* Shutdown returns when every connection is idle, which an abandoned handler
\* does not prevent, or after ten seconds: then dbPool.Close is called.
CloseBegins ==
    /\ proc = "draining"
    /\ proc' = "closing"
    /\ UNCHANGED <<inputs, hand, expired, answer, database, conns, leaked, audit>>

\* Close returns when every connection is back; main returns, whatever still runs.
Stop ==
    /\ proc = "closing"
    /\ conns = {} /\ leaked = {}
    /\ proc' = "stopped"
    /\ UNCHANGED <<inputs, hand, expired, answer, database, conns, leaked, audit>>

HandlerStep(r) ==
    \/ Refuse(r) \/ Admit(r) \/ TenantFound(r) \/ TenantNotFound(r) \/ TooMany(r) \/ Route(r)
    \/ Reject(r) \/ Accept(r) \/ Acquire(r) \/ AcquireFails(r)
    \/ Take(r) \/ NothingToChange(r) \/ Fail(r) \/ Leak(r)
    \/ SendCommit(r) \/ CommitReturns(r) \/ CommitFails(r)
    \/ StartAudit(r) \/ Return(r)

DatabaseStep(r) == DatabaseCommits(r) \/ DatabaseDrops(r)

AuditStep(r) == AuditAcquire(r) \/ AuditGivesUp(r) \/ AuditInsert(r)

Next ==
    \/ \E r \in Requests :
        \/ Arrive(r) \/ HandlerStep(r) \/ Panic(r)
        \/ DatabaseStep(r)
        \/ Expire(r) \/ Answer(r) \/ AnswerTimeout(r)
        \/ AuditStep(r)
    \/ Signal \/ CloseBegins \/ Stop

\* Goroutines are scheduled, calls to the database return, timers fire.
Fairness ==
    /\ \A r \in Requests : /\ WF_vars(HandlerStep(r))
                           /\ WF_vars(AuditStep(r))
                           /\ WF_vars(Answer(r) \/ AnswerTimeout(r))
    /\ WF_vars(CloseBegins)
    /\ WF_vars(Stop)

Spec == Init /\ [][Next]_vars /\ Fairness

-----------------------------------------------------------------------------
(* Properties                                                              *)

Status == {"open", "ok", "refused", "failed"}

TypeOK ==
    /\ asks    \in [Requests -> Changes]
    /\ auditing \in BOOLEAN
    /\ proc    \in {"up", "draining", "closing", "stopped", "crashed"}
    /\ hand    \in [Requests -> [pc : Running \cup {"idle", "leave", "returned"}, status : Status]]
    /\ expired \subseteq Requests
    /\ answer  \in [Requests -> Status \cup {"none", "504"}]
    /\ present \subseteq Changes
    /\ pending \subseteq Requests
    /\ changed \subseteq Requests
    /\ conns   \subseteq Requests \X {"handler", "audit"}
    /\ leaked  \subseteq Requests
    /\ audit   \in [Requests -> [pc : {"none", "begun", "insert", "written", "lost"},
                                 status : Status]]

\* However the deadline, the handler, the commit and other requests for the
\* same change race, the client is told of a success only if the change is in
\* the database, and of a refusal only if its request has not made it and never
\* will.  Only 500 and 504 leave it open.
AnswerTellsTruth ==
    \A r \in Requests :
        /\ answer[r] = "ok" => asks[r] \in present
        /\ answer[r] = "refused" => r \notin changed \cup pending

\* A client that had no answer or a 500 may try again, also while the database
\* is yet to decide its first COMMIT: the change is made at most once.
MadeOnce ==
    \A q, r \in changed : asks[q] = asks[r] => q = r

\* With AUDIT_ENABLED, once the handler of a request that made its change has
\* left the audit middleware, a record is under way or decided and it does not
\* say that nothing was changed: also when the client was told 504 long before,
\* and when the database commits after the handler has answered 500.  Until
\* then there is none, and none is left by a process that ends there.
ChangesAreAudited ==
    auditing => \A r \in changed :
        \/ hand[r].pc \in {"commit", "reply"}
        \/ audit[r].pc # "none" /\ audit[r].status \in {"ok", "failed"}

\* After a signal the process ends, although Close waits for handlers whose
\* clients were answered before: unless a transaction was leaked.
EventuallyStopped ==
    proc = "draining" ~> proc \in {"stopped", "crashed"} \/ leaked # {}
=============================================================================
