------------------------------ MODULE TaskStore ------------------------------
(***************************************************************************)
(* The tasks, task_events and outbox_events tables as the Go repository    *)
(* TasksRepo and the Python service change them: create with idempotency   *)
(* key, status transition, and insertion of an event read from the topic.  *)
(*                                                                         *)
(* A task is named by its idempotency key (unique per tenant).  Postgres   *)
(* is external: a transaction's writes become visible when it commits, a   *)
(* row locked FOR UPDATE makes others wait, and so does the unique index   *)
(* for two transactions that insert the same key.  A request is one step   *)
(* per wait: for a connection, for the lock, for the commit.  The writes   *)
(* between lock and commit are private to the transaction and happen in    *)
(* the Commit step.                                                        *)
(***************************************************************************)
EXTENDS TaskWorkflow, Naturals, Sequences, FiniteSets

CONSTANTS
    Keys,        \* tasks that clients may create
    GoRequests,  \* request goroutines of the Go API
    PyRequests,  \* request threads of the Python service
    PoolSize,    \* DB_MAX_CONNS of the Go API
    Targets      \* statuses that clients ask for

Requests == GoRequests \cup PyRequests

ASSUME TaskStoreAssumption ==
    /\ GoRequests \cap PyRequests = {}
    /\ "free" \notin Requests
    /\ "leaked" \notin Requests
    /\ PoolSize \in Nat \ {0}
    /\ Targets \subseteq TaskStatuses \cup {Unknown}

VARIABLES
    task,      \* tasks.status; "absent" when there is no row
    rows,      \* task_events written with a change of the task, in order
    outbox,    \* outbox_events of the task, in order
    streamed,  \* ids that the consumer added to task_events
    lock,      \* who holds the task's row or its key in the unique index
    leaked,    \* tasks whose row an abandoned transaction still locks
    req        \* the requests

vars == <<task, rows, outbox, streamed, lock, leaked, req>>

Absent == "absent"
Idle   == [pc |-> "idle"]

\* Events are identified by the task, their place and who drew the uuid: the
\* handler ("handler") or the column's default ("database").
EventId(k, n, by) == [key |-> k, n |-> n, by |-> by]

Init ==
    /\ task     = [k \in Keys |-> Absent]
    /\ rows     = [k \in Keys |-> <<>>]
    /\ outbox   = [k \in Keys |-> <<>>]
    /\ streamed = {}
    /\ lock     = [k \in Keys |-> "free"]
    /\ leaked   = {}
    /\ req      = [r \in Requests |-> Idle]

-----------------------------------------------------------------------------
(* A request arrives, gets a connection and opens its transaction.         *)

Ops == [op : {"create"}, key : Keys, to : {"pending"}]
         \cup [op : {"cancel"}, key : Keys, to : {"canceled"} \cap Targets]
         \cup [op : {"status"}, key : Keys, to : Targets]

At(r, label) == req[r].pc = label

\* from is filled in by the transaction when it reads the row.
Submit(r, o) ==
    /\ At(r, "idle")
    /\ req' = [req EXCEPT ![r] = [pc |-> "begin", op |-> o.op, key |-> o.key,
                                  to |-> o.to, from |-> Absent]]
    /\ UNCHANGED <<task, rows, outbox, streamed, lock, leaked>>

\* Connections of the Go pool: open transactions and abandoned ones.
InUse == Cardinality({ r \in GoRequests : req[r].pc \in {"wait", "write"} })
           + Cardinality(leaked)

Begin(r) ==
    /\ At(r, "begin")
    /\ r \in GoRequests => InUse < PoolSize
    /\ req' = [req EXCEPT ![r].pc = "wait"]
    /\ UNCHANGED <<task, rows, outbox, streamed, lock, leaked>>

-----------------------------------------------------------------------------
(* The first statement of the transaction.                                 *)

\* INSERT ... ON CONFLICT DO NOTHING inserts: the key is this transaction's.
InsertTask(r) ==
    LET k == req[r].key
    IN  /\ At(r, "wait") /\ req[r].op = "create"
        /\ task[k] = Absent
        /\ lock[k] = "free"
        /\ lock' = [lock EXCEPT ![k] = r]
        /\ req'  = [req EXCEPT ![r].pc = "write"]
        /\ UNCHANGED <<task, rows, outbox, streamed, leaked>>

\* The key exists: the row is read, whoever has it locked, and returned.
ReturnExisting(r) ==
    /\ At(r, "wait") /\ req[r].op = "create"
    /\ task[req[r].key] # Absent
    /\ req' = [req EXCEPT ![r] = Idle]
    /\ UNCHANGED <<task, rows, outbox, streamed, lock, leaked>>

\* Mutant of LockTask: SELECT without FOR UPDATE.
ReadTask(r) ==
    LET k == req[r].key
    IN  /\ At(r, "wait") /\ req[r].op # "create"
        /\ task[k] \notin {Absent, req[r].to}
        /\ CanTransition(task[k], req[r].to)
        /\ req' = [req EXCEPT ![r].pc = "write", ![r].from = task[k]]
        /\ UNCHANGED <<task, rows, outbox, streamed, lock, leaked>>

\* SELECT ... FOR UPDATE returns the row, and the transition is legal.
LockTask(r) ==
    LET k == req[r].key
    IN  /\ At(r, "wait") /\ req[r].op # "create"
        /\ lock[k] = "free"
        /\ task[k] \notin {Absent, req[r].to}
        /\ CanTransition(task[k], req[r].to)
        /\ lock' = [lock EXCEPT ![k] = r]
        /\ req'  = [req EXCEPT ![r].pc = "write", ![r].from = task[k]]
        /\ UNCHANGED <<task, rows, outbox, streamed, leaked>>

\* There is no such task (rolled back), or it has the status asked for
\* (committed without a write).
NothingToDo(r) ==
    LET k == req[r].key
    IN  /\ At(r, "wait") /\ req[r].op # "create"
        /\ \/ task[k] = Absent
           \/ lock[k] = "free" /\ task[k] = req[r].to
        /\ req' = [req EXCEPT ![r] = Idle]
        /\ UNCHANGED <<task, rows, outbox, streamed, lock, leaked>>

\* The table forbids the transition.  Python leaves its transaction block; Go
\* returns ErrInvalidTaskTransition while err is nil, so the deferred rollback
\* does not run: connection, transaction and row lock stay behind.
RejectTransition(r) ==
    LET k == req[r].key
    IN  /\ At(r, "wait") /\ req[r].op # "create"
        /\ lock[k] = "free"
        /\ task[k] # Absent
        /\ ~CanTransition(task[k], req[r].to)
        /\ IF r \in GoRequests
           THEN /\ lock'   = [lock EXCEPT ![k] = "leaked"]
                /\ leaked' = leaked \cup {k}
           ELSE UNCHANGED <<lock, leaked>>
        /\ req' = [req EXCEPT ![r] = Idle]
        /\ UNCHANGED <<task, rows, outbox, streamed>>

-----------------------------------------------------------------------------
(* The writes and the commit.                                              *)

\* Mutant of EventType: the status is passed where the type belongs.
EventTypeSwapped(o) == o.to

\* The event type the handler passes, or the table's.
EventType(o) ==
    CASE o.op = "create" -> "task_created"
      [] o.op = "cancel" -> "task_canceled"
      [] OTHER           -> EventTypeForTransition(o.from, o.to)

\* Go gives the created row the id of its envelope; every other row gets one
\* from the database.
RowId(r, n) ==
    EventId(req[r].key, n, IF r \in GoRequests /\ req[r].op = "create"
                           THEN "handler" ELSE "database")

\* Mutant of Commit: the transaction writes and is never ended.
CommitForgotten(r) ==
    LET o == req[r]
        k == o.key
        n == Len(rows[k]) + 1
    IN  /\ At(r, "write")
        /\ task' = [task EXCEPT ![k] = o.to]
        /\ rows' = [rows EXCEPT ![k] = Append(@,
             [id |-> RowId(r, n), type |-> EventType(o), from |-> o.from, to |-> o.to])]
        /\ outbox' = [outbox EXCEPT ![k] = Append(@,
             [id |-> EventId(k, n, "handler"), type |-> EventType(o)])]
        /\ req' = [req EXCEPT ![r] = Idle]
        /\ UNCHANGED <<streamed, lock, leaked>>

\* A commit whose answer the client never sees looks the same here.
Commit(r) ==
    LET o == req[r]
        k == o.key
        n == Len(rows[k]) + 1
    IN  /\ At(r, "write")
        /\ task' = [task EXCEPT ![k] = o.to]
        /\ rows' = [rows EXCEPT ![k] = Append(@,
             [id |-> RowId(r, n), type |-> EventType(o), from |-> o.from, to |-> o.to])]
        /\ outbox' = IF r \in GoRequests
                     THEN [outbox EXCEPT ![k] = Append(@,
                            [id |-> EventId(k, n, "handler"), type |-> EventType(o)])]
                     ELSE outbox
        /\ lock' = [lock EXCEPT ![k] = "free"]
        /\ req'  = [req EXCEPT ![r] = Idle]
        /\ UNCHANGED <<streamed, leaked>>

\* Mutant of Abort: the deferred rollback does not see the error.
AbortKeepsLock(r) ==
    /\ ~At(r, "idle")
    /\ req' = [req EXCEPT ![r] = Idle]
    /\ UNCHANGED <<task, rows, outbox, streamed, lock, leaked>>

\* A statement fails, or the request's deadline ends its wait: rolled back.
Abort(r) ==
    /\ ~At(r, "idle")
    /\ lock' = [k \in Keys |-> IF lock[k] = r THEN "free" ELSE lock[k]]
    /\ req'  = [req EXCEPT ![r] = Idle]
    /\ UNCHANGED <<task, rows, outbox, streamed, leaked>>

\* The Go API dies; Postgres rolls back the transactions of its connections.
Restart ==
    /\ lock'   = [k \in Keys |-> IF lock[k] \in GoRequests \cup {"leaked"}
                                 THEN "free" ELSE lock[k]]
    /\ leaked' = {}
    /\ req'    = [r \in Requests |-> IF r \in GoRequests THEN Idle ELSE req[r]]
    /\ UNCHANGED <<task, rows, outbox, streamed>>

-----------------------------------------------------------------------------
(* The consumer stores an envelope of the topic, any number of times and   *)
(* in any order.  A row that is really inserted takes a FOR KEY SHARE lock *)
(* on its task, which waits for a FOR UPDATE lock.                         *)

RowIds(k) == { rows[k][i].id : i \in DOMAIN rows[k] }

\* Mutant of InsertTaskEventFromStream: ON CONFLICT (task_id).
InsertOncePerTask(k, i) ==
    /\ i \in DOMAIN outbox[k]
    /\ \A id \in RowIds(k) \cup streamed : id.key # k
    /\ lock[k] = "free"
    /\ streamed' = streamed \cup {outbox[k][i].id}
    /\ UNCHANGED <<task, rows, outbox, lock, leaked, req>>

InsertTaskEventFromStream(k, i) ==
    /\ i \in DOMAIN outbox[k]
    /\ outbox[k][i].id \notin RowIds(k) \cup streamed
    /\ lock[k] = "free"
    /\ streamed' = streamed \cup {outbox[k][i].id}
    /\ UNCHANGED <<task, rows, outbox, lock, leaked, req>>

-----------------------------------------------------------------------------
MaxChanges == 3  \* pending, running and a terminal status

\* What a request does once it holds a connection.
Proceed(r) ==
    InsertTask(r) \/ ReturnExisting(r) \/ LockTask(r) \/ NothingToDo(r) \/ RejectTransition(r)

Next ==
    \/ \E r \in Requests :
        \/ \E o \in Ops : Submit(r, o)
        \/ Begin(r)
        \/ Proceed(r)
        \/ Commit(r)
        \/ Abort(r)
    \/ Restart
    \/ \E k \in Keys, i \in 1 .. MaxChanges : InsertTaskEventFromStream(k, i)

Spec == Init /\ [][Next]_vars

\* Postgres queues those who wait for a lock and the pool those who wait for a
\* connection (strong fairness: it is taken and free now and then), and a
\* transaction that holds its lock commits or aborts.  The consumer's insert
\* has no deadline.  Nothing makes a client or an error come.
Fairness ==
    /\ \A r \in Requests : /\ SF_vars(Begin(r))
                           /\ SF_vars(Proceed(r))
                           /\ WF_vars(Commit(r))
    /\ \A k \in Keys, i \in 1 .. MaxChanges : SF_vars(InsertTaskEventFromStream(k, i))

FairSpec == Spec /\ Fairness

-----------------------------------------------------------------------------
(* Properties                                                              *)

Request == [pc : {"begin", "wait", "write"}, op : {"create", "cancel", "status"},
            key : Keys, to : TaskStatuses \cup {Unknown}, from : TaskStatuses \cup {Absent}]

EventIds == [key : Keys, n : Nat, by : {"handler", "database"}]
EventTypes == {"", "task_created"} \cup { TaskTransitions[e] : e \in DOMAIN TaskTransitions }
Row      == [id : EventIds, type : EventTypes, from : TaskStatuses \cup {Absent},
             to : TaskStatuses \cup {Unknown}]
Envelope == [id : EventIds, type : EventTypes]

TypeOK ==
    /\ task     \in [Keys -> TaskStatuses \cup {Absent, Unknown}]
    /\ rows     \in [Keys -> Seq(Row)]
    /\ outbox   \in [Keys -> Seq(Envelope)]
    /\ streamed \in SUBSET EventIds
    /\ lock     \in [Keys -> Requests \cup {"free", "leaked"}]
    /\ leaked   \in SUBSET Keys
    /\ req      \in [Requests -> Request \cup {Idle}]

\* One legal change, with the event type that belongs to it.
Legal(e) ==
    \/ e.from = Absent /\ e.to = "pending" /\ e.type = "task_created"
    \/ <<e.from, e.to>> \in DOMAIN TaskTransitions /\ e.type = TaskTransitions[<<e.from, e.to>>]

\* The task_events rows of a task are its life: it is created once, each row
\* starts where the row before it ended, every step is in the transition table,
\* and the last row is the status the task has.  Concurrent creates, cancels
\* and updates, rollbacks and process deaths, in Go and in Python, keep it so.
HistoryIsPath ==
    \A k \in Keys :
        /\ \A i \in DOMAIN rows[k] :
            /\ Legal(rows[k][i])
            /\ rows[k][i].from = IF i = 1 THEN Absent ELSE rows[k][i - 1].to
        /\ task[k] = IF rows[k] = <<>> THEN Absent ELSE rows[k][Len(rows[k])].to

\* As long as only Go writes, the outbox tells the same story in the same order.
OutboxMatchesHistory ==
    \A k \in Keys :
        /\ Len(outbox[k]) = Len(rows[k])
        /\ \A i \in DOMAIN rows[k] : outbox[k][i].type = rows[k][i].type

\* Row locks and transactions account for each other: who writes a task holds its
\* lock; a lock is held by the request that writes the task, or was left behind by
\* a transition that Go rejected on an existing row; and nothing else leaks one:
\* no abort at any point, no commit, no restart, no create that lost its race.
LocksAreOwned ==
    /\ \A r \in Requests : At(r, "write") => lock[req[r].key] = r
    /\ \A k \in Keys : lock[k] \notin {"free", "leaked"} =>
          \E r \in Requests : lock[k] = r /\ At(r, "write") /\ req[r].key = k
    /\ leaked = { k \in Keys : lock[k] = "leaked" }
    /\ \A k \in leaked : task[k] # Absent

StreamedOf(k) == { id \in streamed : id.key = k }

\* What a rejected Go transition costs: from then until the API restarts the task
\* keeps its status, its history and its outbox, and no event of the topic is
\* stored for it, whatever the other requests, Go's or Python's, do meanwhile.
AbandonedTasksFreeze ==
    [][\A k \in leaked \cap leaked' :
         /\ task'[k] = task[k] /\ rows'[k] = rows[k] /\ outbox'[k] = outbox[k]
         /\ StreamedOf(k)' = StreamedOf(k)]_vars

\* A change of a task is in task_events once.
OneRowPerChange == streamed = {}

\* A request is answered without the help of its deadline.
EveryRequestAnswered ==
    \A r \in Requests : At(r, "begin") ~> At(r, "idle")

\* Every event of the outbox is in task_events in the end.
EveryEventStored ==
    \A k \in Keys : \A i \in 1 .. MaxChanges :
        (i \in DOMAIN outbox[k]) ~>
            (i \in DOMAIN outbox[k] /\ outbox[k][i].id \in RowIds(k) \cup streamed)
=============================================================================
