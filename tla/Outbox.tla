------------------------------- MODULE Outbox -------------------------------
(***************************************************************************)
(* The outbox worker: rows of outbox_events are claimed by periodic scans, *)
(* handed to asynq as dispatch tasks, published to Kafka and marked.       *)
(*                                                                         *)
(* Each handler reads the row once (GetByID or the RETURNING of the claim) *)
(* and later writes what it computed from that read; the updates have no   *)
(* guard on the row's status.  A handler is therefore modelled by one step *)
(* per database, Redis or Kafka call, so that other handlers run between.  *)
(*                                                                         *)
(* External parts, modelled from how the worker uses them: Postgres (each  *)
(* statement is atomic, and may fail before or after taking effect), asynq *)
(* (a task whose handler errs or dies is run again until its retries are   *)
(* used up, in no particular order) and Kafka (a publish that reports an   *)
(* error may have been written).                                           *)
(***************************************************************************)
EXTENDS Integers, FiniteSets

CONSTANTS
    Events,         \* outbox rows, numbered by created_at
    Workers,        \* asynq handler goroutines, of all worker processes
    TaskIds,        \* asynq task slots: the BOUND on tasks alive at once
    BatchSize,      \* OUTBOX_BATCH_SIZE
    MaxAttempts,    \* OUTBOX_MAX_ATTEMPTS
    AsynqMaxRetry,  \* asynq's retry limit of a task
    Faults          \* which of "crash", "db", "kafka", "redis" may happen

ASSUME OutboxAssumption ==
    /\ Events \subseteq Nat \ {0}
    /\ "none" \notin TaskIds
    /\ BatchSize \in Nat \ {0}
    /\ MaxAttempts \in Nat \ {0}
    /\ AsynqMaxRetry \in Nat
    /\ Faults \subseteq {"crash", "db", "kafka", "redis"}

VARIABLES
    status,    \* status column; "absent" before the insert commits
    attempts,  \* attempts column
    due,       \* next_retry_at IS NULL OR next_retry_at <= now()
    tasks,     \* asynq: the dispatch tasks in Redis
    pc,        \* where each handler is
    batch,     \* rows a scan has claimed and not enqueued yet
    job,       \* the asynq task a dispatch handler runs
    cur,       \* the row a handler works on
    seen,      \* attempts as the handler read it
    topic,     \* events that are in Kafka
    failures   \* history: failed enqueues and publishes, up to MaxAttempts

rowVars == <<status, attempts, due>>
hVars   == <<pc, batch, job, cur, seen>>
vars    == <<rowVars, tasks, hVars, topic, failures>>

Status == {"absent", "pending", "sending", "delivered", "dead"}
PC     == {"idle", "scan", "enqueueFailed", "publish", "publishFailed", "published"}

NoEvent == 0
NoJob   == "none"
NoTask  == [state |-> "free", ev |-> NoEvent, retried |-> 0]
Task    == [state : {"queued", "active"}, ev : Events, retried : 0 .. AsynqMaxRetry]

HandlerTypeOK ==
    /\ pc    \in [Workers -> PC]
    /\ batch \in [Workers -> SUBSET Events]
    /\ job   \in [Workers -> TaskIds \cup {NoJob}]
    /\ cur   \in [Workers -> Events \cup {NoEvent}]
    /\ seen  \in [Workers -> [Events -> 0 .. MaxAttempts - 1]]

TypeOK ==
    /\ status   \in [Events -> Status]
    /\ attempts \in [Events -> 0 .. MaxAttempts]
    /\ due      \in [Events -> BOOLEAN]
    /\ tasks    \in [TaskIds -> Task \cup {NoTask}]
    /\ HandlerTypeOK
    /\ topic    \in SUBSET Events
    /\ failures \in [Events -> 0 .. MaxAttempts]

Init ==
    /\ status   = [e \in Events |-> "absent"]
    /\ attempts = [e \in Events |-> 0]
    /\ due      = [e \in Events |-> TRUE]
    /\ tasks    = [t \in TaskIds |-> NoTask]
    /\ pc       = [w \in Workers |-> "idle"]
    /\ batch    = [w \in Workers |-> {}]
    /\ job      = [w \in Workers |-> NoJob]
    /\ cur      = [w \in Workers |-> NoEvent]
    /\ seen     = [w \in Workers |-> [e \in Events |-> 0]]
    /\ topic    = {}
    /\ failures = [e \in Events |-> 0]

-----------------------------------------------------------------------------
(* The rows.                                                               *)

\* A business transaction that recorded the event commits.
Insert(e) ==
    /\ status[e] = "absent"
    /\ status' = [status EXCEPT ![e] = "pending"]
    /\ UNCHANGED <<attempts, due, tasks, hVars, topic, failures>>

\* The clock passes next_retry_at.
RetryDue(e) ==
    /\ status[e] = "pending"
    /\ ~due[e]
    /\ due' = [due EXCEPT ![e] = TRUE]
    /\ UNCHANGED <<status, attempts, tasks, hVars, topic, failures>>

\* Mutant of MarkFailed: one attempt too many.
MarkFailedLate(e, n) ==
    /\ status'   = [status EXCEPT ![e] = IF n > MaxAttempts THEN "dead" ELSE "pending"]
    /\ attempts' = [attempts EXCEPT ![e] = n]
    /\ due'      = [due EXCEPT ![e] = n > MaxAttempts]

\* Mutant of MarkFailed: gives up one attempt too early.
MarkFailedEarly(e, n) ==
    /\ status'   = [status EXCEPT ![e] = IF n + 1 >= MaxAttempts THEN "dead" ELSE "pending"]
    /\ attempts' = [attempts EXCEPT ![e] = n]
    /\ due'      = [due EXCEPT ![e] = n + 1 >= MaxAttempts]

\* UPDATE ... SET status, attempts, next_retry_at, with no status guard.
MarkFailed(e, n) ==
    /\ status'   = [status EXCEPT ![e] = IF n >= MaxAttempts THEN "dead" ELSE "pending"]
    /\ attempts' = [attempts EXCEPT ![e] = n]
    /\ due'      = [due EXCEPT ![e] = n >= MaxAttempts]

\* The caller drops MarkFailed's error, so a lost update looks the same to it.
TryMarkFailed(e, n) ==
    \/ MarkFailed(e, n)
    \/ "db" \in Faults /\ UNCHANGED rowVars

CountFailure(e) ==
    failures' = [failures EXCEPT ![e] = IF @ < MaxAttempts THEN @ + 1 ELSE @]

-----------------------------------------------------------------------------
(* The handlers, and asynq's bookkeeping of the tasks they run.            *)

Become(w, newPc, newBatch, newJob, newCur, newSeen) ==
    /\ pc'    = [pc    EXCEPT ![w] = newPc]
    /\ batch' = [batch EXCEPT ![w] = newBatch]
    /\ job'   = [job   EXCEPT ![w] = newJob]
    /\ cur'   = [cur   EXCEPT ![w] = newCur]
    /\ seen'  = [seen  EXCEPT ![w] = newSeen]

Unseen == [e \in Events |-> 0]

Finish(w) == Become(w, "idle", {}, NoJob, NoEvent, Unseen)

\* The handler returned nil: asynq deletes the task.
Complete(t) == tasks' = [tasks EXCEPT ![t] = NoTask]

\* Mutant of Rescheduled: the retry limit is not looked at.
RescheduledForever(k) == [state |-> "queued", ev |-> k.ev, retried |-> k.retried + 1]

\* The handler returned an error or died: asynq schedules the task again, or
\* archives it, which this worker never undoes.
Rescheduled(k) ==
    IF k.retried < AsynqMaxRetry
    THEN [state |-> "queued", ev |-> k.ev, retried |-> k.retried + 1]
    ELSE NoTask

Retry(t) == tasks' = [tasks EXCEPT ![t] = Rescheduled(@)]

-----------------------------------------------------------------------------
(* outbox.scan                                                             *)

\* Mutant of Claimable: the query does not look at the status.
ClaimableAnyStatus == { e \in Events : status[e] # "absent" /\ due[e] }

\* Mutant of Claimable: rows that failed once are not picked up again.
ClaimableOnce == { e \in Events : status[e] = "pending" /\ due[e] /\ attempts[e] = 0 }

Claimable == { e \in Events : status[e] = "pending" /\ due[e] }

\* ORDER BY created_at ASC LIMIT n
Oldest(S, n) == { e \in S : Cardinality({ f \in S : f < e }) < n }

Claimed == Oldest(Claimable, BatchSize)

\* Mutant of ClaimRows: the rows are selected and not updated.
ClaimRowsReadOnly == UNCHANGED status

ClaimRows == status' = [e \in Events |-> IF e \in Claimed THEN "sending" ELSE status[e]]

ClaimPending(w) ==
    /\ pc[w] = "idle"
    /\ Claimable # {}
    /\ ClaimRows
    /\ Become(w, "scan", Claimed, NoJob, NoEvent,
              [e \in Events |-> IF e \in Claimed THEN attempts[e] ELSE 0])
    /\ UNCHANGED <<attempts, due, tasks, topic, failures>>

\* The statement committed but its result did not reach the worker.
ClaimLost(w) ==
    /\ "db" \in Faults
    /\ pc[w] = "idle"
    /\ Claimable # {}
    /\ ClaimRows
    /\ UNCHANGED <<attempts, due, tasks, hVars, topic, failures>>

\* The scan is done with row e and turns to the next one.
NextInBatch(w, e) ==
    LET rest == batch[w] \ {e}
    IN  IF rest = {}
        THEN Finish(w)
        ELSE Become(w, "scan", rest, NoJob, NoEvent, [seen[w] EXCEPT ![e] = 0])

AddTask(t, e) ==
    /\ tasks[t] = NoTask
    /\ tasks' = [tasks EXCEPT ![t] = [state |-> "queued", ev |-> e, retried |-> 0]]

Enqueue(w, e, t) ==
    /\ pc[w] = "scan"
    /\ e \in batch[w]
    /\ AddTask(t, e)
    /\ NextInBatch(w, e)
    /\ UNCHANGED <<rowVars, topic, failures>>

\* Enqueue reports an error; Redis may hold the task all the same.
EnqueueFails(w, e) ==
    /\ "redis" \in Faults
    /\ pc[w] = "scan"
    /\ e \in batch[w]
    /\ \/ UNCHANGED tasks
       \/ \E t \in TaskIds : AddTask(t, e)
    /\ Become(w, "enqueueFailed", batch[w], NoJob, e, seen[w])
    /\ CountFailure(e)
    /\ UNCHANGED <<rowVars, topic>>

\* Mutant of ScanMarkFailed: the error of Enqueue is only logged.
ScanMarkFailedLogs(w) ==
    /\ pc[w] = "enqueueFailed"
    /\ NextInBatch(w, cur[w])
    /\ UNCHANGED <<rowVars, tasks, topic, failures>>

ScanMarkFailed(w) ==
    /\ pc[w] = "enqueueFailed"
    /\ TryMarkFailed(cur[w], seen[w][cur[w]] + 1)
    /\ NextInBatch(w, cur[w])
    /\ UNCHANGED <<tasks, topic, failures>>

-----------------------------------------------------------------------------
(* outbox.dispatch                                                         *)

\* Mutant of DispatchRead: the row is marked before it is published.
DispatchMarksFirst(w, t) ==
    /\ pc[w] = "idle"
    /\ tasks[t].state = "queued"
    /\ status[tasks[t].ev] \notin {"delivered", "dead"}
    /\ tasks' = [tasks EXCEPT ![t] = [@ EXCEPT !.state = "active"]]
    /\ Become(w, "publish", {}, t, tasks[t].ev,
              [Unseen EXCEPT ![tasks[t].ev] = attempts[tasks[t].ev]])
    /\ status' = [status EXCEPT ![tasks[t].ev] = "delivered"]
    /\ UNCHANGED <<attempts, due, topic, failures>>

DispatchRead(w, t) ==
    /\ pc[w] = "idle"
    /\ tasks[t].state = "queued"
    /\ status[tasks[t].ev] \notin {"delivered", "dead"}
    /\ tasks' = [tasks EXCEPT ![t] = [@ EXCEPT !.state = "active"]]
    /\ Become(w, "publish", {}, t, tasks[t].ev,
              [Unseen EXCEPT ![tasks[t].ev] = attempts[tasks[t].ev]])
    /\ UNCHANGED <<rowVars, topic, failures>>

DispatchSkip(w, t) ==
    /\ pc[w] = "idle"
    /\ tasks[t].state = "queued"
    /\ status[tasks[t].ev] \in {"delivered", "dead"}
    /\ Complete(t)
    /\ UNCHANGED <<rowVars, hVars, topic, failures>>

DispatchReadFails(w, t) ==
    /\ "db" \in Faults
    /\ pc[w] = "idle"
    /\ tasks[t].state = "queued"
    /\ Retry(t)
    /\ UNCHANGED <<rowVars, hVars, topic, failures>>

Publish(w) ==
    /\ pc[w] = "publish"
    /\ topic' = topic \cup {cur[w]}
    /\ Become(w, "published", {}, job[w], cur[w], seen[w])
    /\ UNCHANGED <<rowVars, tasks, failures>>

\* Mutant of PublishFails: no return after the error.
PublishFailsGoesOn(w) ==
    /\ "kafka" \in Faults
    /\ pc[w] = "publish"
    /\ topic' \in {topic, topic \cup {cur[w]}}
    /\ CountFailure(cur[w])
    /\ Become(w, "published", {}, job[w], cur[w], seen[w])
    /\ UNCHANGED <<rowVars, tasks>>

PublishFails(w) ==
    /\ "kafka" \in Faults
    /\ pc[w] = "publish"
    /\ topic' \in {topic, topic \cup {cur[w]}}
    /\ CountFailure(cur[w])
    /\ Become(w, "publishFailed", {}, job[w], cur[w], seen[w])
    /\ UNCHANGED <<rowVars, tasks>>

\* UPDATE ... SET status = 'delivered', with no status guard.
MarkDelivered(w) ==
    /\ pc[w] = "published"
    /\ status' = [status EXCEPT ![cur[w]] = "delivered"]
    /\ Complete(job[w])
    /\ Finish(w)
    /\ UNCHANGED <<attempts, due, topic, failures>>

MarkDeliveredFails(w) ==
    /\ "db" \in Faults
    /\ pc[w] = "published"
    /\ status' \in {status, [status EXCEPT ![cur[w]] = "delivered"]}
    /\ Retry(job[w])
    /\ Finish(w)
    /\ UNCHANGED <<attempts, due, topic, failures>>

\* The last attempt returns nil, the others return the publish error.
DispatchMarkFailed(w) ==
    LET n == seen[w][cur[w]] + 1
    IN  /\ pc[w] = "publishFailed"
        /\ TryMarkFailed(cur[w], n)
        /\ IF n >= MaxAttempts THEN Complete(job[w]) ELSE Retry(job[w])
        /\ Finish(w)
        /\ UNCHANGED <<topic, failures>>

-----------------------------------------------------------------------------
(* A handler dies with its process.  asynq recovers the dispatch task it   *)
(* ran; what a scan had claimed and not enqueued is forgotten.             *)

Crash(w) ==
    /\ "crash" \in Faults
    /\ pc[w] # "idle"
    /\ IF job[w] = NoJob THEN UNCHANGED tasks ELSE Retry(job[w])
    /\ Finish(w)
    /\ UNCHANGED <<rowVars, topic, failures>>

-----------------------------------------------------------------------------
Dispatch(w, t) == DispatchRead(w, t) \/ DispatchSkip(w, t)

\* What a handler that is running does next, whatever the outcome.
Continue(w) ==
    \/ \E e \in Events : EnqueueFails(w, e) \/ \E t \in TaskIds : Enqueue(w, e, t)
    \/ ScanMarkFailed(w)
    \/ Publish(w)
    \/ PublishFails(w)
    \/ MarkDelivered(w)
    \/ MarkDeliveredFails(w)
    \/ DispatchMarkFailed(w)

Next ==
    \/ \E e \in Events : Insert(e) \/ RetryDue(e)
    \/ \E w \in Workers :
        \/ ClaimPending(w)
        \/ ClaimLost(w)
        \/ \E t \in TaskIds : Dispatch(w, t) \/ DispatchReadFails(w, t)
        \/ Continue(w)
        \/ Crash(w)

Spec == Init /\ [][Next]_vars

\* asynq keeps running: a running handler goes on, the clock advances, the
\* periodic scan and every queued task get a free handler in the end (one
\* FIFO queue, so strong fairness: the handlers are busy now and then).
Fairness ==
    /\ \A e \in Events : WF_vars(RetryDue(e))
    /\ \A w \in Workers : WF_vars(Continue(w))
    /\ SF_vars(\E w \in Workers : ClaimPending(w))
    /\ \A t \in TaskIds : SF_vars(\E w \in Workers : Dispatch(w, t))

FairSpec == Spec /\ Fairness

-----------------------------------------------------------------------------
(* Properties                                                              *)

\* An event is dead-lettered only after OUTBOX_MAX_ATTEMPTS enqueues or
\* publishes of it really failed, although concurrent handlers overwrite one
\* another's attempts with values computed from stale reads.
DeadMeansExhausted ==
    \A e \in Events : status[e] = "dead" => failures[e] = MaxAttempts

\* A row marked delivered is in Kafka: no interleaving of retries, re-claims
\* and crashes marks an event that was never written.
DeliveredMeansPublished ==
    \A e \in Events : status[e] = "delivered" => e \in topic

\* A row that can be picked up again still has an attempt left, and a
\* dead-lettered one has none: the two columns agree under lost updates.
BudgetMatchesStatus ==
    \A e \in Events :
        /\ status[e] \in {"absent", "pending", "sending"} => attempts[e] < MaxAttempts
        /\ status[e] = "dead" => attempts[e] = MaxAttempts

\* Someone still works for the row: a scan that claimed it, or a task.
Owned(e) ==
    \/ \E w \in Workers : e \in batch[w]
    \/ \E t \in TaskIds : tasks[t].ev = e

\* While Postgres answers and no process dies, every row in "sending" has a
\* scan or a task that will move it on: nothing else ever looks at it.
SendingIsOwned ==
    \A e \in Events : status[e] = "sending" => Owned(e)

\* The row lock that status "sending" stands for: under every fault of Postgres,
\* Kafka and Redis and whatever process dies, two handlers work on an event at
\* once only after an enqueue or a publish of it has failed.
ExclusiveDispatch ==
    \A v, w \in Workers :
        v # w /\ cur[v] = cur[w] /\ cur[v] # NoEvent => failures[cur[v]] > 0

\* A handler has claimed or read the row and may still write it.
AtWork(e) == \E w \in Workers : cur[w] = e \/ e \in batch[w]

\* A verdict can be revised only by a handler that read the row before it was
\* given and marks its own failure late.  Once all of these are through, nothing
\* takes the row up again, whatever tasks asynq still holds for it: the verdict
\* is final.
VerdictStands ==
    [][\A e \in Events :
        status[e] \in {"delivered", "dead"} /\ ~AtWork(e)
            => status'[e] = status[e] /\ ~AtWork(e)']_vars

\* Every recorded event ends up delivered or dead-lettered.
EventuallySettled ==
    \A e \in Events :
        status[e] = "pending" ~> status[e] \in {"delivered", "dead"}

-----------------------------------------------------------------------------
(* The abstract delivery promise, and what it is in terms of the rows.     *)

Delivery == INSTANCE EventDelivery WITH
    recorded <- { e \in Events : status[e] # "absent" },
    verdict  <- [e \in Events |->
                    IF status[e] \in {"delivered", "dead"} THEN status[e] ELSE "open"]

\* The worker implements the promise: with crashes, lost statements and failed
\* publishes, nothing is published that was not recorded, and no verdict is
\* given that the topic and the failures do not bear out.
ImplementsDelivery == Delivery!Spec
=============================================================================
