---------------------------- MODULE Outbox_proofs ----------------------------
(***************************************************************************)
(* Proofs about the outbox worker, for any number of rows, handlers and    *)
(* task slots, any limits and any set of faults.                           *)
(***************************************************************************)
EXTENDS Outbox, TLAPS

-----------------------------------------------------------------------------
(* Type correctness.  A task handler may only re-queue a task that is its  *)
(* own, so the types rest on who runs which task.                          *)

JobsAreActive ==
    /\ \A w \in Workers :
        /\ pc[w] \in {"idle", "scan", "enqueueFailed"} <=> job[w] = NoJob
        /\ job[w] # NoJob => tasks[job[w]].state = "active"
    /\ \A v, w \in Workers : job[v] = job[w] /\ job[v] # NoJob => v = w

\* Handlers that work on a row know which one.
CursorsAreSet ==
    \A w \in Workers :
        /\ pc[w] \notin {"idle", "scan"} => cur[w] \in Events
        /\ pc[w] = "enqueueFailed" => cur[w] \in batch[w]

TInv == TypeOK /\ JobsAreActive /\ CursorsAreSet /\ BudgetMatchesStatus

LEMMA ClaimedFacts ==
    /\ Claimed \subseteq Events
    /\ \A e \in Claimed : status[e] = "pending"
BY DEF Claimed, Oldest, Claimable

\* The only two ways asynq's bookkeeping changes a task that a handler ran.
LEMMA RescheduledType ==
    ASSUME NEW k \in Task
    PROVE  Rescheduled(k) \in Task \cup {NoTask}
BY OutboxAssumption DEF Rescheduled, Task

\* A step that moves one handler leaves well-typed handlers.
LEMMA BecomeType ==
    ASSUME HandlerTypeOK, NEW w \in Workers,
           NEW p \in PC, NEW b \in SUBSET Events, NEW j \in TaskIds \cup {NoJob},
           NEW c \in Events \cup {NoEvent}, NEW s \in [Events -> 0 .. MaxAttempts - 1],
           Become(w, p, b, j, c, s)
    PROVE  HandlerTypeOK'
BY DEF Become, HandlerTypeOK

LEMMA FinishType ==
    ASSUME HandlerTypeOK, NEW w \in Workers, Finish(w)
    PROVE  HandlerTypeOK'
<1>1. Unseen \in [Events -> 0 .. MaxAttempts - 1]
  BY OutboxAssumption DEF Unseen
<1> QED
  BY <1>1, BecomeType DEF Finish, PC

LEMMA NextInBatchType ==
    ASSUME HandlerTypeOK, NEW w \in Workers, NEW e \in Events, NextInBatch(w, e)
    PROVE  HandlerTypeOK'
<1>1. CASE batch[w] \ {e} = {}
  BY <1>1, FinishType DEF NextInBatch
<1>2. CASE batch[w] \ {e} # {}
  <2>1. [seen[w] EXCEPT ![e] = 0] \in [Events -> 0 .. MaxAttempts - 1]
    BY OutboxAssumption DEF HandlerTypeOK
  <2>2. batch[w] \ {e} \in SUBSET Events
    BY DEF HandlerTypeOK
  <2> QED
    BY <1>2, <2>1, <2>2, BecomeType DEF NextInBatch, PC
<1> QED
  BY <1>1, <1>2

\* A handler that has read an attempts value can count one more.
LEMMA SeenRange ==
    ASSUME TInv, NEW w \in Workers, cur[w] \in Events
    PROVE  seen[w][cur[w]] + 1 \in 1 .. MaxAttempts
<1>1. seen[w][cur[w]] \in 0 .. MaxAttempts - 1
  BY DEF TInv, TypeOK, HandlerTypeOK
<1> QED
  BY <1>1, OutboxAssumption

\* Both outcomes of an UPDATE that marks a failed attempt.
LEMMA TryMarkFailedType ==
    ASSUME TypeOK, BudgetMatchesStatus,
           NEW e \in Events, NEW n \in 1 .. MaxAttempts, TryMarkFailed(e, n)
    PROVE  /\ status' \in [Events -> Status]
           /\ attempts' \in [Events -> 0 .. MaxAttempts]
           /\ due' \in [Events -> BOOLEAN]
           /\ BudgetMatchesStatus'
<1> USE OutboxAssumption
<1>1. CASE MarkFailed(e, n)
  <2>1. (n >= MaxAttempts) \in BOOLEAN
    OBVIOUS
  <2>2. due' \in [Events -> BOOLEAN]
    BY <1>1, <2>1, Zenon DEF MarkFailed, TypeOK
  <2> QED
    BY <1>1, <2>2 DEF MarkFailed, TypeOK, Status, BudgetMatchesStatus
<1>2. CASE UNCHANGED rowVars
  BY <1>2 DEF rowVars, TypeOK, BudgetMatchesStatus
<1> QED
  BY <1>1, <1>2 DEF TryMarkFailed

LEMMA CountFailureType ==
    ASSUME TypeOK, NEW e \in Events, CountFailure(e)
    PROVE  /\ failures' \in [Events -> 0 .. MaxAttempts]
           /\ \A f \in Events : failures[f] <= failures'[f]
           /\ failures'[e] = MaxAttempts \/ failures'[e] = failures[e] + 1
BY OutboxAssumption DEF CountFailure, TypeOK

LEMMA TInvInit == Init => TInv
<1> SUFFICES ASSUME Init PROVE TInv
  OBVIOUS
<1>1. TypeOK
  BY OutboxAssumption DEF Init, TypeOK, HandlerTypeOK, Status, PC
<1> QED
  BY <1>1, OutboxAssumption
     DEF Init, TInv, JobsAreActive, CursorsAreSet, BudgetMatchesStatus

\* What the steps that end a handler's work on a task have in common.
LEMMA EndOfTask ==
    ASSUME TInv, NEW w \in Workers, NEW t \in TaskIds, job[w] = t \/ pc[w] = "idle",
           tasks[t] \in Task,
           pc[w] = "idle" => tasks[t].state = "queued",
           Complete(t) \/ Retry(t),
           Finish(w) \/ (pc[w] = "idle" /\ UNCHANGED hVars)
    PROVE  /\ tasks' \in [TaskIds -> Task \cup {NoTask}]
           /\ HandlerTypeOK'
           /\ JobsAreActive'
           /\ CursorsAreSet'
<1>1. tasks' \in [TaskIds -> Task \cup {NoTask}]
  BY RescheduledType DEF TInv, TypeOK, Complete, Retry
<1>2. HandlerTypeOK'
  BY FinishType DEF TInv, TypeOK, HandlerTypeOK, hVars
<1>3. JobsAreActive' /\ CursorsAreSet'
  <2>1. CASE Finish(w)
    BY <2>1 DEF TInv, TypeOK, HandlerTypeOK, JobsAreActive, CursorsAreSet, Finish,
                Become, Complete, Retry, PC
  <2>2. CASE pc[w] = "idle" /\ UNCHANGED hVars
    BY <2>2 DEF TInv, TypeOK, HandlerTypeOK, JobsAreActive, CursorsAreSet, hVars,
                Complete, Retry
  <2> QED
    BY <2>1, <2>2
<1> QED
  BY <1>1, <1>2, <1>3

LEMMA TInvStep == TInv /\ [Next]_vars => TInv'
<1> SUFFICES ASSUME TInv, [Next]_vars
             PROVE  TInv'
  OBVIOUS
<1> USE OutboxAssumption DEF TInv
<1>1. ASSUME NEW e \in Events, Insert(e)
      PROVE  TInv'
  BY <1>1 DEF Insert, TypeOK, HandlerTypeOK, JobsAreActive, CursorsAreSet,
              BudgetMatchesStatus, hVars, Status
<1>2. ASSUME NEW e \in Events, RetryDue(e)
      PROVE  TInv'
  BY <1>2 DEF RetryDue, TypeOK, HandlerTypeOK, JobsAreActive, CursorsAreSet,
              BudgetMatchesStatus, hVars
<1>3. ASSUME NEW w \in Workers, ClaimPending(w)
      PROVE  TInv'
  <2> DEFINE s == [e \in Events |-> IF e \in Claimed THEN attempts[e] ELSE 0]
  <2>1. s \in [Events -> 0 .. MaxAttempts - 1]
    BY ClaimedFacts DEF TypeOK, BudgetMatchesStatus
  <2>2. HandlerTypeOK'
    BY <1>3, <2>1, ClaimedFacts, BecomeType DEF ClaimPending, TypeOK, PC
  <2>3. status' \in [Events -> Status] /\ BudgetMatchesStatus'
    BY <1>3, ClaimedFacts DEF ClaimPending, ClaimRows, TypeOK, Status, BudgetMatchesStatus
  <2>4. JobsAreActive' /\ CursorsAreSet'
    BY <1>3 DEF ClaimPending, Become, TypeOK, HandlerTypeOK, JobsAreActive, CursorsAreSet
  <2> QED
    BY <1>3, <2>2, <2>3, <2>4 DEF ClaimPending, TypeOK
<1>4. ASSUME NEW w \in Workers, ClaimLost(w)
      PROVE  TInv'
  <2>1. status' \in [Events -> Status] /\ BudgetMatchesStatus'
    BY <1>4, ClaimedFacts DEF ClaimLost, ClaimRows, TypeOK, Status, BudgetMatchesStatus
  <2> QED
    BY <1>4, <2>1
       DEF ClaimLost, TypeOK, HandlerTypeOK, JobsAreActive, CursorsAreSet, hVars
<1>5. ASSUME NEW w \in Workers, NEW t \in TaskIds, DispatchRead(w, t)
      PROVE  TInv'
  <2> DEFINE e == tasks[t].ev
  <2>1. tasks[t] \in Task /\ e \in Events
    BY <1>5 DEF DispatchRead, TypeOK, NoTask, Task
  <2>2. [tasks[t] EXCEPT !.state = "active"] \in Task
    BY <2>1 DEF Task
  <2>3. [Unseen EXCEPT ![e] = attempts[e]] \in [Events -> 0 .. MaxAttempts - 1]
    BY <1>5, <2>1 DEF DispatchRead, Unseen, TypeOK, Status, BudgetMatchesStatus
  <2>4. HandlerTypeOK'
    BY <1>5, <2>1, <2>3, BecomeType DEF DispatchRead, TypeOK, PC
  <2>5. JobsAreActive' /\ CursorsAreSet'
    <3>1. \A v \in Workers : job[v] # t
      BY <1>5 DEF DispatchRead, JobsAreActive, NoJob
    <3>2. /\ job' = [job EXCEPT ![w] = t] /\ pc' = [pc EXCEPT ![w] = "publish"]
          /\ cur' = [cur EXCEPT ![w] = e] /\ UNCHANGED <<status, attempts>>
          /\ tasks' = [tasks EXCEPT ![t] = [@ EXCEPT !.state = "active"]]
          /\ \A v \in Workers \ {w} : batch'[v] = batch[v]
      BY <1>5 DEF DispatchRead, Become, rowVars, TypeOK, HandlerTypeOK
    <3>3. tasks'[t].state = "active"
      BY <3>2, <2>1 DEF TypeOK, Task
    <3>4. JobsAreActive'
      BY <3>1, <3>2, <3>3 DEF TypeOK, HandlerTypeOK, JobsAreActive, NoJob
    <3> QED
      BY <2>1, <3>2, <3>4 DEF TypeOK, HandlerTypeOK, CursorsAreSet
  <2> QED
    BY <1>5, <2>2, <2>4, <2>5 DEF DispatchRead, TypeOK, rowVars, BudgetMatchesStatus
<1>6. ASSUME NEW w \in Workers, NEW t \in TaskIds,
             DispatchSkip(w, t) \/ DispatchReadFails(w, t)
      PROVE  TInv'
  <2>1. tasks[t] \in Task
    BY <1>6 DEF DispatchSkip, DispatchReadFails, TypeOK, NoTask
  <2> QED
    BY <1>6, <2>1, EndOfTask
       DEF DispatchSkip, DispatchReadFails, TypeOK, rowVars, BudgetMatchesStatus
<1>7. ASSUME NEW w \in Workers, NEW e \in Events, NEW t \in TaskIds, Enqueue(w, e, t)
      PROVE  TInv'
  <2>1. HandlerTypeOK'
    BY <1>7, NextInBatchType DEF Enqueue, TypeOK
  <2>2. tasks' \in [TaskIds -> Task \cup {NoTask}]
    BY <1>7 DEF Enqueue, AddTask, TypeOK, Task
  <2>3. JobsAreActive' /\ CursorsAreSet'
    <3>1. /\ job' = [job EXCEPT ![w] = NoJob] /\ job[w] = NoJob
          /\ pc' \in {[pc EXCEPT ![w] = "idle"], [pc EXCEPT ![w] = "scan"]}
          /\ cur' = [cur EXCEPT ![w] = NoEvent]
          /\ \A v \in Workers \ {w} : batch'[v] = batch[v]
      BY <1>7 DEF Enqueue, NextInBatch, Finish, Become, TypeOK, HandlerTypeOK, JobsAreActive
    <3>2. \A v \in Workers : job[v] # t
      BY <1>7 DEF Enqueue, AddTask, JobsAreActive, NoTask, NoJob
    <3>3. JobsAreActive'
      BY <1>7, <3>1, <3>2 DEF Enqueue, AddTask, TypeOK, HandlerTypeOK, JobsAreActive
    <3> QED
      BY <3>1, <3>3 DEF TypeOK, HandlerTypeOK, CursorsAreSet
  <2> QED
    BY <1>7, <2>1, <2>2, <2>3 DEF Enqueue, TypeOK, rowVars, BudgetMatchesStatus
<1>8. ASSUME NEW w \in Workers, NEW e \in Events, EnqueueFails(w, e)
      PROVE  TInv'
  <2>1. HandlerTypeOK'
    BY <1>8, BecomeType DEF EnqueueFails, TypeOK, HandlerTypeOK, PC
  <2>2. tasks' \in [TaskIds -> Task \cup {NoTask}]
    BY <1>8 DEF EnqueueFails, AddTask, TypeOK, Task
  <2>3. JobsAreActive' /\ CursorsAreSet'
    <3>1. /\ job' = job /\ job[w] = NoJob /\ batch' = batch /\ e \in batch[w]
          /\ pc' = [pc EXCEPT ![w] = "enqueueFailed"] /\ cur' = [cur EXCEPT ![w] = e]
      BY <1>8 DEF EnqueueFails, Become, TypeOK, HandlerTypeOK, JobsAreActive
    <3>2. \A t \in TaskIds : tasks[t].state = "active" => tasks'[t] = tasks[t]
      BY <1>8 DEF EnqueueFails, AddTask, TypeOK, NoTask
    <3>3. JobsAreActive'
      BY <3>1, <3>2 DEF TypeOK, HandlerTypeOK, JobsAreActive
    <3> QED
      BY <3>1, <3>3 DEF TypeOK, HandlerTypeOK, CursorsAreSet
  <2> QED
    BY <1>8, <2>1, <2>2, <2>3, CountFailureType
       DEF EnqueueFails, TypeOK, rowVars, BudgetMatchesStatus
<1>9. ASSUME NEW w \in Workers, ScanMarkFailed(w)
      PROVE  TInv'
  <2>1. cur[w] \in Events /\ seen[w][cur[w]] + 1 \in 1 .. MaxAttempts
    BY <1>9, SeenRange DEF ScanMarkFailed, CursorsAreSet
  <2>2. HandlerTypeOK'
    BY <1>9, <2>1, NextInBatchType DEF ScanMarkFailed, TypeOK
  <2>3. JobsAreActive' /\ CursorsAreSet'
    <3>1. /\ job' = [job EXCEPT ![w] = NoJob] /\ job[w] = NoJob /\ UNCHANGED tasks
          /\ pc' \in {[pc EXCEPT ![w] = "idle"], [pc EXCEPT ![w] = "scan"]}
          /\ cur' = [cur EXCEPT ![w] = NoEvent]
          /\ \A v \in Workers \ {w} : batch'[v] = batch[v]
      BY <1>9 DEF ScanMarkFailed, NextInBatch, Finish, Become, TypeOK, HandlerTypeOK,
                  JobsAreActive
    <3> QED
      BY <3>1 DEF TypeOK, HandlerTypeOK, JobsAreActive, CursorsAreSet
  <2> QED
    BY <1>9, <2>1, <2>2, <2>3, TryMarkFailedType DEF ScanMarkFailed, TypeOK
<1>10. ASSUME NEW w \in Workers, Publish(w)
       PROVE  TInv'
  <2>1. HandlerTypeOK'
    BY <1>10, BecomeType DEF Publish, TypeOK, HandlerTypeOK, PC
  <2>2. JobsAreActive' /\ CursorsAreSet' /\ cur[w] \in Events
    BY <1>10 DEF Publish, Become, TypeOK, HandlerTypeOK, JobsAreActive, CursorsAreSet
  <2> QED
    BY <1>10, <2>1, <2>2 DEF Publish, TypeOK, rowVars, BudgetMatchesStatus
<1>11. ASSUME NEW w \in Workers, PublishFails(w)
       PROVE  TInv'
  <2>1. HandlerTypeOK'
    BY <1>11, BecomeType DEF PublishFails, TypeOK, HandlerTypeOK, PC
  <2>2. JobsAreActive' /\ CursorsAreSet' /\ cur[w] \in Events
    BY <1>11 DEF PublishFails, Become, TypeOK, HandlerTypeOK, JobsAreActive, CursorsAreSet
  <2> QED
    BY <1>11, <2>1, <2>2, CountFailureType
       DEF PublishFails, TypeOK, rowVars, BudgetMatchesStatus
<1>12. ASSUME NEW w \in Workers,
              MarkDelivered(w) \/ MarkDeliveredFails(w) \/ DispatchMarkFailed(w)
       PROVE  TInv'
  <2>1. /\ job[w] \in TaskIds /\ tasks[job[w]] \in Task
        /\ cur[w] \in Events /\ seen[w][cur[w]] + 1 \in 1 .. MaxAttempts
    <3>1. pc[w] \in {"published", "publishFailed"}
      BY <1>12 DEF MarkDelivered, MarkDeliveredFails, DispatchMarkFailed
    <3>2. cur[w] \in Events /\ job[w] \in TaskIds
      BY <3>1 DEF TypeOK, HandlerTypeOK, JobsAreActive, CursorsAreSet
    <3>3. tasks[job[w]] \in Task
      BY <3>1, <3>2 DEF TypeOK, JobsAreActive, NoTask
    <3> QED
      BY <3>2, <3>3, SeenRange
  <2>2. /\ tasks' \in [TaskIds -> Task \cup {NoTask}]
        /\ HandlerTypeOK' /\ JobsAreActive' /\ CursorsAreSet'
    BY <1>12, <2>1, EndOfTask DEF MarkDelivered, MarkDeliveredFails, DispatchMarkFailed
  <2>3. /\ status' \in [Events -> Status]
        /\ attempts' \in [Events -> 0 .. MaxAttempts]
        /\ due' \in [Events -> BOOLEAN]
        /\ BudgetMatchesStatus'
    <3>1. CASE DispatchMarkFailed(w)
      BY <3>1, <2>1, TryMarkFailedType DEF DispatchMarkFailed
    <3>2. CASE MarkDelivered(w) \/ MarkDeliveredFails(w)
      BY <3>2, <2>1 DEF MarkDelivered, MarkDeliveredFails, TypeOK, Status,
                        BudgetMatchesStatus
    <3> QED
      BY <1>12, <3>1, <3>2
  <2> QED
    BY <1>12, <2>2, <2>3
       DEF MarkDelivered, MarkDeliveredFails, DispatchMarkFailed, TypeOK
<1>13. ASSUME NEW w \in Workers, Crash(w)
       PROVE  TInv'
  <2>1. CASE job[w] = NoJob
    <3>1. HandlerTypeOK'
      BY <1>13, FinishType DEF Crash, TypeOK
    <3>2. JobsAreActive' /\ CursorsAreSet'
      BY <1>13, <2>1 DEF Crash, Finish, Become, TypeOK, HandlerTypeOK, JobsAreActive,
                         CursorsAreSet
    <3> QED
      BY <1>13, <2>1, <3>1, <3>2 DEF Crash, TypeOK, rowVars, BudgetMatchesStatus
  <2>2. CASE job[w] # NoJob
    <3>1. job[w] \in TaskIds /\ tasks[job[w]] \in Task
      BY <2>2 DEF TypeOK, HandlerTypeOK, JobsAreActive, NoTask
    <3> QED
      BY <1>13, <2>2, <3>1, EndOfTask DEF Crash, TypeOK, rowVars, BudgetMatchesStatus
  <2> QED
    BY <2>1, <2>2
<1>14. CASE UNCHANGED vars
  BY <1>14 DEF vars, rowVars, hVars, TypeOK, HandlerTypeOK, JobsAreActive,
               CursorsAreSet, BudgetMatchesStatus
<1> QED
  BY <1>1, <1>2, <1>3, <1>4, <1>5, <1>6, <1>7, <1>8, <1>9, <1>10, <1>11, <1>12,
     <1>13, <1>14 DEF Next, Dispatch, Continue

\* The columns and the handlers keep their types.
THEOREM TypeCorrect == Spec => []TypeOK
<1>1. TInv => TypeOK
  BY DEF TInv
<1> QED
  BY TInvInit, TInvStep, <1>1, PTL DEF Spec

LEMMA TInvHolds == Spec => []TInv
BY TInvInit, TInvStep, PTL DEF Spec

\* However scans, dispatches and asynq's own retries overlap, crash or lose
\* statements, a row that may be tried again has an attempt left and a
\* dead-lettered one has used them all.
THEOREM BudgetCorrect == Spec => []BudgetMatchesStatus
<1>1. TInv => BudgetMatchesStatus
  BY DEF TInv
<1> QED
  BY TInvHolds, <1>1, PTL

-----------------------------------------------------------------------------
(* The delivery promise.  What a handler will write is justified when it   *)
(* writes it because it was justified when it read: recorded rows stay     *)
(* recorded, failures only grow, and nothing leaves the topic.             *)

RecordedInv ==
    /\ \A e \in topic : status[e] # "absent"
    /\ \A w \in Workers : \A e \in batch[w] \cup ({cur[w]} \ {NoEvent}) : status[e] # "absent"
    /\ \A t \in TaskIds : tasks[t].state # "free" => status[tasks[t].ev] # "absent"

FailureInv ==
    /\ \A e \in Events : attempts[e] <= failures[e]
    /\ \A e \in Events : status[e] = "dead" => failures[e] = MaxAttempts
    /\ \A w \in Workers : \A e \in Events : seen[w][e] <= failures[e]
    /\ \A w \in Workers : pc[w] \in {"enqueueFailed", "publishFailed"} =>
            seen[w][cur[w]] + 1 <= failures[cur[w]]

TopicInv ==
    /\ DeliveredMeansPublished
    /\ \A w \in Workers : pc[w] = "published" => cur[w] \in topic

DInv == TInv /\ RecordedInv /\ FailureInv /\ TopicInv

LEMMA BecomeFacts ==
    ASSUME HandlerTypeOK, NEW w \in Workers, NEW p, NEW b, NEW j, NEW c, NEW s,
           Become(w, p, b, j, c, s)
    PROVE  /\ pc'[w] = p /\ batch'[w] = b /\ job'[w] = j /\ cur'[w] = c /\ seen'[w] = s
           /\ \A v \in Workers \ {w} :
                /\ pc'[v] = pc[v] /\ batch'[v] = batch[v] /\ job'[v] = job[v]
                /\ cur'[v] = cur[v] /\ seen'[v] = seen[v]
BY DEF Become, HandlerTypeOK

LEMMA NextInBatchFacts ==
    ASSUME HandlerTypeOK, NEW w \in Workers, NEW e, NextInBatch(w, e)
    PROVE  /\ pc'[w] \in {"idle", "scan"} /\ batch'[w] = batch[w] \ {e}
           /\ job'[w] = NoJob /\ cur'[w] = NoEvent
           /\ \A f \in Events : seen'[w][f] \in {0, seen[w][f]}
           /\ \A v \in Workers \ {w} :
                /\ pc'[v] = pc[v] /\ batch'[v] = batch[v] /\ job'[v] = job[v]
                /\ cur'[v] = cur[v] /\ seen'[v] = seen[v]
<1>1. CASE batch[w] \ {e} = {}
  BY <1>1, BecomeFacts DEF NextInBatch, Finish, Unseen
<1>2. CASE batch[w] \ {e} # {}
  <2>1. \A f \in Events : [seen[w] EXCEPT ![e] = 0][f] \in {0, seen[w][f]}
    BY DEF HandlerTypeOK
  <2>2. Become(w, "scan", batch[w] \ {e}, NoJob, NoEvent, [seen[w] EXCEPT ![e] = 0])
    BY <1>2 DEF NextInBatch
  <2>3. /\ pc'[w] = "scan" /\ batch'[w] = batch[w] \ {e}
        /\ job'[w] = NoJob /\ cur'[w] = NoEvent
        /\ seen'[w] = [seen[w] EXCEPT ![e] = 0]
        /\ \A v \in Workers \ {w} :
             /\ pc'[v] = pc[v] /\ batch'[v] = batch[v] /\ job'[v] = job[v]
             /\ cur'[v] = cur[v] /\ seen'[v] = seen[v]
    BY <2>2, BecomeFacts
  <2> QED
    BY <2>1, <2>3
<1> QED
  BY <1>1, <1>2

\* Rows are never deleted.
LEMMA StaysRecorded ==
    ASSUME TInv, [Next]_vars, NEW e \in Events, status[e] # "absent"
    PROVE  status'[e] # "absent"
<1> USE DEF TInv, TypeOK
<1>1. ASSUME NEW w \in Workers, ClaimPending(w) \/ ClaimLost(w)
      PROVE  status'[e] # "absent"
  BY <1>1 DEF ClaimPending, ClaimLost, ClaimRows
<1>2. ASSUME NEW f, NEW n, TryMarkFailed(f, n)
      PROVE  status'[e] # "absent"
  BY <1>2 DEF TryMarkFailed, MarkFailed, rowVars
<1>3. ASSUME NEW w \in Workers, ScanMarkFailed(w) \/ DispatchMarkFailed(w)
      PROVE  status'[e] # "absent"
  BY <1>2, <1>3 DEF ScanMarkFailed, DispatchMarkFailed
<1>4. ASSUME NEW w \in Workers, MarkDelivered(w) \/ MarkDeliveredFails(w)
      PROVE  status'[e] # "absent"
  BY <1>4 DEF MarkDelivered, MarkDeliveredFails
<1>5. CASE \E f \in Events : Insert(f)
  BY <1>5 DEF Insert
<1>6. CASE UNCHANGED status
  BY <1>6
<1> QED
  BY <1>1, <1>3, <1>4, <1>5, <1>6
     DEF Next, vars, rowVars, RetryDue, Dispatch, DispatchRead, DispatchSkip,
         DispatchReadFails, Continue, Enqueue, EnqueueFails, Publish, PublishFails, Crash

LEMMA RecordedStep ==
    ASSUME TInv, TInv', RecordedInv, [Next]_vars
    PROVE  RecordedInv'
<1> USE DEF TInv, TypeOK
<1>0. \A e \in Events : status[e] # "absent" => status'[e] # "absent"
  BY StaysRecorded
<1>1. \A e \in topic' : status'[e] # "absent"
  <2>1. CASE topic' = topic
    BY <1>0, <2>1 DEF RecordedInv
  <2>2. ASSUME NEW w \in Workers, Publish(w) \/ PublishFails(w)
        PROVE  \A e \in topic' : status'[e] # "absent"
    <3>1. cur[w] \in Events
      BY <2>2 DEF Publish, PublishFails, CursorsAreSet
    <3>2. status[cur[w]] # "absent"
      BY <3>1, OutboxAssumption DEF RecordedInv, NoEvent
    <3> QED
      BY <1>0, <2>2, <3>1, <3>2 DEF Publish, PublishFails, RecordedInv
  <2> QED
    BY <2>1, <2>2
       DEF Next, vars, Insert, RetryDue, ClaimPending, ClaimLost, Dispatch, DispatchRead,
           DispatchSkip, DispatchReadFails, Continue, Enqueue, EnqueueFails, ScanMarkFailed,
           MarkDelivered, MarkDeliveredFails, DispatchMarkFailed, Crash
<1>2. ASSUME NEW w \in Workers, NEW e \in batch'[w] \cup ({cur'[w]} \ {NoEvent})
      PROVE  status'[e] # "absent"
  <2>0. e \in Events
    BY DEF HandlerTypeOK
  <2>1. CASE e \in batch[w] \cup ({cur[w]} \ {NoEvent})
    BY <1>0, <2>0, <2>1 DEF RecordedInv
  <2>2. CASE UNCHANGED hVars
    BY <1>0, <2>0, <2>2 DEF hVars, RecordedInv
  <2>3. ASSUME NEW v \in Workers, ClaimPending(v)
        PROVE  status'[e] # "absent"
    <3>1. batch'[v] = Claimed /\ cur'[v] = NoEvent
      BY <2>3, BecomeFacts DEF ClaimPending
    <3>2. CASE v = w
      BY <1>0, <2>0, <3>1, <3>2, ClaimedFacts
    <3>3. CASE v # w
      BY <2>1, <2>3, <3>3, BecomeFacts DEF ClaimPending
    <3> QED
      BY <3>2, <3>3
  <2>4. ASSUME NEW v \in Workers, NEW t \in TaskIds, DispatchRead(v, t)
        PROVE  status'[e] # "absent"
    <3>1. batch'[v] = {} /\ cur'[v] = tasks[t].ev
      BY <2>4, BecomeFacts DEF DispatchRead
    <3>2. CASE v = w
      BY <1>0, <2>0, <2>4, <3>1, <3>2 DEF DispatchRead, RecordedInv
    <3>3. CASE v # w
      BY <2>1, <2>4, <3>3, BecomeFacts DEF DispatchRead
    <3> QED
      BY <3>2, <3>3
  <2>5. ASSUME NEW v \in Workers, NEW f \in Events, NextInBatch(v, f)
        PROVE  e \in batch[w] \cup ({cur[w]} \ {NoEvent})
    BY <2>5, NextInBatchFacts
  <2>6. ASSUME NEW v \in Workers, NEW f \in Events, EnqueueFails(v, f)
        PROVE  e \in batch[w] \cup ({cur[w]} \ {NoEvent})
    BY <2>6, BecomeFacts DEF EnqueueFails
  <2>7. ASSUME NEW v \in Workers, Publish(v) \/ PublishFails(v)
        PROVE  e \in batch[w] \cup ({cur[w]} \ {NoEvent})
    BY <2>7, BecomeFacts DEF Publish, PublishFails
  <2>8. ASSUME NEW v \in Workers, Finish(v)
        PROVE  e \in batch[w] \cup ({cur[w]} \ {NoEvent})
    BY <2>8, BecomeFacts DEF Finish
  <2>9. ASSUME NEW v \in Workers, ScanMarkFailed(v)
        PROVE  e \in batch[w] \cup ({cur[w]} \ {NoEvent})
    BY <2>9, <2>5 DEF ScanMarkFailed, CursorsAreSet
  <2> QED
    BY <2>1, <2>2, <2>3, <2>4, <2>5, <2>6, <2>7, <2>8, <2>9
       DEF Next, vars, hVars, Insert, RetryDue, ClaimLost, Dispatch, DispatchSkip,
           DispatchReadFails, Continue, Enqueue, MarkDelivered, MarkDeliveredFails,
           DispatchMarkFailed, Crash
<1>3. ASSUME NEW t \in TaskIds, tasks'[t].state # "free"
      PROVE  status'[tasks'[t].ev] # "absent"
  <2>0. tasks'[t].ev \in Events
    BY <1>3 DEF NoTask, Task
  <2>1. CASE tasks[t].state # "free" /\ tasks'[t].ev = tasks[t].ev
    BY <1>0, <2>0, <2>1 DEF RecordedInv
  <2>2. ASSUME NEW w \in Workers, NEW e \in batch[w], NEW u \in TaskIds, AddTask(u, e)
        PROVE  status'[tasks'[t].ev] # "absent"
    <3>1. CASE t = u
      BY <1>0, <2>0, <2>2, <3>1 DEF AddTask, RecordedInv
    <3>2. CASE t # u
      BY <1>3, <2>1, <2>2, <3>2 DEF AddTask
    <3> QED
      BY <3>1, <3>2
  <2>3. ASSUME NEW u \in TaskIds, tasks[u].state # "free", Complete(u) \/ Retry(u)
        PROVE  tasks[t].state # "free" /\ tasks'[t].ev = tasks[t].ev
    <3>1. CASE t = u
      BY <1>3, <2>3, <3>1 DEF Complete, Retry, Rescheduled, NoTask
    <3>2. CASE t # u
      BY <1>3, <2>3, <3>2 DEF Complete, Retry
    <3> QED
      BY <3>1, <3>2
  <2>4. ASSUME NEW w \in Workers, NEW u \in TaskIds, DispatchRead(w, u)
        PROVE  tasks[t].state # "free" /\ tasks'[t].ev = tasks[t].ev
    <3>1. tasks[u] \in Task
      BY <2>4 DEF DispatchRead, NoTask
    <3> QED
      BY <1>3, <2>4, <3>1 DEF DispatchRead, Task
  <2>5. CASE UNCHANGED tasks
    BY <1>3, <2>1, <2>5
  <2>6. ASSUME NEW w \in Workers, pc[w] \in {"published", "publishFailed"} \/ job[w] # NoJob
        PROVE  job[w] \in TaskIds /\ tasks[job[w]].state # "free"
    BY <2>6 DEF HandlerTypeOK, JobsAreActive
  <2> QED
    BY <2>1, <2>2, <2>3, <2>4, <2>5, <2>6
       DEF Next, vars, Insert, RetryDue, ClaimPending, ClaimLost, Dispatch, DispatchSkip,
           DispatchReadFails, Continue, Enqueue, EnqueueFails, ScanMarkFailed, Publish,
           PublishFails, MarkDelivered, MarkDeliveredFails, DispatchMarkFailed, Crash
<1> QED
  BY <1>1, <1>2, <1>3 DEF RecordedInv

LEMMA FailureStep ==
    ASSUME TInv, TInv', RecordedInv, FailureInv, [Next]_vars
    PROVE  FailureInv'
<1> USE OutboxAssumption DEF TInv, TypeOK
<1>0. /\ attempts \in [Events -> Int] /\ failures \in [Events -> Nat]
      /\ \A w \in Workers : seen[w] \in [Events -> Int]
      /\ attempts' \in [Events -> Int] /\ failures' \in [Events -> Nat]
      /\ MaxAttempts \in Int
  BY DEF HandlerTypeOK
<1>1. ASSUME NEW e \in Events, CountFailure(e), HandlerTypeOK
      PROVE  \A f \in Events : failures[f] <= failures'[f]
  BY <1>1, CountFailureType
<1>2. \A f \in Events : failures[f] <= failures'[f]
  <2>1. CASE UNCHANGED failures
    BY <1>0, <2>1
  <2> QED
    BY <1>1, <2>1
       DEF Next, vars, Insert, RetryDue, ClaimPending, ClaimLost, Dispatch, DispatchRead,
           DispatchSkip, DispatchReadFails, Continue, Enqueue, EnqueueFails, ScanMarkFailed,
           Publish, PublishFails, MarkDelivered, MarkDeliveredFails, DispatchMarkFailed,
           Crash, CursorsAreSet
<1>3. ASSUME NEW w \in Workers, pc[w] \in {"enqueueFailed", "publishFailed"},
             TryMarkFailed(cur[w], seen[w][cur[w]] + 1), UNCHANGED failures
      PROVE  /\ \A e \in Events : attempts'[e] <= failures'[e]
             /\ \A e \in Events : status'[e] = "dead" => failures'[e] = MaxAttempts
  <2>1. cur[w] \in Events /\ seen[w][cur[w]] + 1 \in 1 .. MaxAttempts
    BY <1>3, SeenRange DEF CursorsAreSet
  <2>2. seen[w][cur[w]] + 1 <= failures[cur[w]]
    BY <1>3 DEF FailureInv
  <2>3. CASE UNCHANGED rowVars
    BY <1>3, <2>3 DEF rowVars, FailureInv
  <2>4. CASE MarkFailed(cur[w], seen[w][cur[w]] + 1)
    BY <1>0, <1>3, <2>1, <2>2, <2>4 DEF MarkFailed, FailureInv
  <2> QED
    BY <1>3, <2>3, <2>4 DEF TryMarkFailed
<1>4. /\ \A e \in Events : attempts'[e] <= failures'[e]
      /\ \A e \in Events : status'[e] = "dead" => failures'[e] = MaxAttempts
  <2>1. ASSUME UNCHANGED attempts, NEW e \in Events
        PROVE  attempts'[e] <= failures'[e]
    BY <1>0, <1>2, <2>1 DEF FailureInv
  <2>2. ASSUME \A e \in Events : status'[e] = "dead" => status[e] = "dead",
               NEW e \in Events, status'[e] = "dead"
        PROVE  failures'[e] = MaxAttempts
    BY <1>0, <1>2, <2>2 DEF FailureInv
  <2>3. CASE \E w \in Workers : ScanMarkFailed(w) \/ DispatchMarkFailed(w)
    BY <1>3, <2>3 DEF ScanMarkFailed, DispatchMarkFailed
  <2> DEFINE Kept == /\ UNCHANGED attempts
                     /\ \A e \in Events : status'[e] = "dead" => status[e] = "dead"
  <2>4. CASE Kept
    BY <2>1, <2>2, <2>4
  <2>5. ASSUME NEW e \in Events, Insert(e) \/ RetryDue(e) PROVE Kept
    BY <2>5 DEF Insert, RetryDue
  <2>6. ASSUME NEW w \in Workers, ClaimPending(w) \/ ClaimLost(w) \/ Crash(w) PROVE Kept
    BY <2>6 DEF ClaimPending, ClaimLost, ClaimRows, Crash, rowVars
  <2>7. ASSUME NEW w \in Workers, NEW t \in TaskIds, Dispatch(w, t) \/ DispatchReadFails(w, t)
        PROVE  Kept
    BY <2>7 DEF Dispatch, DispatchRead, DispatchSkip, DispatchReadFails, rowVars
  <2>8. ASSUME NEW w \in Workers, Continue(w)
        PROVE  Kept \/ ScanMarkFailed(w) \/ DispatchMarkFailed(w)
    BY <2>8 DEF Continue, Enqueue, EnqueueFails, Publish, PublishFails, MarkDelivered,
                MarkDeliveredFails, rowVars
  <2>9. CASE UNCHANGED vars
    BY <2>4, <2>9 DEF vars, rowVars
  <2> HIDE DEF Kept
  <2> QED BY <2>3, <2>4, <2>5, <2>6, <2>7, <2>8, <2>9 DEF Next
<1>5. ASSUME NEW w \in Workers, NEW e \in Events
      PROVE  seen'[w][e] <= failures'[e]
  <2>1. CASE seen'[w][e] \in {0, seen[w][e], attempts[e]}
    <3>1. /\ seen[w][e] \in Int /\ attempts[e] \in Int
          /\ failures[e] \in Nat /\ failures'[e] \in Nat /\ failures[e] <= failures'[e]
      BY <1>0, <1>2
    <3>2. seen[w][e] <= failures[e] /\ attempts[e] <= failures[e]
      BY DEF FailureInv
    <3> QED
      BY <2>1, <3>1, <3>2
  <2>2. ASSUME NEW v \in Workers, NEW p, NEW b, NEW j, NEW c, NEW s,
               Become(v, p, b, j, c, s),
               s[e] \in {0, seen[v][e], attempts[e]}
        PROVE  seen'[w][e] \in {0, seen[w][e], attempts[e]}
    BY <2>2, BecomeFacts
  <2>3. ASSUME NEW v \in Workers, Finish(v)
        PROVE  seen'[w][e] \in {0, seen[w][e], attempts[e]}
    BY <2>2, <2>3 DEF Finish, Unseen
  <2>4. ASSUME NEW v \in Workers, NEW f, NextInBatch(v, f)
        PROVE  seen'[w][e] \in {0, seen[w][e], attempts[e]}
    BY <2>4, NextInBatchFacts
  <2>5. ASSUME NEW v \in Workers, ClaimPending(v)
        PROVE  seen'[w][e] \in {0, seen[w][e], attempts[e]}
    BY <2>2, <2>5 DEF ClaimPending
  <2>6. ASSUME NEW v \in Workers, NEW t \in TaskIds, DispatchRead(v, t)
        PROVE  seen'[w][e] \in {0, seen[w][e], attempts[e]}
    BY <2>2, <2>6 DEF DispatchRead, Unseen
  <2>7. ASSUME NEW v \in Workers, NEW p, NEW b, NEW j, NEW c, Become(v, p, b, j, c, seen[v])
        PROVE  seen'[w][e] \in {0, seen[w][e], attempts[e]}
    BY <2>2, <2>7
  <2>8. CASE UNCHANGED hVars
    BY <2>1, <2>8 DEF hVars
  <2> QED
    BY <2>1, <2>3, <2>4, <2>5, <2>6, <2>7, <2>8
       DEF Next, vars, hVars, Insert, RetryDue, ClaimLost, Dispatch, DispatchSkip,
           DispatchReadFails, Continue, Enqueue, EnqueueFails, ScanMarkFailed, Publish,
           PublishFails, MarkDelivered, MarkDeliveredFails, DispatchMarkFailed, Crash
<1>6. ASSUME NEW w \in Workers, pc'[w] \in {"enqueueFailed", "publishFailed"}
      PROVE  seen'[w][cur'[w]] + 1 <= failures'[cur'[w]]
  <2>1. CASE pc'[w] = pc[w] /\ cur'[w] = cur[w] /\ seen'[w] = seen[w]
    <3>1. cur[w] \in Events
      BY <1>6, <2>1 DEF CursorsAreSet
    <3>2. /\ seen[w][cur[w]] \in Int
          /\ failures[cur[w]] \in Int /\ failures'[cur[w]] \in Int
          /\ failures[cur[w]] <= failures'[cur[w]]
      <4>1. seen[w] \in [Events -> Int]
        BY <1>0
      <4>2. seen[w][cur[w]] \in Int
        BY <3>1, <4>1
      <4>3. failures[cur[w]] <= failures'[cur[w]]
        BY <1>2, <3>1
      <4>4. failures[cur[w]] \in Nat
        BY <3>1, <1>0
      <4>5. failures'[cur[w]] \in Nat
        BY <3>1, <1>0
      <4> QED
        BY <4>2, <4>3, <4>4, <4>5
    <3>3. seen[w][cur[w]] + 1 <= failures[cur[w]]
      BY <1>6, <2>1 DEF FailureInv
    <3> QED
      BY <2>1, <3>2, <3>3
  <2>2. ASSUME NEW v \in Workers, NEW e \in Events, CountFailure(e), seen'[v] = seen[v],
               cur'[v] = e, v = w
        PROVE  seen'[w][cur'[w]] + 1 <= failures'[cur'[w]]
    <3>1. seen[w][e] \in 0 .. MaxAttempts - 1 /\ seen[w][e] <= failures[e]
      BY DEF HandlerTypeOK, FailureInv
    <3> QED
      BY <1>0, <2>2, <3>1, CountFailureType
  <2>3. ASSUME NEW v \in Workers, NEW e \in Events, EnqueueFails(v, e)
        PROVE  seen'[w][cur'[w]] + 1 <= failures'[cur'[w]]
    BY <2>1, <2>2, <2>3, BecomeFacts DEF EnqueueFails
  <2>4. ASSUME NEW v \in Workers, PublishFails(v)
        PROVE  seen'[w][cur'[w]] + 1 <= failures'[cur'[w]]
    <3>1. cur[v] \in Events
      BY <2>4 DEF PublishFails, CursorsAreSet
    <3>2. /\ cur'[v] = cur[v] /\ seen'[v] = seen[v]
          /\ v # w => pc'[w] = pc[w] /\ cur'[w] = cur[w] /\ seen'[w] = seen[w]
      BY <2>4, BecomeFacts DEF PublishFails
    <3> QED
      BY <2>1, <2>2, <2>4, <3>1, <3>2 DEF PublishFails
  <2>5. ASSUME NEW v \in Workers, NEW p \in PC \ {"enqueueFailed", "publishFailed"},
               NEW b, NEW j, NEW c, NEW s, Become(v, p, b, j, c, s)
        PROVE  pc'[w] = pc[w] /\ cur'[w] = cur[w] /\ seen'[w] = seen[w]
    BY <1>6, <2>5, BecomeFacts
  <2>6. ASSUME NEW v \in Workers, NEW f, NextInBatch(v, f)
        PROVE  pc'[w] = pc[w] /\ cur'[w] = cur[w] /\ seen'[w] = seen[w]
    BY <1>6, <2>6, NextInBatchFacts
  <2>7. CASE UNCHANGED hVars
    BY <2>1, <2>7 DEF hVars
  <2> QED
    BY <2>1, <2>3, <2>4, <2>5, <2>6, <2>7
       DEF Next, vars, hVars, Insert, RetryDue, ClaimPending, ClaimLost, Dispatch,
           DispatchRead, DispatchSkip, DispatchReadFails, Continue, Enqueue, ScanMarkFailed,
           Publish, MarkDelivered, MarkDeliveredFails, DispatchMarkFailed, Crash, Finish, PC
<1> QED
  BY <1>4, <1>5, <1>6 DEF FailureInv

LEMMA TopicStep ==
    ASSUME TInv, TInv', TopicInv, [Next]_vars
    PROVE  TopicInv'
<1> USE DEF TInv, TypeOK
<1>1. topic \subseteq topic'
  BY DEF Next, vars, Insert, RetryDue, ClaimPending, ClaimLost, Dispatch, DispatchRead,
         DispatchSkip, DispatchReadFails, Continue, Enqueue, EnqueueFails, ScanMarkFailed,
         Publish, PublishFails, MarkDelivered, MarkDeliveredFails, DispatchMarkFailed, Crash
<1>2. ASSUME NEW e \in Events, status'[e] = "delivered"
      PROVE  e \in topic'
  <2>1. CASE status[e] = "delivered"
    BY <1>1, <2>1 DEF TopicInv, DeliveredMeansPublished
  <2>2. ASSUME NEW w \in Workers, MarkDelivered(w) \/ MarkDeliveredFails(w)
        PROVE  e \in topic'
    BY <1>1, <1>2, <2>1, <2>2
       DEF MarkDelivered, MarkDeliveredFails, TopicInv
  <2>3. ASSUME NEW w \in Workers, ScanMarkFailed(w) \/ DispatchMarkFailed(w)
        PROVE  status[e] = "delivered"
    BY <1>2, <2>3 DEF ScanMarkFailed, DispatchMarkFailed, TryMarkFailed, MarkFailed, rowVars
  <2>4. CASE UNCHANGED status
    BY <1>2, <2>1, <2>4
  <2>5. ASSUME NEW w \in Workers, ClaimPending(w) \/ ClaimLost(w)
        PROVE  status[e] = "delivered"
    BY <1>2, <2>5 DEF ClaimPending, ClaimLost, ClaimRows
  <2>6. ASSUME NEW f \in Events, Insert(f)
        PROVE  status[e] = "delivered"
    BY <1>2, <2>6 DEF Insert
  <2> QED
    BY <2>1, <2>2, <2>3, <2>4, <2>5, <2>6
       DEF Next, vars, rowVars, RetryDue, Dispatch, DispatchRead, DispatchSkip,
           DispatchReadFails, Continue, Enqueue, EnqueueFails, Publish, PublishFails, Crash
<1>3. ASSUME NEW w \in Workers, pc'[w] = "published"
      PROVE  cur'[w] \in topic'
  <2>1. CASE pc[w] = "published" /\ cur'[w] = cur[w]
    BY <1>1, <2>1 DEF TopicInv
  <2>2. ASSUME NEW v \in Workers, Publish(v)
        PROVE  cur'[w] \in topic'
    BY <1>3, <2>1, <2>2, BecomeFacts DEF Publish
  <2>3. ASSUME NEW v \in Workers, NEW p \in PC \ {"published"},
               NEW b, NEW j, NEW c, NEW s, Become(v, p, b, j, c, s)
        PROVE  pc[w] = "published" /\ cur'[w] = cur[w]
    BY <1>3, <2>3, BecomeFacts
  <2>4. ASSUME NEW v \in Workers, NEW f, NextInBatch(v, f)
        PROVE  pc[w] = "published" /\ cur'[w] = cur[w]
    BY <1>3, <2>4, NextInBatchFacts
  <2>5. CASE UNCHANGED hVars
    BY <1>3, <2>1, <2>5 DEF hVars
  <2> QED
    BY <2>1, <2>2, <2>3, <2>4, <2>5
       DEF Next, vars, hVars, Insert, RetryDue, ClaimPending, ClaimLost, Dispatch,
           DispatchRead, DispatchSkip, DispatchReadFails, Continue, Enqueue, EnqueueFails,
           ScanMarkFailed, PublishFails, MarkDelivered, MarkDeliveredFails,
           DispatchMarkFailed, Crash, Finish, PC
<1> QED
  BY <1>2, <1>3 DEF TopicInv, DeliveredMeansPublished

LEMMA DInvHolds == Spec => []DInv
<1>1. Init => RecordedInv /\ FailureInv /\ TopicInv
  BY OutboxAssumption
     DEF Init, RecordedInv, FailureInv, TopicInv, DeliveredMeansPublished, NoTask
<1>2. TInv /\ TInv' /\ DInv /\ [Next]_vars => DInv'
  BY RecordedStep, FailureStep, TopicStep DEF DInv
<1>3. Init => DInv
  BY <1>1, TInvInit DEF DInv
<1> QED
  BY <1>2, <1>3, TInvHolds, PTL DEF Spec

\* A delivered row is in Kafka, whatever crashed, failed or raced.
THEOREM DeliveredCorrect == Spec => []DeliveredMeansPublished
<1>1. DInv => DeliveredMeansPublished
  BY DEF DInv, TopicInv
<1> QED
  BY DInvHolds, <1>1, PTL

\* No event is given up before MaxAttempts attempts of it really failed, although
\* handlers overwrite the attempts column with values computed from stale reads.
THEOREM DeadCorrect == Spec => []DeadMeansExhausted
<1>1. DInv => DeadMeansExhausted
  BY DEF DInv, FailureInv, DeadMeansExhausted
<1> QED
  BY DInvHolds, <1>1, PTL

-----------------------------------------------------------------------------
(* Refinement: every step of the worker is a step of the promise or        *)
(* changes nothing it speaks of.                                           *)

Verdict(s) == IF s \in {"delivered", "dead"} THEN s ELSE "open"

\* Steps that move rows between "pending" and "sending" are invisible.
LEMMA InvisibleStep ==
    ASSUME TInv, TInv',
           \A e \in Events : /\ status'[e] = "absent" <=> status[e] = "absent"
                             /\ Verdict(status'[e]) = Verdict(status[e]),
           UNCHANGED <<topic, failures>>
    PROVE  UNCHANGED Delivery!vars
BY DEF Delivery!vars, Verdict

\* A step that marks one recorded row is a verdict on it.
LEMMA JudgingStep ==
    ASSUME TInv, TInv', RecordedInv, NEW e \in Events, status[e] # "absent",
           NEW s \in {"pending", "delivered", "dead"},
           status' = [status EXCEPT ![e] = s],
           UNCHANGED <<topic, failures>>,
           s = "delivered" => e \in topic,
           s = "dead" => failures[e] = MaxAttempts
    PROVE  Delivery!Next
<1>1. { f \in Events : status'[f] # "absent" } = { f \in Events : status[f] # "absent" }
  BY DEF TInv, TypeOK
<1>2. [f \in Events |-> Verdict(status'[f])]
        = [[f \in Events |-> Verdict(status[f])] EXCEPT ![e] = Verdict(s)]
  BY DEF TInv, TypeOK
<1>3. Delivery!Judge(e, Verdict(s))
  BY <1>1, <1>2 DEF Delivery!Judge, Verdict
<1>4. Verdict(s) \in {"open", "delivered", "dead"}
  BY DEF Verdict
<1> QED
  BY <1>3, <1>4 DEF Delivery!Next

LEMMA RefinementInit == Init => Delivery!Init
BY DEF Init, Delivery!Init

LEMMA RefinementStep ==
    ASSUME DInv, DInv', [Next]_vars
    PROVE  Delivery!Next \/ UNCHANGED Delivery!vars
<1> USE DEF DInv
<1> USE OutboxAssumption
<1>0. \A w \in Workers : pc[w] \notin {"idle", "scan"} =>
          cur[w] \in Events /\ status[cur[w]] # "absent"
  BY DEF TInv, CursorsAreSet, RecordedInv, NoEvent
<1>1. ASSUME NEW e \in Events, Insert(e)
      PROVE  Delivery!Next
  <2>1. { f \in Events : status'[f] # "absent" }
          = { f \in Events : status[f] # "absent" } \cup {e}
    BY <1>1 DEF Insert, TInv, TypeOK
  <2>2. [f \in Events |-> Verdict(status'[f])] = [f \in Events |-> Verdict(status[f])]
    BY <1>1 DEF Insert, Verdict, TInv, TypeOK
  <2> QED
    BY <1>1, <2>1, <2>2 DEF Insert, Verdict, Delivery!Next, Delivery!Record
<1>2. ASSUME NEW w \in Workers, ClaimPending(w) \/ ClaimLost(w)
      PROVE  UNCHANGED Delivery!vars
  <2>1. \A e \in Events : /\ status'[e] = "absent" <=> status[e] = "absent"
                          /\ Verdict(status'[e]) = Verdict(status[e])
    BY <1>2, ClaimedFacts DEF ClaimPending, ClaimLost, ClaimRows, Verdict
  <2> QED
    BY <1>2, <2>1, InvisibleStep DEF ClaimPending, ClaimLost
<1>3. CASE UNCHANGED <<status, topic, failures>>
  BY <1>3, InvisibleStep
<1>4. ASSUME NEW e \in Events, status[e] # "absent", UNCHANGED status,
             topic' \in {topic, topic \cup {e}}, CountFailure(e)
      PROVE  Delivery!Next
  BY <1>4 DEF CountFailure, Delivery!Next, Delivery!Fail
<1>5. ASSUME NEW w \in Workers, NEW e \in Events, EnqueueFails(w, e)
      PROVE  Delivery!Next
  <2>1. status[e] # "absent"
    BY <1>5 DEF EnqueueFails, RecordedInv
  <2> QED
    BY <1>4, <1>5, <2>1 DEF EnqueueFails, rowVars
<1>6. ASSUME NEW w \in Workers, PublishFails(w)
      PROVE  Delivery!Next
  BY <1>0, <1>4, <1>6 DEF PublishFails, rowVars
<1>7. ASSUME NEW w \in Workers, Publish(w)
      PROVE  Delivery!Next
  BY <1>0, <1>7 DEF Publish, rowVars, Delivery!Next, Delivery!Publish
<1>8. ASSUME NEW w \in Workers, MarkDelivered(w) \/ MarkDeliveredFails(w)
      PROVE  Delivery!Next \/ UNCHANGED Delivery!vars
  <2>1. cur[w] \in Events /\ status[cur[w]] # "absent" /\ cur[w] \in topic
    BY <1>0, <1>8 DEF MarkDelivered, MarkDeliveredFails, TopicInv
  <2>2. CASE status' = [status EXCEPT ![cur[w]] = "delivered"]
    BY <1>8, <2>1, <2>2, JudgingStep DEF MarkDelivered, MarkDeliveredFails
  <2>3. CASE UNCHANGED status
    BY <1>3, <1>8, <2>3 DEF MarkDelivered, MarkDeliveredFails
  <2> QED
    BY <1>8, <2>2, <2>3 DEF MarkDelivered, MarkDeliveredFails
<1>9. ASSUME NEW w \in Workers, ScanMarkFailed(w) \/ DispatchMarkFailed(w)
      PROVE  Delivery!Next \/ UNCHANGED Delivery!vars
  <2> DEFINE e == cur[w]
             n == seen[w][e] + 1
             s == IF n >= MaxAttempts THEN "dead" ELSE "pending"
  <2>1. e \in Events /\ status[e] # "absent" /\ UNCHANGED <<topic, failures>>
    BY <1>0, <1>9 DEF ScanMarkFailed, DispatchMarkFailed
  <2>2. TryMarkFailed(e, n)
    BY <1>9 DEF ScanMarkFailed, DispatchMarkFailed
  <2>3. CASE UNCHANGED rowVars
    BY <1>3, <2>1, <2>3 DEF rowVars
  <2>4. CASE MarkFailed(e, n)
    <3>1. status' = [status EXCEPT ![e] = s]
      BY <2>4 DEF MarkFailed
    <3>2. s = "dead" => failures[e] = MaxAttempts
      <4>1. n \in 1 .. MaxAttempts /\ n <= failures[e]
        BY <1>9, <2>1, SeenRange DEF FailureInv, ScanMarkFailed, DispatchMarkFailed
      <4>2. failures[e] \in 0 .. MaxAttempts
        BY <2>1 DEF TInv, TypeOK
      <4> QED
        BY <4>1, <4>2
    <3> HIDE DEF n, s
    <3>3. s \in {"pending", "delivered", "dead"} /\ s # "delivered"
      BY DEF s
    <3> QED
      BY <2>1, <3>1, <3>2, <3>3, JudgingStep
  <2> QED
    BY <2>2, <2>3, <2>4 DEF TryMarkFailed
<1> QED
  BY <1>1, <1>2, <1>3, <1>5, <1>6, <1>7, <1>8, <1>9
     DEF Next, vars, rowVars, RetryDue, Dispatch, DispatchRead, DispatchSkip,
         DispatchReadFails, Continue, Enqueue, Crash

\* The outbox worker implements the delivery promise: only recorded events are
\* published, "delivered" is only said of a published event and "dead" only of
\* one that failed MaxAttempts times.
THEOREM RefinesDelivery == Spec => ImplementsDelivery
<1>1. DInv /\ DInv' /\ [Next]_vars => [Delivery!Next]_(Delivery!vars)
  BY RefinementStep
<1> QED
  BY RefinementInit, <1>1, DInvHolds, PTL DEF Spec, ImplementsDelivery, Delivery!Spec

-----------------------------------------------------------------------------
(* Recovery.  Nothing but a scan that holds a row or a task for it moves a *)
(* row out of "sending"; without lost statements and dead processes such   *)
(* an owner exists.  Both hypotheses are needed: see the runs.             *)

OwnerInv ==
    /\ SendingIsOwned
    /\ \A w \in Workers : pc[w] \notin {"scan", "enqueueFailed"} => batch[w] = {}
    /\ \A w \in Workers : job[w] # NoJob => tasks[job[w]].ev = cur[w]

LEMMA OwnerStep ==
    ASSUME Faults \cap {"db", "crash"} = {}, TInv, TInv', OwnerInv, [Next]_vars
    PROVE  OwnerInv'
<1> USE OutboxAssumption DEF TInv, TypeOK
<1>0. \A t \in TaskIds : tasks[t].state = "free" <=> tasks[t] = NoTask
  BY DEF NoTask, Task
<1>1. ASSUME NEW e \in Events, status'[e] = "sending"
      PROVE  Owned(e)'
  <2>1. ASSUME Owned(e),
               \A w \in Workers : e \in batch[w] => e \in batch'[w],
               \A t \in TaskIds : tasks[t].ev = e => tasks'[t].ev = e
        PROVE  Owned(e)'
    BY <2>1 DEF Owned
  <2>2. ASSUME NEW w \in Workers, ClaimPending(w)
        PROVE  Owned(e)'
    <3>1. batch'[w] = Claimed /\ batch[w] = {}
          /\ \A v \in Workers \ {w} : batch'[v] = batch[v]
      BY <2>2, BecomeFacts DEF ClaimPending, OwnerInv
    <3>2. CASE e \in Claimed
      BY <3>1, <3>2 DEF Owned
    <3>3. CASE e \notin Claimed
      <4>1. Owned(e)
        BY <1>1, <2>2, <3>3 DEF ClaimPending, ClaimRows, OwnerInv, SendingIsOwned
      <4> QED
        BY <2>1, <2>2, <3>1, <4>1 DEF ClaimPending
    <3> QED
      BY <3>2, <3>3
  <2>3. ASSUME NEW w \in Workers, NEW f \in Events, NEW t \in TaskIds, Enqueue(w, f, t)
        PROVE  Owned(e)'
    <3>1. tasks'[t].ev = f /\ \A u \in TaskIds \ {t} : tasks'[u] = tasks[u]
      BY <2>3 DEF Enqueue, AddTask
    <3>2. batch'[w] = batch[w] \ {f} /\ \A v \in Workers \ {w} : batch'[v] = batch[v]
      BY <2>3, NextInBatchFacts DEF Enqueue
    <3>3. tasks[t].ev # e
      BY <2>3 DEF Enqueue, AddTask, NoTask, NoEvent
    <3>4. CASE e = f
      BY <3>1, <3>4 DEF Owned
    <3>5. CASE e # f
      <4>1. Owned(e)
        BY <1>1, <2>3 DEF Enqueue, rowVars, OwnerInv, SendingIsOwned
      <4> QED
        BY <2>1, <3>1, <3>2, <3>3, <3>5, <4>1
    <3> QED
      BY <3>4, <3>5
  <2>4. ASSUME NEW w \in Workers, NEW f \in Events, EnqueueFails(w, f)
        PROVE  Owned(e)'
    <3>1. Owned(e)
      BY <1>1, <2>4 DEF EnqueueFails, rowVars, OwnerInv, SendingIsOwned
    <3>2. UNCHANGED batch
      BY <2>4 DEF EnqueueFails, Become, HandlerTypeOK
    <3>3. \A t \in TaskIds : tasks[t].ev = e => tasks'[t].ev = e
      BY <2>4 DEF EnqueueFails, AddTask, NoTask, NoEvent
    <3> QED
      BY <2>1, <3>1, <3>2, <3>3
  <2>5. ASSUME NEW w \in Workers, ScanMarkFailed(w)
        PROVE  Owned(e)'
    <3>1. cur[w] \in Events
      BY <2>5 DEF ScanMarkFailed, CursorsAreSet
    <3>2. batch'[w] = batch[w] \ {cur[w]} /\ \A v \in Workers \ {w} : batch'[v] = batch[v]
      BY <2>5, <3>1, NextInBatchFacts DEF ScanMarkFailed
    <3>3. e # cur[w] /\ Owned(e)
      BY <1>1, <2>5, <3>1
         DEF ScanMarkFailed, TryMarkFailed, MarkFailed, OwnerInv, SendingIsOwned
    <3> QED
      BY <2>1, <2>5, <3>2, <3>3 DEF ScanMarkFailed
  <2>6. ASSUME NEW w \in Workers, NEW t \in TaskIds, DispatchRead(w, t)
        PROVE  Owned(e)'
    <3>1. Owned(e) /\ batch[w] = {}
      BY <1>1, <2>6 DEF DispatchRead, rowVars, OwnerInv, SendingIsOwned
    <3>2. \A v \in Workers \ {w} : batch'[v] = batch[v]
      BY <2>6, BecomeFacts DEF DispatchRead
    <3>3. tasks[t] \in Task
      BY <2>6 DEF DispatchRead, NoTask
    <3>4. \A u \in TaskIds : tasks'[u].ev = tasks[u].ev
      BY <2>6, <3>3 DEF DispatchRead, Task
    <3> QED
      BY <2>1, <3>1, <3>2, <3>4
  <2>7. ASSUME NEW w \in Workers, NEW t \in TaskIds, DispatchSkip(w, t)
        PROVE  Owned(e)'
    <3>1. Owned(e) /\ tasks[t].ev # e
      BY <1>1, <2>7 DEF DispatchSkip, rowVars, OwnerInv, SendingIsOwned
    <3> QED
      BY <2>1, <2>7, <3>1 DEF DispatchSkip, Complete, hVars
  <2>8. ASSUME NEW w \in Workers, Publish(w) \/ PublishFails(w)
        PROVE  Owned(e)'
    <3>1. Owned(e) /\ batch[w] = {}
      BY <1>1, <2>8 DEF Publish, PublishFails, rowVars, OwnerInv, SendingIsOwned
    <3>2. \A v \in Workers \ {w} : batch'[v] = batch[v]
      BY <2>8, BecomeFacts DEF Publish, PublishFails
    <3> QED
      BY <2>1, <2>8, <3>1, <3>2 DEF Publish, PublishFails
  <2>9. ASSUME NEW w \in Workers, MarkDelivered(w) \/ DispatchMarkFailed(w)
        PROVE  Owned(e)'
    <3>1. pc[w] \in {"published", "publishFailed"}
      BY <2>9 DEF MarkDelivered, DispatchMarkFailed
    <3>2. /\ cur[w] \in Events /\ job[w] \in TaskIds
          /\ tasks[job[w]].ev = cur[w] /\ batch[w] = {}
      <4>1. job[w] # NoJob /\ cur[w] \in Events
        BY <3>1 DEF JobsAreActive, CursorsAreSet
      <4> QED
        BY <3>1, <4>1 DEF HandlerTypeOK, OwnerInv
    <3>3. e # cur[w] /\ Owned(e)
      BY <1>1, <2>9, <3>2
         DEF MarkDelivered, DispatchMarkFailed, TryMarkFailed, MarkFailed, OwnerInv,
             SendingIsOwned
    <3>4. \A v \in Workers \ {w} : batch'[v] = batch[v]
      BY <2>9, BecomeFacts DEF MarkDelivered, DispatchMarkFailed, Finish
    <3>5. \A u \in TaskIds \ {job[w]} : tasks'[u] = tasks[u]
      BY <2>9, <3>2 DEF MarkDelivered, DispatchMarkFailed, Complete, Retry
    <3> QED
      BY <2>1, <3>2, <3>3, <3>4, <3>5
  <2>10. ASSUME NEW f \in Events, Insert(f)
         PROVE  Owned(e)'
    BY <1>1, <2>1, <2>10 DEF Insert, hVars, OwnerInv, SendingIsOwned
  <2>11. CASE UNCHANGED <<status, tasks, batch>>
    BY <1>1, <2>1, <2>11 DEF OwnerInv, SendingIsOwned
  <2> QED
    BY <2>2, <2>3, <2>4, <2>5, <2>6, <2>7, <2>8, <2>9, <2>10, <2>11
       DEF Next, vars, rowVars, hVars, RetryDue, ClaimLost, Dispatch, DispatchReadFails,
           Continue, MarkDeliveredFails, Crash
<1>2. ASSUME NEW w \in Workers, pc'[w] \notin {"scan", "enqueueFailed"}
      PROVE  batch'[w] = {}
  <2>1. CASE pc'[w] = pc[w] /\ batch'[w] = batch[w]
    BY <1>2, <2>1 DEF OwnerInv
  <2>2. ASSUME NEW v \in Workers, NEW p, NEW b, NEW j, NEW c, NEW s,
               Become(v, p, b, j, c, s), b = {} \/ p \in {"scan", "enqueueFailed"}
        PROVE  batch'[w] = {}
    BY <1>2, <2>1, <2>2, BecomeFacts
  <2>3. CASE UNCHANGED hVars
    BY <2>1, <2>3 DEF hVars
  <2> QED
    BY <2>2, <2>3
       DEF Next, vars, hVars, Insert, RetryDue, ClaimPending, ClaimLost, Dispatch,
           DispatchRead, DispatchSkip, DispatchReadFails, Continue, Enqueue, EnqueueFails,
           ScanMarkFailed, NextInBatch, Publish, PublishFails, MarkDelivered,
           MarkDeliveredFails, DispatchMarkFailed, Crash, Finish
<1>3. ASSUME NEW w \in Workers, job'[w] # NoJob
      PROVE  tasks'[job'[w]].ev = cur'[w]
  <2>1. CASE job'[w] = job[w] /\ cur'[w] = cur[w] /\ tasks'[job[w]].ev = tasks[job[w]].ev
    BY <1>3, <2>1 DEF OwnerInv
  <2>2. ASSUME NEW v \in Workers, NEW t \in TaskIds, DispatchRead(v, t)
        PROVE  tasks'[job'[w]].ev = cur'[w]
    <3>1. tasks[t] \in Task
      BY <2>2 DEF DispatchRead, NoTask
    <3>2. \A u \in TaskIds : tasks'[u].ev = tasks[u].ev
      BY <2>2, <3>1 DEF DispatchRead, Task
    <3>3. job'[v] = t /\ cur'[v] = tasks[t].ev
          /\ \A u \in Workers \ {v} : job'[u] = job[u] /\ cur'[u] = cur[u]
      BY <2>2, BecomeFacts DEF DispatchRead
    <3> QED
      BY <1>3, <2>1, <3>2, <3>3 DEF HandlerTypeOK
  <2>3. ASSUME NEW v \in Workers, NEW p, NEW b, NEW c, NEW s,
               NEW j \in {NoJob, job[v]}, Become(v, p, b, j, c, s), c = cur[v] \/ j = NoJob
        PROVE  job'[w] = job[w] /\ cur'[w] = cur[w]
    BY <1>3, <2>3, BecomeFacts
  <2>4. ASSUME NEW t \in TaskIds, tasks[t].state # "active", job'[w] = job[w],
               \A u \in TaskIds \ {t} : tasks'[u] = tasks[u]
        PROVE  tasks'[job[w]] = tasks[job[w]]
    BY <1>3, <2>4 DEF HandlerTypeOK, JobsAreActive
  <2>5. CASE UNCHANGED tasks
    <3>1. CASE UNCHANGED hVars
      BY <2>1, <2>5, <3>1 DEF hVars
    <3>2. ASSUME NEW v \in Workers,
                 ClaimPending(v) \/ Publish(v) \/ PublishFails(v) \/ ScanMarkFailed(v)
          PROVE  job'[w] = job[w] /\ cur'[w] = cur[w]
      BY <2>3, <3>2
         DEF ClaimPending, Publish, PublishFails, ScanMarkFailed, NextInBatch, Finish
    <3>3. ASSUME NEW v \in Workers, NEW e \in Events, EnqueueFails(v, e)
          PROVE  job'[w] = job[w] /\ cur'[w] = cur[w]
      BY <2>3, <3>3 DEF EnqueueFails
    <3>4. ASSUME NEW v \in Workers, Finish(v)
          PROVE  job'[w] = job[w] /\ cur'[w] = cur[w]
      BY <2>3, <3>4 DEF Finish
    <3>5. ASSUME NEW v \in Workers, NEW e \in Events, NEW t \in TaskIds, Enqueue(v, e, t)
          PROVE  job'[w] = job[w] /\ cur'[w] = cur[w]
      BY <2>3, <3>5 DEF Enqueue, NextInBatch, Finish
    <3> QED
      BY <2>1, <2>2, <2>5, <3>1, <3>2, <3>3, <3>4, <3>5
         DEF Next, vars, hVars, Insert, RetryDue, ClaimLost, Dispatch, DispatchSkip,
             DispatchReadFails, Continue, MarkDelivered, MarkDeliveredFails,
             DispatchMarkFailed, Crash
  <2>6. ASSUME NEW v \in Workers, NEW e \in Events, NEW t \in TaskIds, AddTask(t, e),
               Enqueue(v, e, t) \/ EnqueueFails(v, e)
        PROVE  tasks'[job'[w]].ev = cur'[w]
    <3>1. job'[w] = job[w] /\ cur'[w] = cur[w]
      BY <2>3, <2>6 DEF Enqueue, EnqueueFails, NextInBatch, Finish
    <3>2. tasks'[job[w]] = tasks[job[w]]
      BY <2>4, <2>6, <3>1 DEF AddTask, NoTask
    <3> QED
      BY <2>1, <3>1, <3>2
  <2>7. ASSUME NEW v \in Workers, NEW t \in TaskIds, DispatchSkip(v, t)
        PROVE  tasks'[job'[w]].ev = cur'[w]
    <3>1. tasks'[job[w]] = tasks[job[w]] /\ job' = job /\ cur' = cur
      BY <2>4, <2>7 DEF DispatchSkip, Complete, hVars
    <3> QED
      BY <2>1, <3>1
  <2>8. ASSUME NEW v \in Workers, MarkDelivered(v) \/ DispatchMarkFailed(v)
        PROVE  tasks'[job'[w]].ev = cur'[w]
    <3>1. Finish(v) /\ (Complete(job[v]) \/ Retry(job[v]))
      BY <2>8 DEF MarkDelivered, DispatchMarkFailed
    <3>2. job'[v] = NoJob /\ \A u \in Workers \ {v} : job'[u] = job[u] /\ cur'[u] = cur[u]
      BY <3>1, BecomeFacts DEF Finish
    <3>3. job[w] # job[v] /\ job[w] \in TaskIds
      BY <1>3, <3>2 DEF HandlerTypeOK, JobsAreActive
    <3>4. tasks'[job[w]] = tasks[job[w]]
      BY <3>1, <3>3 DEF Complete, Retry
    <3> QED
      BY <1>3, <2>1, <3>2, <3>4
  <2> QED
    BY <2>2, <2>5, <2>6, <2>7, <2>8
       DEF Next, vars, Insert, RetryDue, ClaimPending, ClaimLost, Dispatch,
           DispatchReadFails, Continue, Enqueue, EnqueueFails, ScanMarkFailed, Publish,
           PublishFails, MarkDeliveredFails, Crash
<1> QED
  BY <1>1, <1>2, <1>3 DEF OwnerInv, SendingIsOwned

\* While no statement is lost and no process dies, a row in "sending" is never
\* orphaned, however often publishes and enqueues fail and handlers overlap.
THEOREM RecoveryCorrect ==
    ASSUME Faults \cap {"db", "crash"} = {}
    PROVE  Spec => []SendingIsOwned
<1>1. Init => OwnerInv
  BY DEF Init, OwnerInv, SendingIsOwned
<1>2. TInv /\ TInv' /\ OwnerInv /\ [Next]_vars => OwnerInv'
  BY OwnerStep
<1>3. OwnerInv => SendingIsOwned
  BY DEF OwnerInv
<1> QED
  BY <1>1, <1>2, <1>3, TInvHolds, PTL DEF Spec

-----------------------------------------------------------------------------
(* Exclusive dispatch.  A claimed row has one owner, the scan or the task  *)
(* that scan enqueued, and returns to "pending" only through MarkFailed:   *)
(* an event none of whose enqueues and publishes has failed is not claimed *)
(* a second time, whatever happens to the others.                          *)

Untroubled == { e \in Events : failures[e] = 0 }

\* The handlers' own records.
CleanHandlers ==
    \A w \in Workers :
        /\ pc[w] \notin {"scan", "enqueueFailed"} => batch[w] = {}
        /\ pc[w] \in {"enqueueFailed", "publishFailed"} => cur[w] \notin Untroubled
        /\ job[w] = NoJob /\ pc[w] # "enqueueFailed" => cur[w] = NoEvent
        /\ job[w] # NoJob => tasks[job[w]].ev = cur[w]

\* One owner for each claimed row, none for the others.
OneOwner ==
    /\ \A e \in Untroubled : status[e] \in {"absent", "pending"} => ~Owned(e)
    /\ \A e \in Untroubled, v, w \in Workers : e \in batch[v] /\ e \in batch[w] => v = w
    /\ \A t, u \in TaskIds : tasks[t].ev = tasks[u].ev /\ tasks[t].ev \in Untroubled => t = u
    /\ \A w \in Workers, t \in TaskIds : tasks[t].ev \in Untroubled => tasks[t].ev \notin batch[w]

XInv == CleanHandlers /\ OneOwner

LEMMA CountFailureTroubles ==
    ASSUME TypeOK, NEW e \in Events, CountFailure(e)
    PROVE  Untroubled' = Untroubled \ {e}
<1>1. failures'[e] # 0
  BY OutboxAssumption DEF TypeOK, CountFailure
<1>2. \A f \in Events \ {e} : failures'[f] = failures[f]
  BY DEF TypeOK, CountFailure
<1> QED BY <1>1, <1>2 DEF Untroubled

\* No step but a claim and an enqueue gives an untroubled row a new owner.
LEMMA NoNewOwner ==
    ASSUME OneOwner,
           Untroubled' \subseteq Untroubled,
           \A w \in Workers : batch'[w] \subseteq batch[w],
           \A t \in TaskIds : tasks'[t].ev = tasks[t].ev \/ tasks'[t].ev \notin Untroubled',
           \A e \in Untroubled' : \/ status'[e] = status[e]
                                  \/ status'[e] \notin {"absent", "pending"}
                                  \/ status[e] = "absent" /\ status'[e] = "pending"
    PROVE  OneOwner'
<1> USE DEF OneOwner
<1>1. ASSUME NEW e \in Untroubled', status'[e] \in {"absent", "pending"}, Owned(e)'
      PROVE  FALSE
  <2>1. ~Owned(e)
    BY <1>1
  <2> QED BY <1>1, <2>1 DEF Owned
<1>2. \A e \in Untroubled', v, w \in Workers : e \in batch'[v] /\ e \in batch'[w] => v = w
  OBVIOUS
<1>3. \A t, u \in TaskIds :
         tasks'[t].ev = tasks'[u].ev /\ tasks'[t].ev \in Untroubled' => t = u
  OBVIOUS
<1>4. \A w \in Workers, t \in TaskIds :
         tasks'[t].ev \in Untroubled' => tasks'[t].ev \notin batch'[w]
  OBVIOUS
<1> QED BY <1>1, <1>2, <1>3, <1>4

\* What asynq does with a task its handler is done with.
LEMMA TaskAfterwards ==
    ASSUME TypeOK, NEW t \in TaskIds, Complete(t) \/ Retry(t)
    PROVE  /\ \A u \in TaskIds : tasks'[u].ev = tasks[u].ev \/ tasks'[u].ev \notin Events
           /\ \A u \in TaskIds \ {t} : tasks'[u] = tasks[u]
<1>1. tasks'[t].ev \in {tasks[t].ev, NoEvent}
  BY DEF TypeOK, Complete, Retry, Rescheduled, NoTask
<1>2. \A u \in TaskIds \ {t} : tasks'[u] = tasks[u]
  BY DEF TypeOK, Complete, Retry
<1>3. NoEvent \notin Events
  BY OutboxAssumption DEF NoEvent
<1> QED BY <1>1, <1>2, <1>3

\* A handler that ends leaves the others as they are.
LEMMA CleanAfterFinish ==
    ASSUME TInv, CleanHandlers, NEW w \in Workers, Finish(w), failures' = failures,
           \A v \in Workers \ {w} : job[v] # NoJob => tasks'[job[v]] = tasks[job[v]]
    PROVE  CleanHandlers' /\ \A v \in Workers : batch'[v] \subseteq batch[v]
<1>1. /\ pc'[w] = "idle" /\ batch'[w] = {} /\ job'[w] = NoJob /\ cur'[w] = NoEvent
      /\ \A v \in Workers \ {w} : /\ pc'[v] = pc[v] /\ batch'[v] = batch[v]
                                  /\ job'[v] = job[v] /\ cur'[v] = cur[v]
  BY BecomeFacts DEF Finish, TInv, TypeOK
<1>2. Untroubled' = Untroubled
  BY DEF Untroubled
<1> QED BY <1>1, <1>2 DEF CleanHandlers

LEMMA ExclusiveInit == Init => XInv
<1> SUFFICES ASSUME Init PROVE XInv
  OBVIOUS
<1>1. NoEvent \notin Events
  BY OutboxAssumption DEF NoEvent
<1>2. CleanHandlers
  BY DEF Init, CleanHandlers
<1>3. \A t \in TaskIds : tasks[t].ev = NoEvent
  BY DEF Init, NoTask
<1>4. \A w \in Workers : batch[w] = {}
  BY DEF Init
<1>5. OneOwner
  BY <1>1, <1>3, <1>4 DEF OneOwner, Owned, Untroubled
<1> QED BY <1>2, <1>5 DEF XInv

LEMMA ExclusiveStep ==
    ASSUME TInv, XInv, [Next]_vars
    PROVE  XInv'
<1> USE DEF XInv, TInv
<1>0. HandlerTypeOK /\ Untroubled \subseteq Events /\ NoEvent \notin Events
  BY OutboxAssumption DEF TypeOK, NoEvent, Untroubled
<1>1. CASE UNCHANGED <<tasks, hVars, failures>> /\ \A e \in Events :
               \/ status'[e] = status[e]
               \/ status'[e] \notin {"absent", "pending"}
               \/ status[e] = "absent" /\ status'[e] = "pending"
  <2>1. Untroubled' = Untroubled
    BY <1>1 DEF Untroubled
  <2> QED BY <1>0, <1>1, <2>1, NoNewOwner DEF CleanHandlers, hVars
<1>2. ASSUME NEW e \in Events, Insert(e) PROVE XInv'
  BY <1>1, <1>2 DEF Insert, TypeOK
<1>3. ASSUME NEW w \in Workers, ClaimLost(w) PROVE XInv'
  BY <1>1, <1>3 DEF ClaimLost, ClaimRows
<1>4. ASSUME NEW w \in Workers, ClaimPending(w) PROVE XInv'
  <2>1. /\ pc'[w] = "scan" /\ batch'[w] = Claimed /\ job'[w] = NoJob /\ cur'[w] = NoEvent
        /\ \A v \in Workers \ {w} : /\ pc'[v] = pc[v] /\ batch'[v] = batch[v]
                                    /\ job'[v] = job[v] /\ cur'[v] = cur[v]
    BY <1>0, <1>4, BecomeFacts DEF ClaimPending
  <2>2. batch[w] = {} /\ tasks' = tasks /\ Untroubled' = Untroubled
    BY <1>4 DEF ClaimPending, CleanHandlers, Untroubled
  <2>3. CleanHandlers'
    BY <2>1, <2>2 DEF CleanHandlers
  <2>4. \A e \in Claimed \cap Untroubled : ~Owned(e)
    BY ClaimedFacts DEF OneOwner
  <2>5. \A v \in Workers : batch[v] \cap Claimed \cap Untroubled = {}
    BY <2>4 DEF Owned
  <2>6. \A t \in TaskIds : tasks[t].ev \notin Claimed \cap Untroubled
    BY <2>4 DEF Owned
  <2>7. ASSUME NEW e \in Untroubled, status'[e] \in {"absent", "pending"} PROVE ~Owned(e)'
    <3>1. e \notin Claimed /\ status'[e] = status[e]
      BY <1>0, <1>4, <2>7 DEF ClaimPending, ClaimRows
    <3>2. ~Owned(e)
      BY <2>7, <3>1 DEF OneOwner
    <3> QED BY <2>1, <2>2, <3>1, <3>2 DEF Owned
  <2>8. \A e \in Untroubled, v, u \in Workers : e \in batch'[v] /\ e \in batch'[u] => v = u
    BY <2>1, <2>5 DEF OneOwner
  <2>9. \A v \in Workers, t \in TaskIds :
           tasks'[t].ev \in Untroubled => tasks'[t].ev \notin batch'[v]
    BY <2>1, <2>2, <2>6 DEF OneOwner
  <2> QED BY <2>2, <2>3, <2>7, <2>8, <2>9 DEF OneOwner
<1>5. ASSUME NEW w \in Workers, NEW e \in Events, NEW t \in TaskIds, Enqueue(w, e, t)
      PROVE  XInv'
  <2>1. /\ pc'[w] \in {"idle", "scan"} /\ job'[w] = NoJob /\ cur'[w] = NoEvent
        /\ batch'[w] = batch[w] \ {e}
        /\ \A v \in Workers \ {w} : /\ pc'[v] = pc[v] /\ batch'[v] = batch[v]
                                    /\ job'[v] = job[v] /\ cur'[v] = cur[v]
    BY <1>0, <1>5, NextInBatchFacts DEF Enqueue
  <2>2. /\ tasks[t] = NoTask /\ tasks'[t].ev = e /\ e \in batch[w]
        /\ \A u \in TaskIds \ {t} : tasks'[u] = tasks[u]
        /\ status' = status /\ Untroubled' = Untroubled
    BY <1>5 DEF Enqueue, AddTask, TypeOK, rowVars, Untroubled
  <2>3. pc'[w] = "idle" => batch'[w] = {}
    BY <1>5, <1>0, BecomeFacts DEF Enqueue, NextInBatch, Finish
  <2>4. \A v \in Workers : job[v] # NoJob => job[v] # t /\ job[v] \in TaskIds
    BY <1>0, <2>2 DEF JobsAreActive, NoTask, HandlerTypeOK
  <2>5. CleanHandlers'
    BY <2>1, <2>2, <2>3, <2>4 DEF CleanHandlers
  <2>6. ASSUME NEW f \in Untroubled, status'[f] \in {"absent", "pending"} PROVE ~Owned(f)'
    <3>1. ~Owned(f) /\ f # e
      BY <2>2, <2>6 DEF OneOwner, Owned
    <3> QED BY <2>1, <2>2, <3>1 DEF Owned
  <2>7. \A f \in Untroubled, v, u \in Workers : f \in batch'[v] /\ f \in batch'[u] => v = u
    BY <2>1 DEF OneOwner
  <2>8. e \in Untroubled => \A u \in TaskIds : tasks[u].ev # e
    BY <2>2 DEF OneOwner
  <2>9. e \in Untroubled => \A v \in Workers \ {w} : e \notin batch[v]
    BY <2>2 DEF OneOwner
  <2>10. \A u, v \in TaskIds :
            tasks'[u].ev = tasks'[v].ev /\ tasks'[u].ev \in Untroubled => u = v
    BY <2>2, <2>8 DEF OneOwner
  <2>11. \A v \in Workers, u \in TaskIds :
            tasks'[u].ev \in Untroubled => tasks'[u].ev \notin batch'[v]
    BY <2>1, <2>2, <2>9 DEF OneOwner
  <2> QED BY <2>2, <2>5, <2>6, <2>7, <2>10, <2>11 DEF OneOwner
<1>6. ASSUME NEW w \in Workers, NEW t \in TaskIds, DispatchRead(w, t) PROVE XInv'
  <2>1. /\ pc'[w] = "publish" /\ batch'[w] = {} /\ job'[w] = t /\ cur'[w] = tasks[t].ev
        /\ \A v \in Workers \ {w} : /\ pc'[v] = pc[v] /\ batch'[v] = batch[v]
                                    /\ job'[v] = job[v] /\ cur'[v] = cur[v]
    BY <1>0, <1>6, BecomeFacts DEF DispatchRead
  <2>2. tasks[t] \in Task /\ status' = status /\ Untroubled' = Untroubled
    BY <1>6 DEF DispatchRead, TypeOK, NoTask, rowVars, Untroubled
  <2>3. \A u \in TaskIds : tasks'[u].ev = tasks[u].ev
    BY <1>6, <2>2 DEF DispatchRead, TypeOK, Task
  <2>4. CleanHandlers'
    BY <1>0, <2>1, <2>2, <2>3, OutboxAssumption DEF CleanHandlers, HandlerTypeOK, NoJob
  <2> QED BY <1>0, <2>1, <2>2, <2>3, <2>4, NoNewOwner
<1>7. ASSUME NEW w \in Workers, NEW t \in TaskIds,
             DispatchSkip(w, t) \/ DispatchReadFails(w, t)
      PROVE  XInv'
  <2>1. /\ tasks[t].state = "queued" /\ (Complete(t) \/ Retry(t))
        /\ status' = status /\ UNCHANGED hVars /\ Untroubled' = Untroubled
    BY <1>7 DEF DispatchSkip, DispatchReadFails, rowVars, Untroubled
  <2>2. /\ \A u \in TaskIds : tasks'[u].ev = tasks[u].ev \/ tasks'[u].ev \notin Events
        /\ \A u \in TaskIds \ {t} : tasks'[u] = tasks[u]
    BY <2>1, TaskAfterwards
  <2>3. \A v \in Workers : job[v] # NoJob => job[v] # t /\ job[v] \in TaskIds
    BY <1>0, <2>1 DEF JobsAreActive, HandlerTypeOK
  <2>4. CleanHandlers'
    BY <2>1, <2>2, <2>3 DEF CleanHandlers, hVars
  <2> QED BY <1>0, <2>1, <2>2, <2>4, NoNewOwner DEF hVars
<1>8. ASSUME NEW w \in Workers, Publish(w) \/ PublishFails(w) PROVE XInv'
  <2>1. /\ pc'[w] \in {"published", "publishFailed"} /\ batch'[w] = {}
        /\ job'[w] = job[w] /\ cur'[w] = cur[w]
        /\ \A v \in Workers \ {w} : /\ pc'[v] = pc[v] /\ batch'[v] = batch[v]
                                    /\ job'[v] = job[v] /\ cur'[v] = cur[v]
    BY <1>0, <1>8, BecomeFacts DEF Publish, PublishFails
  <2>2. tasks' = tasks /\ status' = status /\ job[w] # NoJob /\ cur[w] \in Events
    BY <1>8 DEF Publish, PublishFails, rowVars, JobsAreActive, CursorsAreSet
  <2>3. /\ Untroubled' \subseteq Untroubled
        /\ pc'[w] = "publishFailed" => cur[w] \notin Untroubled'
    <3>1. CASE Publish(w)
      <4>1. pc'[w] = "published"
        BY <1>0, <3>1, BecomeFacts DEF Publish
      <4> QED BY <3>1, <4>1 DEF Publish, Untroubled
    <3>2. CASE PublishFails(w)
      BY <2>2, <3>2, CountFailureTroubles DEF PublishFails
    <3> QED BY <1>8, <3>1, <3>2
  <2>4. CleanHandlers'
    BY <2>1, <2>2, <2>3 DEF CleanHandlers
  <2> QED BY <1>0, <2>1, <2>2, <2>3, <2>4, NoNewOwner
<1>9. ASSUME NEW w \in Workers, Finish(w), failures' = failures,
             UNCHANGED tasks \/ (job[w] # NoJob /\ (Complete(job[w]) \/ Retry(job[w]))),
             \A e \in Untroubled : status'[e] \in {status[e], "delivered"}
      PROVE  XInv'
  <2>1. \A u \in TaskIds : tasks'[u].ev = tasks[u].ev \/ tasks'[u].ev \notin Events
    BY <1>0, <1>9, TaskAfterwards DEF HandlerTypeOK
  <2>2. \A v \in Workers \ {w} : job[v] # NoJob => tasks'[job[v]] = tasks[job[v]]
    BY <1>0, <1>9, TaskAfterwards DEF HandlerTypeOK, JobsAreActive
  <2>3. CleanHandlers' /\ \A v \in Workers : batch'[v] \subseteq batch[v]
    BY <1>9, <2>2, CleanAfterFinish
  <2>4. Untroubled' = Untroubled
    BY <1>9 DEF Untroubled
  <2> QED BY <1>0, <1>9, <2>1, <2>3, <2>4, NoNewOwner
<1>10. ASSUME NEW w \in Workers,
              \/ MarkDelivered(w) \/ MarkDeliveredFails(w)
              \/ DispatchMarkFailed(w) \/ Crash(w)
       PROVE  XInv'
  <2>1. Finish(w) /\ failures' = failures
    BY <1>10 DEF MarkDelivered, MarkDeliveredFails, DispatchMarkFailed, Crash
  <2>2. UNCHANGED tasks \/ (job[w] # NoJob /\ (Complete(job[w]) \/ Retry(job[w])))
    <3>1. CASE MarkDelivered(w) \/ MarkDeliveredFails(w) \/ DispatchMarkFailed(w)
      <4>1. /\ pc[w] \in {"published", "publishFailed"}
            /\ Complete(job[w]) \/ Retry(job[w])
        BY <3>1 DEF MarkDelivered, MarkDeliveredFails, DispatchMarkFailed
      <4>2. job[w] # NoJob
        BY <4>1 DEF JobsAreActive
      <4> QED BY <4>1, <4>2
    <3>2. CASE Crash(w)
      BY <3>2 DEF Crash
    <3> QED BY <1>10, <3>1, <3>2
  <2>3. \A e \in Untroubled : status'[e] \in {status[e], "delivered"}
    <3>1. CASE DispatchMarkFailed(w)
      <4>1. cur[w] \notin Untroubled
        BY <3>1 DEF DispatchMarkFailed, CleanHandlers
      <4> QED
        BY <1>0, <3>1, <4>1
           DEF DispatchMarkFailed, TryMarkFailed, MarkFailed, rowVars, TypeOK
    <3>2. CASE MarkDelivered(w) \/ MarkDeliveredFails(w) \/ Crash(w)
      BY <1>0, <3>2 DEF MarkDelivered, MarkDeliveredFails, Crash, rowVars, TypeOK
    <3> QED BY <1>10, <3>1, <3>2
  <2> QED BY <1>9, <2>1, <2>2, <2>3
<1>11. ASSUME NEW e \in Events, RetryDue(e) PROVE XInv'
  BY <1>1, <1>11 DEF RetryDue
<1>12. CASE UNCHANGED vars
  BY <1>1, <1>12 DEF vars, rowVars
<1>13. ASSUME NEW w \in Workers, NEW e \in Events, EnqueueFails(w, e) PROVE XInv'
  <2>1. /\ pc'[w] = "enqueueFailed" /\ batch'[w] = batch[w] /\ job'[w] = NoJob /\ cur'[w] = e
        /\ \A v \in Workers \ {w} : /\ pc'[v] = pc[v] /\ batch'[v] = batch[v]
                                    /\ job'[v] = job[v] /\ cur'[v] = cur[v]
    BY <1>0, <1>13, BecomeFacts DEF EnqueueFails
  <2>2. Untroubled' = Untroubled \ {e} /\ status' = status
    BY <1>13, CountFailureTroubles DEF EnqueueFails, rowVars
  <2>3. /\ \A t \in TaskIds : tasks'[t].ev \in {tasks[t].ev, e}
        /\ \A t \in TaskIds : tasks[t] # NoTask => tasks'[t] = tasks[t]
    <3>1. CASE UNCHANGED tasks
      BY <3>1
    <3>2. ASSUME NEW t \in TaskIds, AddTask(t, e) 
         PROVE  /\ \A u \in TaskIds : tasks'[u].ev \in {tasks[u].ev, e}
                /\ \A u \in TaskIds : tasks[u] # NoTask => tasks'[u] = tasks[u]
      BY <3>2 DEF AddTask, TypeOK
    <3> QED BY <1>13, <3>1, <3>2 DEF EnqueueFails
  <2>4. \A v \in Workers : job[v] # NoJob => tasks'[job[v]] = tasks[job[v]]
    BY <1>0, <2>3 DEF JobsAreActive, NoTask, HandlerTypeOK
  <2>5. CleanHandlers'
    BY <2>1, <2>2, <2>4 DEF CleanHandlers
  <2> QED BY <1>0, <2>1, <2>2, <2>3, <2>5, NoNewOwner
<1>14. ASSUME NEW w \in Workers, ScanMarkFailed(w) PROVE XInv'
  <2>1. /\ pc'[w] \in {"idle", "scan"} /\ job'[w] = NoJob /\ cur'[w] = NoEvent
        /\ batch'[w] \subseteq batch[w]
        /\ \A v \in Workers \ {w} : /\ pc'[v] = pc[v] /\ batch'[v] = batch[v]
                                    /\ job'[v] = job[v] /\ cur'[v] = cur[v]
    BY <1>0, <1>14, NextInBatchFacts DEF ScanMarkFailed
  <2>2. tasks' = tasks /\ Untroubled' = Untroubled /\ cur[w] \notin Untroubled
    BY <1>14 DEF ScanMarkFailed, Untroubled, CleanHandlers
  <2>3. \A e \in Untroubled : status'[e] = status[e]
    BY <1>0, <1>14, <2>2 DEF ScanMarkFailed, TryMarkFailed, MarkFailed, rowVars, TypeOK
  <2>4. pc'[w] = "idle" => batch'[w] = {}
    BY <1>14, <1>0, BecomeFacts DEF ScanMarkFailed, NextInBatch, Finish
  <2>5. CleanHandlers'
    BY <2>1, <2>2, <2>4 DEF CleanHandlers
  <2> QED BY <1>0, <2>1, <2>2, <2>3, <2>5, NoNewOwner
<1> QED BY <1>2, <1>3, <1>4, <1>5, <1>6, <1>7, <1>8, <1>10, <1>11, <1>12, <1>13, <1>14
        DEF Next, Dispatch, Continue

\* Under every fault: two handlers work on the same event only after an enqueue or
\* a publish of it has failed.  Until then the claim is exclusive and asynq's
\* retries follow one another, whatever Postgres loses, whichever process dies and
\* however other events fail.
THEOREM ExclusiveCorrect == Spec => []ExclusiveDispatch
<1>1. Init => XInv
  BY ExclusiveInit
<1>2. TInv /\ XInv /\ [Next]_vars => XInv'
  BY ExclusiveStep
<1>3. TInv /\ XInv => ExclusiveDispatch
  <2> SUFFICES ASSUME TInv, XInv, NEW v \in Workers, NEW w \in Workers,
                      v # w, cur[v] = cur[w], cur[v] # NoEvent, ~(failures[cur[v]] > 0)
               PROVE  FALSE
    BY DEF ExclusiveDispatch
  <2> USE DEF TInv, XInv
  <2>1. cur[v] \in Untroubled
    BY DEF TypeOK, HandlerTypeOK, Untroubled
  <2>2. job[v] # NoJob /\ job[w] # NoJob
    BY <2>1 DEF CleanHandlers
  <2>3. /\ job[v] \in TaskIds /\ job[w] \in TaskIds
        /\ tasks[job[v]].ev = cur[v] /\ tasks[job[w]].ev = cur[w]
    BY <2>2 DEF TypeOK, HandlerTypeOK, CleanHandlers
  <2>4. job[v] = job[w]
    BY <2>1, <2>3 DEF OneOwner
  <2> QED BY <2>2, <2>4 DEF JobsAreActive
<1> QED BY <1>1, <1>2, <1>3, TInvHolds, PTL DEF Spec

-----------------------------------------------------------------------------
(* When a verdict is final.                                                *)

\* A row that no handler is at work on and that is settled is left alone.
SettledAlone(e) ==
    status[e] \in {"delivered", "dead"} /\ ~AtWork(e)
        => status'[e] = status[e] /\ ~AtWork(e)'

\* A handler that moves on without taking up another row.
LEMMA NoNewWork ==
    ASSUME NEW e \in Events, NEW w \in Workers, status[e] \in {"delivered", "dead"} => status'[e] = status[e],
           cur'[w] = e => cur[w] = e \/ e \in batch[w], batch'[w] \subseteq batch[w],
           \A v \in Workers \ {w} : cur'[v] = cur[v] /\ batch'[v] = batch[v]
    PROVE  SettledAlone(e)
BY DEF SettledAlone, AtWork

\* What a handler marks is the row it works on.
LEMMA OnlyItsRow ==
    ASSUME TInv, NEW w \in Workers, NEW e \in Events, ~AtWork(e),
           ScanMarkFailed(w) \/ MarkDelivered(w) \/ MarkDeliveredFails(w) \/ DispatchMarkFailed(w)
    PROVE  status'[e] = status[e]
<1>1. cur[w] # e
  BY DEF AtWork
<1>2. status' = status \/ \E s : status' = [status EXCEPT ![cur[w]] = s]
  BY DEF ScanMarkFailed, MarkDelivered, MarkDeliveredFails, DispatchMarkFailed, TryMarkFailed,
         MarkFailed, rowVars
<1> QED  BY <1>1, <1>2 DEF TInv, TypeOK

LEMMA VerdictStep ==
    ASSUME TInv, [Next]_vars, NEW e \in Events PROVE SettledAlone(e)
<1> USE DEF TInv, TypeOK
<1>1. CASE UNCHANGED <<status, hVars>>
  BY <1>1 DEF hVars, SettledAlone, AtWork
<1>2. ASSUME NEW f \in Events, Insert(f) PROVE SettledAlone(e)
  BY <1>2 DEF Insert, hVars, SettledAlone, AtWork
<1>3. ASSUME NEW w \in Workers, ClaimPending(w) \/ ClaimLost(w) PROVE SettledAlone(e)
  <2>1. status[e] \in {"delivered", "dead"} => e \notin Claimed /\ status'[e] = status[e]
    BY <1>3, ClaimedFacts DEF ClaimPending, ClaimLost, ClaimRows
  <2>2. CASE ClaimLost(w)
    BY <2>1, <2>2 DEF ClaimLost, hVars, SettledAlone, AtWork
  <2>3. CASE ClaimPending(w)
    <3>1. /\ batch'[w] = Claimed /\ cur'[w] = NoEvent
          /\ \A v \in Workers \ {w} : cur'[v] = cur[v] /\ batch'[v] = batch[v]
      BY <2>3, BecomeFacts DEF ClaimPending
    <3>2. e # NoEvent
      BY OutboxAssumption DEF NoEvent
    <3> QED  BY <2>1, <3>1, <3>2 DEF SettledAlone, AtWork
  <2> QED  BY <1>3, <2>2, <2>3
<1>4. ASSUME NEW w \in Workers, NEW f \in Events,
             EnqueueFails(w, f) \/ (\E t \in TaskIds : Enqueue(w, f, t))
      PROVE  SettledAlone(e)
  <2>1. CASE EnqueueFails(w, f)
    <3>1. /\ status' = status /\ f \in batch[w] /\ cur'[w] = f /\ batch'[w] = batch[w]
          /\ \A v \in Workers \ {w} : cur'[v] = cur[v] /\ batch'[v] = batch[v]
      BY <2>1, BecomeFacts DEF EnqueueFails, rowVars
    <3> QED  BY <3>1, NoNewWork
  <2>2. CASE \E t \in TaskIds : Enqueue(w, f, t)
    <3>1. status' = status /\ NextInBatch(w, f)
      BY <2>2 DEF Enqueue, rowVars
    <3>2. /\ cur'[w] = NoEvent /\ batch'[w] \subseteq batch[w]
          /\ \A v \in Workers \ {w} : cur'[v] = cur[v] /\ batch'[v] = batch[v]
      BY <3>1, NextInBatchFacts
    <3>3. e # NoEvent
      BY OutboxAssumption DEF NoEvent
    <3> QED  BY <3>1, <3>2, <3>3, NoNewWork
  <2> QED  BY <1>4, <2>1, <2>2
<1>5. ASSUME NEW w \in Workers,
             ScanMarkFailed(w) \/ MarkDelivered(w) \/ MarkDeliveredFails(w) \/ DispatchMarkFailed(w)
      PROVE  SettledAlone(e)
  <2>1. NextInBatch(w, cur[w]) \/ Finish(w)
    BY <1>5 DEF ScanMarkFailed, MarkDelivered, MarkDeliveredFails, DispatchMarkFailed
  <2>2. /\ cur'[w] = NoEvent /\ batch'[w] \subseteq batch[w]
        /\ \A v \in Workers \ {w} : cur'[v] = cur[v] /\ batch'[v] = batch[v]
    BY <2>1, BecomeFacts, NextInBatchFacts DEF Finish
  <2>3. e # NoEvent
    BY OutboxAssumption DEF NoEvent
  <2>4. ~AtWork(e) => status'[e] = status[e]
    BY <1>5, OnlyItsRow
  <2> QED  BY <2>2, <2>3, <2>4 DEF SettledAlone, AtWork
<1>6. ASSUME NEW w \in Workers, NEW t \in TaskIds, DispatchRead(w, t) PROVE SettledAlone(e)
  <2>1. /\ status' = status /\ cur'[w] = tasks[t].ev /\ batch'[w] = {}
        /\ status[tasks[t].ev] \notin {"delivered", "dead"}
        /\ \A v \in Workers \ {w} : cur'[v] = cur[v] /\ batch'[v] = batch[v]
    BY <1>6, BecomeFacts DEF DispatchRead, rowVars
  <2> QED  BY <2>1 DEF SettledAlone, AtWork
<1>7. ASSUME NEW w \in Workers, Publish(w) \/ PublishFails(w) \/ Crash(w) PROVE SettledAlone(e)
  <2>1. /\ status' = status /\ cur'[w] \in {cur[w], NoEvent} /\ batch'[w] = {}
        /\ \A v \in Workers \ {w} : cur'[v] = cur[v] /\ batch'[v] = batch[v]
    BY <1>7, BecomeFacts DEF Publish, PublishFails, Crash, Finish, rowVars
  <2>2. e # NoEvent
    BY OutboxAssumption DEF NoEvent
  <2> QED  BY <2>1, <2>2, NoNewWork
<1> QED  BY <1>1, <1>2, <1>3, <1>4, <1>5, <1>6, <1>7
         DEF Next, Dispatch, Continue, RetryDue, DispatchSkip, DispatchReadFails, rowVars, vars

\* A verdict is final once every handler that read the row before it is through:
\* under all faults, for any number of handlers and tasks.  A handler that is not
\* through may still take a delivered row back to "pending".
THEOREM VerdictCorrect == Spec => VerdictStands
<1>1. TInv /\ [Next]_vars => [\A e \in Events : SettledAlone(e)]_vars
  BY VerdictStep
<1>2. TInv /\ [\A e \in Events : SettledAlone(e)]_vars =>
          [\A e \in Events : status[e] \in {"delivered", "dead"} /\ ~AtWork(e)
                => status'[e] = status[e] /\ ~AtWork(e)']_vars
  BY DEF SettledAlone
<1> QED  BY <1>1, <1>2, TInvHolds, PTL DEF Spec, VerdictStands
=============================================================================
