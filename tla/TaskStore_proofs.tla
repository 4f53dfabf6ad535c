--------------------------- MODULE TaskStore_proofs ---------------------------
(***************************************************************************)
(* What TaskStore guarantees for any number of tasks, of Go and of Python  *)
(* requests, any pool size and any set of statuses clients ask for.        *)
(*                                                                         *)
(* HistoryIsPath is not inductive: a Commit appends a row that starts at   *)
(* req[r].from, which the request read earlier.  It is still the task's    *)
(* status because the request has held the row's lock since (WriterInv),   *)
(* and the step is legal because the request checked it then, or because   *)
(* of what its operation is (RequestInv).                                  *)
(***************************************************************************)
EXTENDS TaskStore, TLAPS, SequenceTheorems

\* What the handlers pass: a create asks for "pending", a cancel for "canceled".
RequestInv ==
    \A r \in Requests : ~At(r, "idle") =>
        /\ req[r].op = "create" => req[r].to = "pending" /\ req[r].from = Absent
        /\ req[r].op = "cancel" => req[r].to = "canceled"

\* A transaction about to write holds the lock of its task, whose status is
\* what it read, and has checked that its step is legal.
WriterInv ==
    \A r \in Requests : At(r, "write") =>
        /\ lock[req[r].key] = r
        /\ task[req[r].key] = req[r].from
        /\ req[r].op # "create" => <<req[r].from, req[r].to>> \in DOMAIN TaskTransitions

HInv == TypeOK /\ RequestInv /\ WriterInv /\ HistoryIsPath

-----------------------------------------------------------------------------
(* The transition table.                                                   *)

LEMMA TableEntries ==
    ASSUME NEW a, NEW b, <<a, b>> \in DOMAIN TaskTransitions
    PROVE  /\ a \in TaskStatuses /\ b \in TaskStatuses /\ a # b
           /\ TaskTransitions[<<a, b>>] \in EventTypes
           /\ b = "canceled" => TaskTransitions[<<a, b>>] = "task_canceled"
           /\ EventTypeForTransition(a, b) = TaskTransitions[<<a, b>>]
<1>1. <<a, b>> \in { <<"pending", "running">>, <<"pending", "canceled">>,
              <<"running", "done">>, <<"running", "failed">>,
              <<"running", "canceled">> }
  BY DEF TaskTransitions
<1>2. a \in TaskStatuses /\ b \in TaskStatuses /\ a # b
  BY <1>1 DEF TaskStatuses
<1>3. TaskTransitions[<<a, b>>] \in EventTypes
  BY DEF EventTypes
<1>4. b = "canceled" => TaskTransitions[<<a, b>>] = "task_canceled"
  <2> SUFFICES ASSUME b = "canceled" PROVE TaskTransitions[<<a, b>>] = "task_canceled"
    OBVIOUS
  <2> QED BY <1>1 DEF TaskTransitions
<1>5. EventTypeForTransition(a, b) = TaskTransitions[<<a, b>>]
  BY <1>2 DEF EventTypeForTransition
<1> QED BY <1>2, <1>3, <1>4, <1>5

\* The event type a request writes is one of the known ones.
LEMMA EventTypeType ==
    ASSUME NEW o \in Request
    PROVE  EventType(o) \in EventTypes
<1>1. "task_created" \in EventTypes /\ "" \in EventTypes
  BY DEF EventTypes
<1>2. "task_canceled" \in EventTypes
  <2>1. <<"pending", "canceled">> \in DOMAIN TaskTransitions
    BY DEF TaskTransitions
  <2> QED BY <2>1, TableEntries
<1>3. EventTypeForTransition(o.from, o.to) \in EventTypes
  BY <1>1, TableEntries DEF EventTypeForTransition
<1> QED BY <1>1, <1>2, <1>3 DEF EventType

-----------------------------------------------------------------------------
(* Type correctness.                                                       *)

LEMMA RequestFields ==
    ASSUME TypeOK, NEW r \in Requests, ~At(r, "idle")
    PROVE  /\ req[r] \in Request
           /\ req[r].key \in Keys
           /\ req[r].to \in TaskStatuses \cup {Unknown}
           /\ req[r].from \in TaskStatuses \cup {Absent}
BY DEF TypeOK, At, Idle, Request

LEMMA TypeInit == Init => TypeOK
<1> SUFFICES ASSUME Init PROVE TypeOK
  OBVIOUS
<1>1. rows \in [Keys -> Seq(Row)]
  BY DEF Init
<1>2. outbox \in [Keys -> Seq(Envelope)]
  BY DEF Init
<1>3. req \in [Requests -> Request \cup {Idle}]
  BY DEF Init
<1> QED BY <1>1, <1>2, <1>3 DEF Init, TypeOK

LEMMA TypeStep == TypeOK /\ [Next]_vars => TypeOK'
<1> SUFFICES ASSUME TypeOK, [Next]_vars PROVE TypeOK'
  OBVIOUS
<1>1. ASSUME NEW r \in Requests, NEW o \in Ops, Submit(r, o) PROVE TypeOK'
  <2>1. /\ o.op \in {"create", "cancel", "status"}
        /\ o.key \in Keys
        /\ o.to \in TaskStatuses \cup {Unknown}
    BY TaskStoreAssumption DEF Ops, TaskStatuses
  <2>2. [pc |-> "begin", op |-> o.op, key |-> o.key, to |-> o.to, from |-> Absent] \in Request
    BY <2>1 DEF Request
  <2> QED BY <1>1, <2>2 DEF Submit, TypeOK
<1>2. ASSUME NEW r \in Requests, Begin(r) PROVE TypeOK'
  <2>1. req[r] \in Request
    BY <1>2, RequestFields DEF Begin, At
  <2>2. [req[r] EXCEPT !.pc = "wait"] \in Request
    BY <2>1 DEF Request
  <2> QED BY <1>2, <2>2 DEF Begin, TypeOK
<1>3. ASSUME NEW r \in Requests, InsertTask(r) PROVE TypeOK'
  <2>1. req[r] \in Request /\ req[r].key \in Keys
    BY <1>3, RequestFields DEF InsertTask, At
  <2>2. [req[r] EXCEPT !.pc = "write"] \in Request
    BY <2>1 DEF Request
  <2> QED BY <1>3, <2>1, <2>2 DEF InsertTask, TypeOK
<1>4. ASSUME NEW r \in Requests, ReturnExisting(r) PROVE TypeOK'
  BY <1>4 DEF ReturnExisting, TypeOK
<1>5. ASSUME NEW r \in Requests, LockTask(r) PROVE TypeOK'
  <2>1. req[r] \in Request /\ req[r].key \in Keys
    BY <1>5, RequestFields DEF LockTask, At
  <2>2. task[req[r].key] \in TaskStatuses
    <3>1. CASE <<task[req[r].key], req[r].to>> \in DOMAIN TaskTransitions
      BY <3>1, TableEntries
    <3> QED BY <1>5, <3>1 DEF LockTask, CanTransition
  <2>3. [req[r] EXCEPT !.pc = "write", !.from = task[req[r].key]] \in Request
    BY <2>1, <2>2 DEF Request
  <2>4. req' = [req EXCEPT ![r] = [req[r] EXCEPT !.pc = "write", !.from = task[req[r].key]]]
    BY <1>5, <2>1 DEF LockTask, TypeOK, Request
  <2> QED BY <1>5, <2>1, <2>3, <2>4 DEF LockTask, TypeOK
<1>6. ASSUME NEW r \in Requests, NothingToDo(r) PROVE TypeOK'
  BY <1>6 DEF NothingToDo, TypeOK
<1>7. ASSUME NEW r \in Requests, RejectTransition(r) PROVE TypeOK'
  <2>1. req[r].key \in Keys
    BY <1>7, RequestFields DEF RejectTransition, At
  <2>2. lock' \in [Keys -> Requests \cup {"free", "leaked"}] /\ leaked' \in SUBSET Keys
    BY <1>7, <2>1 DEF RejectTransition, TypeOK
  <2> QED BY <1>7, <2>2 DEF RejectTransition, TypeOK
<1>8. ASSUME NEW r \in Requests, Commit(r) PROVE TypeOK'
  <2> DEFINE k == req[r].key
             n == Len(rows[k]) + 1
             row == [id |-> RowId(r, n), type |-> EventType(req[r]),
                     from |-> req[r].from, to |-> req[r].to]
             env == [id |-> EventId(k, n, "handler"), type |-> EventType(req[r])]
  <2>1. /\ req[r] \in Request
        /\ k \in Keys
        /\ req[r].to \in TaskStatuses \cup {Unknown}
        /\ req[r].from \in TaskStatuses \cup {Absent}
    BY <1>8, RequestFields DEF Commit, At
  <2>2. n \in Nat
    BY <2>1, LenProperties DEF TypeOK
  <2>3. RowId(r, n) \in EventIds /\ EventId(k, n, "handler") \in EventIds
    BY <2>1, <2>2 DEF RowId, EventId, EventIds
  <2>4. EventType(req[r]) \in EventTypes
    BY <2>1, EventTypeType
  <2>5. row \in Row
    BY <2>1, <2>3, <2>4 DEF Row
  <2>6. env \in Envelope
    BY <2>3, <2>4 DEF Envelope
  <2>7. rows' \in [Keys -> Seq(Row)]
    <3>1. rows' = [rows EXCEPT ![k] = Append(@, row)]
      BY <1>8 DEF Commit
    <3>2. Append(rows[k], row) \in Seq(Row)
      BY <2>1, <2>5, AppendProperties DEF TypeOK
    <3> HIDE DEF row, n, k
    <3> QED BY <3>1, <3>2 DEF TypeOK
  <2>8. outbox' \in [Keys -> Seq(Envelope)]
    <3>1. \/ outbox' = outbox
          \/ outbox' = [outbox EXCEPT ![k] = Append(@, env)]
      BY <1>8 DEF Commit
    <3>2. Append(outbox[k], env) \in Seq(Envelope)
      BY <2>1, <2>6, AppendProperties DEF TypeOK
    <3> HIDE DEF env, n, k
    <3> QED BY <3>1, <3>2 DEF TypeOK
  <2>9. task' \in [Keys -> TaskStatuses \cup {Absent, Unknown}]
    BY <1>8, <2>1 DEF Commit, TypeOK
  <2>10. lock' \in [Keys -> Requests \cup {"free", "leaked"}]
    BY <1>8, <2>1 DEF Commit, TypeOK
  <2>11. req' \in [Requests -> Request \cup {Idle}]
    BY <1>8 DEF Commit, TypeOK
  <2> QED BY <1>8, <2>7, <2>8, <2>9, <2>10, <2>11 DEF Commit, TypeOK
<1>9. ASSUME NEW r \in Requests, Abort(r) PROVE TypeOK'
  BY <1>9 DEF Abort, TypeOK
<1>10. CASE Restart
  BY <1>10 DEF Restart, TypeOK
<1>11. ASSUME NEW k \in Keys, NEW i \in 1 .. MaxChanges, InsertTaskEventFromStream(k, i)
       PROVE  TypeOK'
  <2>1. outbox[k] \in Seq(Envelope) /\ i \in DOMAIN outbox[k]
    BY <1>11 DEF InsertTaskEventFromStream, TypeOK
  <2>2. outbox[k][i] \in Envelope
    BY <2>1, ElementOfSeq, LenProperties
  <2>3. outbox[k][i].id \in EventIds
    BY <2>2 DEF Envelope
  <2> QED BY <1>11, <2>3 DEF InsertTaskEventFromStream, TypeOK
<1>12. CASE UNCHANGED vars
  BY <1>12 DEF vars, TypeOK
<1> QED BY <1>1, <1>2, <1>3, <1>4, <1>5, <1>6, <1>7, <1>8, <1>9, <1>10, <1>11, <1>12
        DEF Next, Proceed

\* Type correctness of the store: whatever the number of tasks and requests,
\* the columns and the requests only hold values of their types.
THEOREM TypeCorrect == Spec => []TypeOK
<1> QED BY TypeInit, TypeStep, PTL DEF Spec

-----------------------------------------------------------------------------
(* The history of a task.                                                  *)

LEMMA NoSentinel == \A r \in Requests : r # "free" /\ r # "leaked"
BY TaskStoreAssumption

\* A key whose lock no request holds has no writer.
LEMMA NoWriter ==
    ASSUME WriterInv, NEW k \in Keys, lock[k] \in {"free", "leaked"},
           NEW s \in Requests, At(s, "write")
    PROVE  req[s].key # k
<1>1. lock[req[s].key] = s
  BY DEF WriterInv
<1>2. s \notin {"free", "leaked"}
  BY NoSentinel
<1> QED BY <1>1, <1>2

LEMMA HInit == Init => RequestInv /\ WriterInv /\ HistoryIsPath
BY DEF Init, RequestInv, WriterInv, HistoryIsPath, At, Idle

\* A request keeps its operation and target from submission to answer.
LEMMA RequestStep == TypeOK /\ RequestInv /\ [Next]_vars => RequestInv'
<1> SUFFICES ASSUME TypeOK, RequestInv, [Next]_vars PROVE RequestInv'
  OBVIOUS
<1> USE DEF RequestInv, At
<1>1. ASSUME NEW r \in Requests, NEW o \in Ops, Submit(r, o) PROVE RequestInv'
  <2>1. /\ o.op = "create" => o.to = "pending"
        /\ o.op = "cancel" => o.to = "canceled"
    BY DEF Ops
  <2> QED BY <1>1, <2>1 DEF Submit, TypeOK
<1>2. ASSUME NEW r \in Requests, Begin(r) PROVE RequestInv'
  <2>1. req[r] \in Request
    BY <1>2, RequestFields DEF Begin
  <2>2. req'[r].op = req[r].op /\ req'[r].to = req[r].to /\ req'[r].from = req[r].from
    BY <1>2, <2>1 DEF Begin, TypeOK, Request
  <2> QED BY <1>2, <2>2 DEF Begin, TypeOK
<1>3. ASSUME NEW r \in Requests, InsertTask(r) PROVE RequestInv'
  <2>1. req[r] \in Request
    BY <1>3, RequestFields DEF InsertTask
  <2>2. req'[r].op = req[r].op /\ req'[r].to = req[r].to /\ req'[r].from = req[r].from
    BY <1>3, <2>1 DEF InsertTask, TypeOK, Request
  <2> QED BY <1>3, <2>2 DEF InsertTask, TypeOK
<1>4. ASSUME NEW r \in Requests, ReturnExisting(r) PROVE RequestInv'
  BY <1>4 DEF ReturnExisting, TypeOK, Idle
<1>5. ASSUME NEW r \in Requests, LockTask(r) PROVE RequestInv'
  <2>1. req[r] \in Request
    BY <1>5, RequestFields DEF LockTask
  <2>2. req'[r].op = req[r].op /\ req'[r].to = req[r].to /\ req[r].op # "create"
    BY <1>5, <2>1 DEF LockTask, TypeOK, Request
  <2> QED BY <1>5, <2>2 DEF LockTask, TypeOK
<1>6. ASSUME NEW r \in Requests, NothingToDo(r) PROVE RequestInv'
  BY <1>6 DEF NothingToDo, TypeOK, Idle
<1>7. ASSUME NEW r \in Requests, RejectTransition(r) PROVE RequestInv'
  BY <1>7 DEF RejectTransition, TypeOK, Idle
<1>8. ASSUME NEW r \in Requests, Commit(r) PROVE RequestInv'
  BY <1>8 DEF Commit, TypeOK, Idle
<1>9. ASSUME NEW r \in Requests, Abort(r) PROVE RequestInv'
  BY <1>9 DEF Abort, TypeOK, Idle
<1>10. CASE Restart
  BY <1>10 DEF Restart, TypeOK, Idle
<1>11. ASSUME NEW k \in Keys, NEW i \in 1 .. MaxChanges, InsertTaskEventFromStream(k, i)
       PROVE  RequestInv'
  BY <1>11 DEF InsertTaskEventFromStream
<1>12. CASE UNCHANGED vars
  BY <1>12 DEF vars
<1> QED BY <1>1, <1>2, <1>3, <1>4, <1>5, <1>6, <1>7, <1>8, <1>9, <1>10, <1>11, <1>12
        DEF Next, Proceed

\* Nobody takes the lock of a writer or changes the task it has read.
LEMMA WriterStep == TypeOK /\ RequestInv /\ WriterInv /\ [Next]_vars => WriterInv'
<1> SUFFICES ASSUME TypeOK, RequestInv, WriterInv, [Next]_vars PROVE WriterInv'
  OBVIOUS
<1> USE DEF WriterInv, At
<1>1. ASSUME NEW r \in Requests, NEW o \in Ops, Submit(r, o) PROVE WriterInv'
  BY <1>1 DEF Submit, TypeOK
<1>2. ASSUME NEW r \in Requests, Begin(r) PROVE WriterInv'
  <2>1. req[r] \in Request
    BY <1>2, RequestFields DEF Begin, At
  <2>2. req'[r].pc = "wait"
    BY <1>2, <2>1 DEF Begin, TypeOK, Request
  <2> QED BY <1>2, <2>2 DEF Begin, TypeOK
<1>3. ASSUME NEW r \in Requests, InsertTask(r) PROVE WriterInv'
  <2>1. req[r] \in Request /\ req[r].key \in Keys
    BY <1>3, RequestFields DEF InsertTask, At
  <2>2. /\ req'[r].op = "create" /\ req'[r].key = req[r].key /\ req'[r].from = Absent
    BY <1>3, <2>1 DEF InsertTask, TypeOK, Request, RequestInv
  <2>3. \A s \in Requests \ {r} : req'[s] = req[s]
    BY <1>3 DEF InsertTask, TypeOK
  <2>4. \A s \in Requests \ {r} : At(s, "write") => req[s].key # req[r].key
    <3>1. lock[req[r].key] = "free"
      BY <1>3 DEF InsertTask
    <3> HIDE DEF WriterInv, At
    <3> QED BY <2>1, <3>1, NoWriter
  <2> QED BY <1>3, <2>1, <2>2, <2>3, <2>4 DEF InsertTask, TypeOK
<1>4. ASSUME NEW r \in Requests, ReturnExisting(r) PROVE WriterInv'
  BY <1>4 DEF ReturnExisting, TypeOK, Idle
<1>5. ASSUME NEW r \in Requests, LockTask(r) PROVE WriterInv'
  <2>1. req[r] \in Request /\ req[r].key \in Keys
    BY <1>5, RequestFields DEF LockTask, At
  <2>2. /\ req'[r].key = req[r].key
        /\ req'[r].from = task[req[r].key]
        /\ req'[r].to = req[r].to
    BY <1>5, <2>1 DEF LockTask, TypeOK, Request
  <2>3. <<task[req[r].key], req[r].to>> \in DOMAIN TaskTransitions
    BY <1>5 DEF LockTask, CanTransition
  <2>4. \A s \in Requests \ {r} : req'[s] = req[s]
    BY <1>5 DEF LockTask, TypeOK
  <2>5. \A s \in Requests \ {r} : At(s, "write") => req[s].key # req[r].key
    <3>1. lock[req[r].key] = "free"
      BY <1>5 DEF LockTask
    <3> HIDE DEF WriterInv, At
    <3> QED BY <2>1, <3>1, NoWriter
  <2>6. lock' = [lock EXCEPT ![req[r].key] = r] /\ task' = task
    BY <1>5 DEF LockTask
  <2>7. lock'[req[r].key] = r
    BY <2>1, <2>6 DEF TypeOK
  <2>8. \A s \in Requests \ {r} : At(s, "write") => lock'[req[s].key] = lock[req[s].key]
    BY <2>1, <2>5, <2>6 DEF TypeOK
  <2> QED BY <2>2, <2>3, <2>4, <2>6, <2>7, <2>8
<1>6. ASSUME NEW r \in Requests, NothingToDo(r) PROVE WriterInv'
  BY <1>6 DEF NothingToDo, TypeOK, Idle
<1>7. ASSUME NEW r \in Requests, RejectTransition(r) PROVE WriterInv'
  <2>1. req[r].key \in Keys
    BY <1>7, RequestFields DEF RejectTransition, At
  <2>2. \A s \in Requests : At(s, "write") => req[s].key # req[r].key
    <3>1. lock[req[r].key] = "free"
      BY <1>7 DEF RejectTransition
    <3> HIDE DEF WriterInv, At
    <3> QED BY <2>1, <3>1, NoWriter
  <2>3. lock' \in {lock, [lock EXCEPT ![req[r].key] = "leaked"]} /\ task' = task
    BY <1>7 DEF RejectTransition
  <2>4. \A s \in Requests : At(s, "write") => lock'[req[s].key] = lock[req[s].key]
    <3> SUFFICES ASSUME NEW s \in Requests, At(s, "write")
                 PROVE  lock'[req[s].key] = lock[req[s].key]
      OBVIOUS
    <3>1. req[s].key \in Keys /\ req[s].key # req[r].key
      BY <2>2, RequestFields
    <3> QED BY <2>1, <2>3, <3>1 DEF TypeOK
  <2>5. req' = [req EXCEPT ![r] = Idle]
    BY <1>7 DEF RejectTransition
  <2>6. ~At(r, "write")'
    BY <2>5 DEF TypeOK, Idle
  <2>7. \A s \in Requests \ {r} : req'[s] = req[s]
    BY <2>5 DEF TypeOK
  <2> QED BY <2>3, <2>4, <2>6, <2>7
<1>8. ASSUME NEW r \in Requests, Commit(r) PROVE WriterInv'
  <2>1. req[r].key \in Keys /\ lock[req[r].key] = r
    BY <1>8, RequestFields DEF Commit, At
  <2>2. \A s \in Requests \ {r} : At(s, "write") => req[s].key # req[r].key
    BY <2>1
  <2>3. req' = [req EXCEPT ![r] = Idle]
    BY <1>8 DEF Commit
  <2>4. task' = [task EXCEPT ![req[r].key] = req[r].to] /\ lock' = [lock EXCEPT ![req[r].key] = "free"]
    BY <1>8 DEF Commit
  <2> QED BY <2>1, <2>2, <2>3, <2>4 DEF TypeOK, Idle
<1>9. ASSUME NEW r \in Requests, Abort(r) PROVE WriterInv'
  <2>1. \A s \in Requests \ {r} : At(s, "write") => req[s].key \in Keys
    BY RequestFields
  <2>2. req' = [req EXCEPT ![r] = Idle] /\ task' = task
        /\ lock' = [k \in Keys |-> IF lock[k] = r THEN "free" ELSE lock[k]]
    BY <1>9 DEF Abort
  <2> QED BY <2>1, <2>2 DEF TypeOK, Idle
<1>10. CASE Restart
  <2>1. \A s \in Requests : At(s, "write") => req[s].key \in Keys
    BY RequestFields
  <2>2. /\ req' = [r \in Requests |-> IF r \in GoRequests THEN Idle ELSE req[r]]
        /\ lock' = [k \in Keys |-> IF lock[k] \in GoRequests \cup {"leaked"}
                                   THEN "free" ELSE lock[k]]
        /\ task' = task
    BY <1>10 DEF Restart
  <2> QED BY <2>1, <2>2, NoSentinel DEF Idle
<1>11. ASSUME NEW k \in Keys, NEW i \in 1 .. MaxChanges, InsertTaskEventFromStream(k, i)
       PROVE  WriterInv'
  BY <1>11 DEF InsertTaskEventFromStream
<1>12. CASE UNCHANGED vars
  BY <1>12 DEF vars
<1> QED BY <1>1, <1>2, <1>3, <1>4, <1>5, <1>6, <1>7, <1>8, <1>9, <1>10, <1>11, <1>12
        DEF Next, Proceed

-----------------------------------------------------------------------------
\* The row a commit appends is one legal change from the task's status.
LEMMA CommitIsLegal ==
    ASSUME HInv, NEW r \in Requests, Commit(r)
    PROVE  /\ req[r].from = task[req[r].key]
           /\ \A row : /\ row.from = req[r].from
                       /\ row.to = req[r].to
                       /\ row.type = EventType(req[r])
                       => Legal(row)
<1>1. req[r] \in Request /\ At(r, "write")
  BY RequestFields DEF HInv, Commit, At
<1>2. req[r].from = task[req[r].key]
  BY <1>1 DEF HInv, WriterInv
<1>3. CASE req[r].op = "create"
  <2>1. req[r].from = Absent /\ req[r].to = "pending"
    BY <1>1, <1>3 DEF HInv, RequestInv, At
  <2> QED BY <1>2, <1>3, <2>1 DEF Legal, EventType
<1>4. CASE req[r].op # "create"
  <2>1. <<req[r].from, req[r].to>> \in DOMAIN TaskTransitions
    BY <1>1, <1>4 DEF HInv, WriterInv
  <2>2. req[r].op = "cancel" => req[r].to = "canceled"
    BY <1>1 DEF HInv, RequestInv, At
  <2>3. EventType(req[r]) = TaskTransitions[<<req[r].from, req[r].to>>]
    BY <1>4, <2>1, <2>2, TableEntries DEF EventType
  <2> QED BY <1>2, <2>1, <2>3 DEF Legal
<1> QED BY <1>3, <1>4

\* What appending changes: the last element, and nothing before it.
LEMMA Appended ==
    ASSUME NEW S, NEW s \in Seq(S), NEW x
    PROVE  /\ Len(s) \in Nat /\ DOMAIN s = 1 .. Len(s)
           /\ Len(Append(s, x)) = Len(s) + 1
           /\ DOMAIN Append(s, x) = 1 .. Len(s) + 1
           /\ \A i \in 1 .. Len(s) : Append(s, x)[i] = s[i]
           /\ Append(s, x)[Len(s) + 1] = x
<1>1. s \in Seq(S \cup {x}) /\ x \in S \cup {x}
  OBVIOUS
<1>2. Append(s, x) \in Seq(S \cup {x}) /\ Len(s) \in Nat
  BY <1>1, AppendProperties, LenProperties
<1>3. Len(Append(s, x)) = Len(s) + 1 /\ DOMAIN s = 1 .. Len(s)
  BY <1>1, AppendProperties, LenProperties
<1>4. /\ \A i \in 1 .. Len(s) : Append(s, x)[i] = s[i]
      /\ Append(s, x)[Len(s) + 1] = x
  BY <1>1, AppendProperties
<1>5. DOMAIN Append(s, x) = 1 .. Len(s) + 1
  BY <1>2, <1>3, LenProperties
<1> QED BY <1>2, <1>3, <1>4, <1>5

\* Only a commit touches a task and its rows.
LEMMA OnlyCommitWrites ==
    [Next]_vars => UNCHANGED <<task, rows>> \/ \E r \in Requests : Commit(r)
BY DEF Next, Proceed, Submit, Begin, InsertTask, ReturnExisting, LockTask, NothingToDo,
       RejectTransition, Abort, Restart, InsertTaskEventFromStream, vars

LEMMA HistoryStep == HInv /\ [Next]_vars => HistoryIsPath'
<1> SUFFICES ASSUME HInv, [Next]_vars PROVE HistoryIsPath'
  OBVIOUS
<1>1. CASE UNCHANGED <<task, rows>>
  BY <1>1 DEF HInv, HistoryIsPath
<1>2. ASSUME NEW r \in Requests, Commit(r) PROVE HistoryIsPath'
  <2> DEFINE k == req[r].key
             n == Len(rows[k])
             row == [id |-> RowId(r, n + 1), type |-> EventType(req[r]),
                     from |-> req[r].from, to |-> req[r].to]
  <2>1. k \in Keys
    BY <1>2, RequestFields DEF HInv, Commit, At
  <2>2. Legal(row) /\ row.from = task[k]
    BY <1>2, CommitIsLegal
  <2>3. rows' = [rows EXCEPT ![k] = Append(@, row)]
    BY <1>2 DEF Commit
  <2>4. task' = [task EXCEPT ![k] = row.to]
    BY <1>2 DEF Commit
  <2>5. rows[k] \in Seq(Row)
    BY <2>1 DEF HInv, TypeOK
  <2> HIDE DEF row
  <2>6. rows'[k] = Append(rows[k], row) /\ task'[k] = row.to
    BY <2>1, <2>3, <2>4 DEF HInv, TypeOK
  <2>7. /\ Len(rows'[k]) = n + 1 /\ n \in Nat
        /\ DOMAIN rows'[k] = 1 .. n + 1 /\ DOMAIN rows[k] = 1 .. n
        /\ \A i \in 1 .. n : rows'[k][i] = rows[k][i]
        /\ rows'[k][n + 1] = row
    BY <2>5, <2>6, Appended
  <2>8. task[k] = IF rows[k] = <<>> THEN Absent ELSE rows[k][n].to
    BY <2>1 DEF HInv, HistoryIsPath
  <2>9. rows[k] = <<>> <=> n = 0
    BY <2>5, EmptySeq
  <2>10. \A i \in DOMAIN rows'[k] :
            /\ Legal(rows'[k][i])
            /\ rows'[k][i].from = IF i = 1 THEN Absent ELSE rows'[k][i - 1].to
    <3> SUFFICES ASSUME NEW i \in 1 .. n + 1
                 PROVE  /\ Legal(rows'[k][i])
                        /\ rows'[k][i].from = IF i = 1 THEN Absent ELSE rows'[k][i - 1].to
      BY <2>7
    <3>1. CASE i \in 1 .. n
      <4>1. /\ Legal(rows[k][i])
            /\ rows[k][i].from = IF i = 1 THEN Absent ELSE rows[k][i - 1].to
        BY <2>1, <2>7, <3>1 DEF HInv, HistoryIsPath
      <4>2. i # 1 => i - 1 \in 1 .. n
        BY <2>7, <3>1
      <4> QED BY <2>7, <3>1, <4>1, <4>2
    <3>2. CASE i = n + 1
      <4>1. row.from = IF i = 1 THEN Absent ELSE rows[k][i - 1].to
        BY <2>2, <2>7, <2>8, <2>9, <3>2
      <4>2. i # 1 => i - 1 \in 1 .. n
        BY <2>7, <3>2
      <4> QED BY <2>2, <2>7, <3>2, <4>1, <4>2
    <3>3. n \in Nat
      BY <2>7
    <3>4. i \in 1 .. n \/ i = n + 1
      BY <3>3
    <3> QED BY <3>1, <3>2, <3>4
  <2>11. task'[k] = IF rows'[k] = <<>> THEN Absent ELSE rows'[k][Len(rows'[k])].to
    BY <2>6, <2>7
  <2>12. \A j \in Keys \ {k} : rows'[j] = rows[j] /\ task'[j] = task[j]
    BY <2>3, <2>4 DEF HInv, TypeOK
  <2> QED BY <2>10, <2>11, <2>12 DEF HInv, HistoryIsPath
<1> QED BY <1>1, <1>2, OnlyCommitWrites

LEMMA HistoryInvariant == Spec => []HInv
<1>1. Init => HInv
  BY TypeInit, HInit DEF HInv
<1>2. HInv /\ [Next]_vars => HInv'
  BY TypeStep, RequestStep, WriterStep, HistoryStep DEF HInv
<1> QED BY <1>1, <1>2, PTL DEF Spec

\* The event rows of every task are a path of the life cycle that ends in its
\* status, for any number of concurrent Go and Python requests, aborted
\* transactions, leaked locks and restarts.
THEOREM HistoryCorrect == Spec => []HistoryIsPath
<1>1. HInv => HistoryIsPath
  BY DEF HInv
<1> QED BY <1>1, HistoryInvariant, PTL

-----------------------------------------------------------------------------
(* The outbox, when every writer is a Go request.                          *)

\* Only a commit touches the outbox.
LEMMA OnlyCommitRecords ==
    [Next]_vars => UNCHANGED <<rows, outbox>> \/ \E r \in Requests : Commit(r)
BY DEF Next, Proceed, Submit, Begin, InsertTask, ReturnExisting, LockTask, NothingToDo,
       RejectTransition, Abort, Restart, InsertTaskEventFromStream, vars

LEMMA OutboxStep ==
    ASSUME PyRequests = {}, HInv, OutboxMatchesHistory, [Next]_vars
    PROVE  OutboxMatchesHistory'
<1>1. CASE UNCHANGED <<rows, outbox>>
  BY <1>1 DEF OutboxMatchesHistory
<1>2. ASSUME NEW r \in Requests, Commit(r) PROVE OutboxMatchesHistory'
  <2> DEFINE k == req[r].key
             n == Len(rows[k])
             row == [id |-> RowId(r, n + 1), type |-> EventType(req[r]),
                     from |-> req[r].from, to |-> req[r].to]
             env == [id |-> EventId(k, n + 1, "handler"), type |-> EventType(req[r])]
  <2>1. k \in Keys /\ r \in GoRequests
    BY <1>2, RequestFields DEF HInv, Commit, At, Requests
  <2>2. rows' = [rows EXCEPT ![k] = Append(@, row)]
    BY <1>2 DEF Commit
  <2>3. outbox' = [outbox EXCEPT ![k] = Append(@, env)]
    BY <1>2, <2>1 DEF Commit
  <2>4. row.type = env.type
    OBVIOUS
  <2>5. rows[k] \in Seq(Row) /\ outbox[k] \in Seq(Envelope)
    BY <2>1 DEF HInv, TypeOK
  <2>6. /\ Len(outbox[k]) = n
        /\ \A i \in 1 .. n : outbox[k][i].type = rows[k][i].type
    BY <2>1, <2>5, LenProperties DEF OutboxMatchesHistory
  <2> HIDE DEF row, env
  <2>7. rows'[k] = Append(rows[k], row) /\ outbox'[k] = Append(outbox[k], env)
    BY <2>1, <2>2, <2>3 DEF HInv, TypeOK
  <2>8. /\ Len(rows'[k]) = n + 1 /\ n \in Nat /\ DOMAIN rows'[k] = 1 .. n + 1
        /\ \A i \in 1 .. n : rows'[k][i] = rows[k][i]
        /\ rows'[k][n + 1] = row
    BY <2>5, <2>7, Appended
  <2>9. /\ Len(outbox'[k]) = n + 1
        /\ \A i \in 1 .. n : outbox'[k][i] = outbox[k][i]
        /\ outbox'[k][n + 1] = env
    <3>1. /\ Len(outbox'[k]) = Len(outbox[k]) + 1
          /\ \A i \in 1 .. Len(outbox[k]) : outbox'[k][i] = outbox[k][i]
          /\ outbox'[k][Len(outbox[k]) + 1] = env
      BY <2>5, <2>7, Appended
    <3> HIDE DEF n
    <3> QED BY <2>6, <3>1
  <2>10. \A i \in DOMAIN rows'[k] : outbox'[k][i].type = rows'[k][i].type
    <3> SUFFICES ASSUME NEW i \in 1 .. n + 1
                 PROVE  outbox'[k][i].type = rows'[k][i].type
      BY <2>8
    <3>1. i \in 1 .. n \/ i = n + 1
      BY <2>8
    <3> QED BY <2>4, <2>6, <2>8, <2>9, <3>1
  <2>11. \A j \in Keys \ {k} : rows'[j] = rows[j] /\ outbox'[j] = outbox[j]
    BY <2>2, <2>3 DEF HInv, TypeOK
  <2>12. Len(outbox'[k]) = Len(rows'[k])
    BY <2>8, <2>9
  <2> HIDE DEF k, n
  <2>13. ASSUME NEW j \in Keys
         PROVE  /\ Len(outbox'[j]) = Len(rows'[j])
                /\ \A i \in DOMAIN rows'[j] : outbox'[j][i].type = rows'[j][i].type
    BY <2>10, <2>11, <2>12 DEF OutboxMatchesHistory
  <2> QED BY <2>13 DEF OutboxMatchesHistory
<1> QED BY <1>1, <1>2, OnlyCommitRecords

\* As long as the Python service writes no tasks, the outbox holds one event per
\* event row, of the same type and in the same order.
THEOREM OutboxCorrect == ASSUME PyRequests = {} PROVE Spec => []OutboxMatchesHistory
<1>1. Init => OutboxMatchesHistory
  BY DEF Init, OutboxMatchesHistory
<1>2. HInv /\ OutboxMatchesHistory /\ [Next]_vars => OutboxMatchesHistory'
  BY OutboxStep
<1> QED BY <1>1, <1>2, HistoryInvariant, PTL DEF Spec

-----------------------------------------------------------------------------
(* The row locks, rejected transitions included.                           *)

LEMMA LocksStep ==
    ASSUME HInv, LocksAreOwned, [Next]_vars
    PROVE  LocksAreOwned'
<1> USE DEF At
<1> DEFINE Writes(r, k) == req[r].pc = "write" /\ req[r].key = k
           WillWrite(r, k) == req'[r].pc = "write" /\ req'[r].key = k
           Owned(k)     == \E r \in Requests : lock[k] = r /\ Writes(r, k)
<1>0. /\ "free" \notin Requests /\ "leaked" \notin Requests
      /\ lock \in [Keys -> Requests \cup {"free", "leaked"}] /\ TypeOK
      /\ \A r \in Requests : At(r, "write") => req[r].key \in Keys /\ lock[req[r].key] = r
      /\ \A k \in Keys : lock[k] \notin {"free", "leaked"} => Owned(k)
      /\ leaked = { k \in Keys : lock[k] = "leaked" }
      /\ \A k \in leaked : task[k] # Absent
  BY NoSentinel, RequestFields DEF HInv, TypeOK, LocksAreOwned
<1>1. /\ WriterInv'
      /\ TypeOK'
  BY WriterStep, TypeStep DEF HInv
<1>2. \A r \in Requests : (At(r, "write") => lock[req[r].key] = r)'
  BY <1>1 DEF WriterInv
\* What is left to show of each action.
<1> DEFINE Accounted ==
             /\ \A k \in Keys : lock'[k] \notin {"free", "leaked"} =>
                   \E r \in Requests : lock'[k] = r /\ WillWrite(r, k)
             /\ leaked' = { k \in Keys : lock'[k] = "leaked" }
             /\ \A k \in leaked' : task'[k] # Absent
<1>3. ASSUME NEW r \in Requests, lock' = lock, leaked' = leaked, task' = task,
             req[r].pc # "write", \A s \in Requests \ {r} : req'[s] = req[s]
      PROVE  Accounted
  <2>1. \A k \in Keys : lock'[k] \notin {"free", "leaked"} =>
           \E s \in Requests : lock'[k] = s /\ WillWrite(s, k)
    <3> SUFFICES ASSUME NEW k \in Keys, lock[k] \notin {"free", "leaked"}
                 PROVE  \E s \in Requests : lock[k] = s /\ WillWrite(s, k)
      BY <1>3
    <3>1. PICK s \in Requests : lock[k] = s /\ Writes(s, k)
      BY <1>0
    <3>2. s # r
      BY <1>3, <3>1
    <3>3. req'[s] = req[s]
      BY <1>3, <3>2
    <3> QED BY <3>1, <3>3
  <2> QED BY <1>0, <1>3, <2>1
<1>4. ASSUME NEW r \in Requests,
             \/ \E o \in Ops : Submit(r, o)
             \/ Begin(r) \/ ReturnExisting(r) \/ NothingToDo(r)
      PROVE  Accounted
  <2>1. /\ lock' = lock /\ leaked' = leaked /\ task' = task
        /\ req[r].pc # "write" /\ \A s \in Requests \ {r} : req'[s] = req[s]
    BY <1>0, <1>4 DEF Submit, Begin, ReturnExisting, NothingToDo, TypeOK
  <2> QED BY <1>3, <2>1
<1>5. ASSUME NEW r \in Requests, InsertTask(r) \/ LockTask(r) PROVE Accounted
  <2>1. req[r] \in Request /\ req[r].key \in Keys
    BY <1>0, <1>5, RequestFields DEF InsertTask, LockTask
  <2>2. /\ lock' = [lock EXCEPT ![req[r].key] = r] /\ req[r].pc # "write"
        /\ lock[req[r].key] = "free" /\ leaked' = leaked /\ task' = task
        /\ \A s \in Requests \ {r} : req'[s] = req[s]
    BY <1>0, <1>5 DEF InsertTask, LockTask, TypeOK
  <2>3. WillWrite(r, req[r].key)
    BY <1>0, <1>5, <2>1 DEF InsertTask, LockTask, TypeOK, Request
  <2>4. /\ lock'[req[r].key] = r
        /\ \A k \in Keys \ {req[r].key} : lock'[k] = lock[k]
    BY <1>0, <2>1, <2>2
  <2>5. ASSUME NEW k \in Keys, k # req[r].key, lock'[k] \notin {"free", "leaked"}
        PROVE  \E s \in Requests : lock'[k] = s /\ WillWrite(s, k)
    <3>1. PICK s \in Requests : lock[k] = s /\ Writes(s, k)
      BY <1>0, <2>4, <2>5
    <3>2. req'[s] = req[s]
      BY <2>2, <3>1
    <3> QED BY <2>4, <2>5, <3>1, <3>2
  <2>6. leaked' = { k \in Keys : lock'[k] = "leaked" }
    BY <1>0, <2>1, <2>2, <2>4
  <2>7. \A k \in leaked' : task'[k] # Absent
    BY <1>0, <2>2
  <2>8. \A k \in Keys : lock'[k] \notin {"free", "leaked"} =>
           \E s \in Requests : lock'[k] = s /\ WillWrite(s, k)
    BY <2>3, <2>4, <2>5
  <2> QED BY <2>6, <2>7, <2>8
<1>6. ASSUME NEW r \in Requests, RejectTransition(r) PROVE Accounted
  <2>1. req[r].key \in Keys
    BY <1>6, RequestFields DEF RejectTransition, HInv
  <2>2. req[r].pc # "write" /\ \A s \in Requests \ {r} : req'[s] = req[s]
    BY <1>0, <1>6 DEF RejectTransition, TypeOK
  <2>3. CASE r \notin GoRequests
    BY <1>3, <1>6, <2>2, <2>3 DEF RejectTransition
  <2>4. CASE r \in GoRequests
    <3>1. /\ lock' = [lock EXCEPT ![req[r].key] = "leaked"] /\ lock[req[r].key] = "free"
          /\ leaked' = leaked \cup {req[r].key} /\ task' = task /\ task[req[r].key] # Absent
      BY <1>6, <2>4 DEF RejectTransition
    <3>2. /\ lock'[req[r].key] = "leaked"
          /\ \A k \in Keys \ {req[r].key} : lock'[k] = lock[k]
      BY <1>0, <2>1, <3>1
    <3>3. ASSUME NEW k \in Keys, lock'[k] \notin {"free", "leaked"}
          PROVE  \E s \in Requests : lock'[k] = s /\ WillWrite(s, k)
      <4>1. PICK s \in Requests : lock[k] = s /\ Writes(s, k)
        BY <1>0, <3>2, <3>3
      <4>2. req'[s] = req[s]
        BY <2>2, <4>1
      <4> QED BY <3>2, <3>3, <4>1, <4>2
    <3>4. leaked' = { k \in Keys : lock'[k] = "leaked" }
      BY <1>0, <2>1, <3>1, <3>2
    <3> QED BY <1>0, <3>1, <3>3, <3>4
  <2> QED BY <2>3, <2>4
<1>7. ASSUME NEW r \in Requests, Commit(r) \/ Abort(r) PROVE Accounted
  <2>1. /\ \A k \in Keys : lock'[k] = IF lock[k] = r THEN "free" ELSE lock[k]
        /\ leaked' = leaked /\ \A s \in Requests \ {r} : req'[s] = req[s]
    <3>1. CASE Abort(r)
      BY <1>0, <3>1 DEF Abort, TypeOK
    <3>2. CASE Commit(r)
      <4>1. lock' = [lock EXCEPT ![req[r].key] = "free"] /\ req[r].pc = "write"
        BY <3>2 DEF Commit
      <4>2. \A k \in Keys : lock[k] = r => k = req[r].key
        BY <1>0
      <4> QED BY <1>0, <3>2, <4>1, <4>2 DEF Commit, TypeOK
    <3> QED BY <1>7, <3>1, <3>2
  <2>2. \A k \in leaked : task'[k] # Absent
    <3>1. CASE Abort(r)
      BY <1>0, <3>1 DEF Abort
    <3>2. CASE Commit(r)
      <4>1. /\ task' = [task EXCEPT ![req[r].key] = req[r].to]
            /\ req[r].key \in Keys /\ lock[req[r].key] = r
        BY <1>0, <3>2 DEF Commit
      <4>2. \A k \in leaked : k \in Keys /\ k # req[r].key
        BY <1>0, <4>1
      <4> QED BY <1>0, <4>1, <4>2 DEF TypeOK
    <3> QED BY <1>7, <3>1, <3>2
  <2>3. ASSUME NEW k \in Keys, lock'[k] \notin {"free", "leaked"}
        PROVE  \E s \in Requests : lock'[k] = s /\ WillWrite(s, k)
    <3>1. PICK s \in Requests : lock[k] = s /\ Writes(s, k)
      BY <1>0, <2>1, <2>3
    <3>2. s # r /\ lock'[k] = lock[k]
      BY <2>1, <2>3, <3>1
    <3> QED BY <2>1, <3>1, <3>2
  <2> QED BY <1>0, <2>1, <2>2, <2>3
<1>8. ASSUME Restart PROVE Accounted
  <2>1. /\ \A k \in Keys : lock'[k] = IF lock[k] \in GoRequests \cup {"leaked"}
                                      THEN "free" ELSE lock[k]
        /\ leaked' = {} /\ \A s \in Requests \ GoRequests : req'[s] = req[s]
    BY <1>8 DEF Restart
  <2>2. ASSUME NEW k \in Keys, lock'[k] \notin {"free", "leaked"}
        PROVE  \E s \in Requests : lock'[k] = s /\ WillWrite(s, k)
    <3>1. PICK s \in Requests : lock[k] = s /\ Writes(s, k)
      BY <1>0, <2>1, <2>2
    <3>2. s \notin GoRequests /\ lock'[k] = lock[k]
      BY <2>1, <2>2, <3>1
    <3> QED BY <2>1, <3>1, <3>2
  <2>3. \A k \in Keys : lock'[k] # "leaked"
    BY <2>1
  <2>4. leaked' = { k \in Keys : lock'[k] = "leaked" } /\ \A k \in leaked' : task'[k] # Absent
    BY <2>1, <2>3
  <2> QED BY <2>2, <2>4
<1>9. ASSUME NEW k \in Keys, NEW i \in 1 .. MaxChanges, InsertTaskEventFromStream(k, i)
      PROVE  Accounted
  BY <1>0, <1>9 DEF InsertTaskEventFromStream
<1>10. ASSUME UNCHANGED vars PROVE Accounted
  <2>1. lock' = lock /\ leaked' = leaked /\ task' = task /\ req' = req
    BY <1>10 DEF vars
  <2> QED BY <1>0, <2>1
<1>11. Accounted
  <2> HIDE DEF Accounted
  <2> QED BY <1>4, <1>5, <1>6, <1>7, <1>8, <1>9, <1>10 DEF Next, Proceed
<1> QED BY <1>2, <1>11 DEF LocksAreOwned

LEMMA LocksInvariant == Spec => [](HInv /\ LocksAreOwned)
<1>1. Init => HInv /\ LocksAreOwned
  BY TypeInit, HInit DEF HInv, Init, LocksAreOwned, At, Idle
<1>2. HInv /\ LocksAreOwned /\ [Next]_vars => (HInv /\ LocksAreOwned)'
  BY LocksStep, TypeStep, RequestStep, WriterStep, HistoryStep DEF HInv
<1> QED BY <1>1, <1>2, PTL DEF Spec

\* Locks and transactions account for each other, for any requests of Go and
\* Python, any statuses asked for, rejections, rollbacks and restarts included: a
\* lock is held by the request that writes the task or was left by a transition
\* Go rejected, and no other path through the code loses one.
THEOREM LocksCorrect == Spec => []LocksAreOwned
BY LocksInvariant, PTL

-----------------------------------------------------------------------------
(* Tasks that a rejected transition left locked.                           *)

\* The envelopes of a task name the task.
OwnEnvelopes == \A k \in Keys : \A i \in DOMAIN outbox[k] : outbox[k][i].id.key = k

LEMMA EnvelopesStep ==
    ASSUME HInv, OwnEnvelopes, [Next]_vars
    PROVE  OwnEnvelopes'
<1>1. CASE UNCHANGED <<rows, outbox>>
  BY <1>1 DEF OwnEnvelopes
<1>2. ASSUME NEW r \in Requests, Commit(r) PROVE OwnEnvelopes'
  <2> DEFINE k == req[r].key
             n == Len(rows[k]) + 1
             env == [id |-> EventId(k, n, "handler"), type |-> EventType(req[r])]
  <2>1. k \in Keys /\ outbox[k] \in Seq(Envelope)
    BY <1>2, RequestFields DEF HInv, TypeOK, Commit, At
  <2>2. outbox' = outbox \/ outbox' = [outbox EXCEPT ![k] = Append(@, env)]
    BY <1>2 DEF Commit
  <2>3. env.id.key = k
    BY DEF EventId
  <2> HIDE DEF env
  <2>4. CASE outbox' = [outbox EXCEPT ![k] = Append(@, env)]
    <3>1. outbox'[k] = Append(outbox[k], env)
      BY <2>1, <2>4 DEF HInv, TypeOK
    <3>2. /\ DOMAIN outbox'[k] = 1 .. Len(outbox[k]) + 1
          /\ DOMAIN outbox[k] = 1 .. Len(outbox[k]) /\ Len(outbox[k]) \in Nat
          /\ \A i \in 1 .. Len(outbox[k]) : outbox'[k][i] = outbox[k][i]
          /\ outbox'[k][Len(outbox[k]) + 1] = env
      BY <2>1, <3>1, Appended
    <3>3. \A i \in DOMAIN outbox'[k] : outbox'[k][i].id.key = k
      <4> SUFFICES ASSUME NEW i \in 1 .. Len(outbox[k]) + 1
                   PROVE  outbox'[k][i].id.key = k
        BY <3>2
      <4>1. i \in 1 .. Len(outbox[k]) \/ i = Len(outbox[k]) + 1
        BY <3>2
      <4> QED BY <2>1, <2>3, <3>2, <4>1 DEF OwnEnvelopes
    <3>4. \A j \in Keys \ {k} : outbox'[j] = outbox[j]
      BY <2>4 DEF HInv, TypeOK
    <3> HIDE DEF k
    <3> QED BY <3>3, <3>4 DEF OwnEnvelopes
  <2> QED BY <2>2, <2>4 DEF OwnEnvelopes
<1> QED BY <1>1, <1>2, OnlyCommitRecords

\* A commit needs the lock, and so does an insert from the stream.
LEMMA FrozenStep ==
    ASSUME HInv, LocksAreOwned, OwnEnvelopes, [Next]_vars, NEW k \in leaked
    PROVE  /\ task'[k] = task[k] /\ rows'[k] = rows[k] /\ outbox'[k] = outbox[k]
           /\ StreamedOf(k)' = StreamedOf(k)
<1>1. k \in Keys /\ lock[k] = "leaked"
  BY DEF LocksAreOwned
<1>2. ASSUME NEW r \in Requests, Commit(r)
      PROVE  /\ task'[k] = task[k] /\ rows'[k] = rows[k] /\ outbox'[k] = outbox[k]
             /\ streamed' = streamed
  <2>1. req[r].key \in Keys /\ lock[req[r].key] = r
    BY <1>2, RequestFields DEF HInv, WriterInv, Commit, At
  <2>2. k # req[r].key
    BY <1>1, <2>1, NoSentinel
  <2> QED BY <1>1, <1>2, <2>1, <2>2 DEF Commit, HInv, TypeOK
<1>3. ASSUME NEW j \in Keys, NEW i \in 1 .. MaxChanges, InsertTaskEventFromStream(j, i)
      PROVE  StreamedOf(k)' = StreamedOf(k)
  <2>1. j # k /\ streamed' = streamed \cup {outbox[j][i].id}
    BY <1>1, <1>3 DEF InsertTaskEventFromStream
  <2>2. outbox[j][i].id.key = j
    BY <1>3 DEF InsertTaskEventFromStream, OwnEnvelopes
  <2> QED BY <2>1, <2>2 DEF StreamedOf
<1>4. UNCHANGED <<task, rows, outbox>> \/ \E r \in Requests : Commit(r)
  BY DEF Next, Proceed, Submit, Begin, InsertTask, ReturnExisting, LockTask, NothingToDo,
         RejectTransition, Abort, Restart, InsertTaskEventFromStream, vars
<1>5. \/ streamed' = streamed
      \/ \E j \in Keys, i \in 1 .. MaxChanges : InsertTaskEventFromStream(j, i)
  BY DEF Next, Proceed, Submit, Begin, InsertTask, ReturnExisting, LockTask, NothingToDo,
         RejectTransition, Commit, Abort, Restart, vars
<1> QED BY <1>2, <1>3, <1>4, <1>5 DEF StreamedOf

\* A task that a rejected Go transition left locked keeps its status, history,
\* outbox and streamed events until the API restarts, for any requests.
THEOREM FrozenCorrect == Spec => AbandonedTasksFreeze
<1> DEFINE FInv == HInv /\ LocksAreOwned /\ OwnEnvelopes
           Frozen == \A k \in leaked \cap leaked' :
                       /\ task'[k] = task[k] /\ rows'[k] = rows[k] /\ outbox'[k] = outbox[k]
                       /\ StreamedOf(k)' = StreamedOf(k)
<1>1. Init => OwnEnvelopes
  BY DEF Init, OwnEnvelopes
<1>2. HInv /\ OwnEnvelopes /\ [Next]_vars => OwnEnvelopes'
  BY EnvelopesStep
<1>3. FInv /\ [Next]_vars => [Frozen]_vars
  BY FrozenStep
<1> QED BY <1>1, <1>2, <1>3, LocksInvariant, PTL DEF Spec, AbandonedTasksFreeze
=============================================================================
