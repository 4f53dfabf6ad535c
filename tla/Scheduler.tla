----------------------------- MODULE Scheduler -----------------------------
(***************************************************************************)
(* The two decisions of the core service.  global-assign gives each task   *)
(* of a request a warehouse: the one it names, or the least loaded of its  *)
(* candidates so far.  local-schedule sorts the tasks of one warehouse and *)
(* deals them out to its robots in turn.  A decision is published to Kafka *)
(* and answered whether or not that succeeds.                              *)
(*                                                                         *)
(* One request from its arrival to its answer: the service keeps nothing   *)
(* between two.                                                            *)
(***************************************************************************)
EXTENDS Integers, FiniteSetsExt, SequencesExt

CONSTANTS
    Warehouses,      \* warehouse ids
    Blank,           \* an id of spaces only, or none
    CandidateLists,  \* candidate_warehouses of a task
    Robots,          \* robot ids
    RobotLists,      \* robots of a local request
    MaxTasks         \* bound: tasks of a request

\* A list may name a blank id, or one id again.
SchedulerAssumption ==
    /\ CandidateLists \subseteq Seq(Warehouses \cup {Blank})
    /\ RobotLists \subseteq Seq(Robots \cup {Blank})
    /\ MaxTasks \in Nat

VARIABLES
    request,   \* [kind, complete, tasks, robots]
    assigned,  \* global: the warehouses given so far, in the tasks' order
    loads,     \* global: tasks per warehouse, as the code counts them
    order,     \* local: the tasks sorted so far, by their place in the request
    schedule,  \* local: the answer, [task, robot] per place
    result     \* "working", "decided", "refused" or "answered"

vars == <<request, assigned, loads, order, schedule, result>>

\* named: it has a task_id.  Candidates are not read when a warehouse is named.
GlobalTask ==
    [named : {TRUE}, pin : Warehouses, candidates : {<<>>}] \cup
    [named : {TRUE}, pin : {Blank}, candidates : CandidateLists] \cup
    [named : {FALSE}, pin : {Blank}, candidates : {<<>>}]

\* created 0: no created_at, or Go's zero time.
LocalTask ==
    [named : {TRUE}, priority : 0 .. 1, created : 0 .. 2] \cup
    [named : {FALSE}, priority : {0}, created : {0}]

\* complete: tenant_id, and for a local request warehouse_id, are given.
RequestSet ==
    [kind : {"global"}, complete : BOOLEAN, tasks : SeqOf(GlobalTask, MaxTasks), robots : {<<>>}]
    \cup
    [kind : {"local"}, complete : BOOLEAN, tasks : SeqOf(LocalTask, MaxTasks), robots : RobotLists]

Start ==
    /\ assigned = <<>>
    /\ loads    = [w \in Warehouses \cup {Blank} |-> 0]
    /\ order    = <<>>
    /\ schedule = <<>>
    /\ result   = "working"

Init == request \in RequestSet /\ Start

-----------------------------------------------------------------------------
Tasks         == request.tasks
Working(kind) == request.kind = kind /\ result = "working"
Acceptable    == request.complete /\ Tasks # <<>>

Finish(outcome) ==
    /\ result' = outcome
    /\ UNCHANGED <<request, assigned, loads, order, schedule>>

\* 400: tenant_id, warehouse_id or tasks missing.
Refuse ==
    /\ result = "working"
    /\ ~Acceptable
    /\ Finish("refused")

(* global-assign: one turn of the loop per step. *)

Current == Tasks[Len(assigned) + 1]

Placeable(task) == task.named /\ (task.pin # Blank \/ task.candidates # <<>>)

\* The first of the least loaded candidates that are not blank; blank when all are.
ChooseWarehouse(candidates) ==
    LET given == {n \in DOMAIN candidates : candidates[n] # Blank}
        least == {n \in given : \A k \in given : loads[candidates[n]] <= loads[candidates[k]]}
    IN  IF given = {} THEN Blank ELSE candidates[Min(least)]

MoreToAssign == Working("global") /\ Acceptable /\ Len(assigned) < Len(Tasks)

\* Mutant of AssignNext: a warehouse a task names does not count as load.
AssignNextUncounted ==
    /\ MoreToAssign /\ Placeable(Current)
    /\ LET w == IF Current.pin # Blank THEN Current.pin ELSE ChooseWarehouse(Current.candidates)
       IN  /\ assigned' = Append(assigned, w)
           /\ loads'    = IF Current.pin # Blank THEN loads ELSE [loads EXCEPT ![w] = @ + 1]
    /\ UNCHANGED <<request, order, schedule, result>>

AssignNext ==
    /\ MoreToAssign /\ Placeable(Current)
    /\ LET w == IF Current.pin # Blank THEN Current.pin ELSE ChooseWarehouse(Current.candidates)
       IN  /\ assigned' = Append(assigned, w)
           /\ loads'    = [loads EXCEPT ![w] = @ + 1]
    /\ UNCHANGED <<request, order, schedule, result>>

\* 400 in the middle: what was assigned before is thrown away.
RefuseNext ==
    /\ MoreToAssign /\ ~Placeable(Current)
    /\ Finish("refused")

Assigned ==
    /\ Working("global") /\ Acceptable /\ Len(assigned) = Len(Tasks)
    /\ Finish("decided")

(* local-schedule *)

AllNamed == \A n \in DOMAIN Tasks : Tasks[n].named

RefuseUnnamed ==
    /\ Working("local") /\ Acceptable /\ ~AllNamed
    /\ Finish("refused")

\* Mutant of Less: a task without created_at compares with none.
LessIfKnown(a, b) ==
    \/ Tasks[a].priority > Tasks[b].priority
    \/ /\ Tasks[a].priority = Tasks[b].priority
       /\ 0 \notin {Tasks[a].created, Tasks[b].created}
       /\ Tasks[a].created < Tasks[b].created

\* The comparison given to the sort.
Less(a, b) ==
    \/ Tasks[a].priority > Tasks[b].priority
    \/ Tasks[a].priority = Tasks[b].priority /\ Tasks[a].created < Tasks[b].created

\* sort.SliceStable: up to 20 elements, an insertion sort from the right.
InsertNext ==
    LET n     == Len(order) + 1
        stays == {p \in DOMAIN order : ~Less(n, order[p])}
    IN  /\ Working("local") /\ Acceptable /\ AllNamed /\ n <= Len(Tasks)
        /\ order' = InsertAt(order, 1 + Max(stays \cup {0}), n)
        /\ UNCHANGED <<request, assigned, loads, schedule, result>>

\* robotIDs: the robots with an id; each is at the place, from 0, that as many
\* come before it.
Given    == {n \in DOMAIN request.robots : request.robots[n] # Blank}
Place(n) == Cardinality({k \in Given : k < n})

\* The robot of the schedule's place p: in turn, and blank when there is none.
Turn(p) ==
    IF Given = {} THEN Blank
    ELSE request.robots[CHOOSE n \in Given : Place(n) = (p - 1) % Cardinality(Given)]

DealOut ==
    /\ Working("local") /\ Acceptable /\ AllNamed /\ Len(order) = Len(Tasks)
    /\ schedule' = [p \in DOMAIN order |-> [task |-> order[p], robot |-> Turn(p)]]
    /\ result'   = "decided"
    /\ UNCHANGED <<request, assigned, loads, order>>

\* 200, whether publishDecision has worked, failed or has no producer.
Answer ==
    /\ result = "decided"
    /\ Finish("answered")

Next ==
    \/ Refuse
    \/ AssignNext \/ RefuseNext \/ Assigned
    \/ RefuseUnnamed \/ InsertNext \/ DealOut
    \/ Answer

Spec == Init /\ [][Next]_vars

-----------------------------------------------------------------------------
(* Properties                                                              *)

TypeOK ==
    /\ request  \in RequestSet
    /\ assigned \in SeqOf(Warehouses \cup {Blank}, MaxTasks)
    /\ loads    \in [Warehouses \cup {Blank} -> 0 .. MaxTasks]
    /\ order    \in SeqOf(1 .. MaxTasks, MaxTasks)
    /\ result   \in {"working", "decided", "refused", "answered"}

PlacedIn(w) == {n \in DOMAIN assigned : assigned[n] = w}

\* The greedy choice pays: however chosen tasks mix with tasks that name their
\* warehouse, moving the last chosen task of a warehouse to another of its
\* candidates would never make the fuller of the two less full.
NoMovePays ==
    \A w \in Warehouses : PlacedIn(w) # {} =>
        LET last == Tasks[Max(PlacedIn(w))]
        IN  last.pin = Blank =>
                \A c \in ToSet(last.candidates) \ {Blank} :
                    Cardinality(PlacedIn(w)) - 1 <= Cardinality(PlacedIn(c))

\* a has to come before b: more urgent, or older, or first in the request.
Earlier(a, b) ==
    LET s == Tasks[a]  t == Tasks[b]
    IN  \/ s.priority > t.priority
        \/ s.priority = t.priority /\ s.created < t.created
        \/ s.priority = t.priority /\ s.created = t.created /\ a < b

Share(r) == Cardinality({p \in DOMAIN schedule : schedule[p].robot = r})

\* The schedule holds every task of the request once and in the right order,
\* whatever created_at are missing; and no robot gets two tasks more than
\* another with an id, when the request names each once.
ScheduleIsFair ==
    schedule # <<>> =>
        /\ Len(schedule) = Len(Tasks)
        /\ \A p, q \in DOMAIN schedule : p < q => Earlier(schedule[p].task, schedule[q].task)
        /\ LET robots == ToSet(request.robots) \ {Blank}
           IN  Cardinality(ToSet(request.robots)) = Len(request.robots) =>
                   \A r, s \in robots : Share(r) <= Share(s) + 1
=============================================================================
