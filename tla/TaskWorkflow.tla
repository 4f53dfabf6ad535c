---------------------------- MODULE TaskWorkflow ----------------------------
(***************************************************************************)
(* The task life cycle of go/shared/workflow: the statuses, the table of   *)
(* legal transitions with the event type each one emits, and the two       *)
(* lookups the repositories call.  The functions normalise the case and    *)
(* the surrounding blanks of a status; the statuses that reach them from   *)
(* the handlers are normalised already, so a status is one of the named    *)
(* values, or any other string a client may send (Unknown).                *)
(***************************************************************************)

TaskStatuses == {"pending", "running", "done", "failed", "canceled"}

\* A status that normalises to none of the five: the table has no entry.
Unknown == "unknown"

\* taskTransitions: <<from, to>> |-> event type
TaskTransitions ==
    [ e \in { <<"pending", "running">>, <<"pending", "canceled">>,
              <<"running", "done">>, <<"running", "failed">>,
              <<"running", "canceled">> } |->
        CASE e[2] = "running"  -> "task_started"
          [] e[2] = "done"     -> "task_completed"
          [] e[2] = "failed"   -> "task_failed"
          [] e[2] = "canceled" -> "task_canceled" ]

CanTransition(from, to) ==
    \/ from = to
    \/ <<from, to>> \in DOMAIN TaskTransitions

\* The empty string for a transition to the same status and for one that
\* the table does not have.
EventTypeForTransition(from, to) ==
    IF from # to /\ <<from, to>> \in DOMAIN TaskTransitions
    THEN TaskTransitions[<<from, to>>]
    ELSE ""
=============================================================================
