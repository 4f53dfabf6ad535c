---------------------------- MODULE EventDelivery ----------------------------
(***************************************************************************)
(* What the outbox promises for an event a business transaction recorded,  *)
(* without rows, scans, tasks or handlers: it is published to the topic,   *)
(* possibly several times, and given a verdict.  "delivered" is only said  *)
(* of an event that is in the topic, "dead" only after MaxAttempts real    *)
(* failures.  A verdict may be revised: the promise is at-least-once       *)
(* publication, not a final bookkeeping state.                             *)
(***************************************************************************)
EXTENDS Naturals

CONSTANTS Events, MaxAttempts

VARIABLES
    recorded,  \* events whose transaction committed
    topic,     \* events that were published
    failures,  \* failed attempts per event, counted up to MaxAttempts
    verdict    \* what the bookkeeping says of the event

vars == <<recorded, topic, failures, verdict>>

Init ==
    /\ recorded = {}
    /\ topic    = {}
    /\ failures = [e \in Events |-> 0]
    /\ verdict  = [e \in Events |-> "open"]

Record(e) ==
    /\ e \notin recorded
    /\ recorded' = recorded \cup {e}
    /\ UNCHANGED <<topic, failures, verdict>>

\* Only what was recorded is ever published.
Publish(e) ==
    /\ e \in recorded
    /\ topic' = topic \cup {e}
    /\ UNCHANGED <<recorded, failures, verdict>>

\* An attempt fails, or is reported as failed although it was published.
Fail(e) ==
    /\ e \in recorded
    /\ failures' = [failures EXCEPT ![e] = IF @ < MaxAttempts THEN @ + 1 ELSE @]
    /\ topic' \in {topic, topic \cup {e}}
    /\ UNCHANGED <<recorded, verdict>>

Judge(e, v) ==
    /\ e \in recorded
    /\ v = "delivered" => e \in topic
    /\ v = "dead" => failures[e] = MaxAttempts
    /\ verdict' = [verdict EXCEPT ![e] = v]
    /\ UNCHANGED <<recorded, topic, failures>>

Next ==
    \E e \in Events :
        \/ Record(e)
        \/ Publish(e)
        \/ Fail(e)
        \/ \E v \in {"open", "delivered", "dead"} : Judge(e, v)

Spec == Init /\ [][Next]_vars
=============================================================================
