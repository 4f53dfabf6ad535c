---------------------------- MODULE GroupConsumer ----------------------------
(***************************************************************************)
(* The read loop of the task events consumer, of the congestion worker and *)
(* of the cluster bridge: fetch a message, handle it, commit its offset.   *)
(* When the handler returns an error the loop goes on with the next        *)
(* message and does not commit; a later commit on the partition then       *)
(* covers the failed message too.                                          *)
(*                                                                         *)
(* Kafka is external: a partition is a log, a group has one committed      *)
(* offset per partition, and the reader hands out the messages of the      *)
(* partitions it is assigned in order, from the committed offset after     *)
(* each rebalance.  Commits name a partition and an offset; one made for a *)
(* message fetched before a rebalance is taken as well.                    *)
(***************************************************************************)
EXTENDS Naturals, Sequences

CONSTANTS
    Partitions,
    Consumers,   \* processes (or, in the bridge, goroutines) of one group
    Events,      \* ids of the events that are published
    MaxLog,      \* BOUND on the messages of a partition
    MaxMoves,    \* BOUND on crashes and voluntary rebalances
    Faults       \* which of "handler", "commit", "crash", "rebalance" may happen

ASSUME GroupAssumption ==
    /\ "nobody" \notin Consumers
    /\ MaxLog \in Nat
    /\ MaxMoves \in Nat
    /\ Faults \subseteq {"handler", "commit", "crash", "rebalance"}

VARIABLES
    log,        \* the messages of each partition
    committed,  \* offset the group starts a partition from
    owner,      \* the consumer a partition is assigned to
    next,       \* offset the owner's reader hands out next
    held,       \* the message each loop works on
    sink,       \* events the handler has stored or published
    failed,     \* history: messages whose handler returned an error
    moves       \* crashes and voluntary rebalances so far

vars == <<log, committed, owner, next, held, sink, failed, moves>>

Nobody  == "nobody"
Nothing == [pc |-> "fetch"]
Message == [pc : {"handle", "commit"}, part : Partitions, off : 1 .. MaxLog]

TypeOK ==
    /\ log       \in [Partitions -> Seq(Events)]
    /\ \A p \in Partitions : Len(log[p]) <= MaxLog
    /\ committed \in [Partitions -> 1 .. MaxLog + 1]
    /\ owner     \in [Partitions -> Consumers \cup {Nobody}]
    /\ next      \in [Partitions -> 1 .. MaxLog + 1]
    /\ held      \in [Consumers -> Message \cup {Nothing}]
    /\ sink      \subseteq Events
    /\ failed    \subseteq Partitions \X (1 .. MaxLog)
    /\ moves     \in 0 .. MaxMoves

Init ==
    /\ log       = [p \in Partitions |-> <<>>]
    /\ committed = [p \in Partitions |-> 1]
    /\ owner     = [p \in Partitions |-> Nobody]
    /\ next      = [p \in Partitions |-> 1]
    /\ held      = [c \in Consumers |-> Nothing]
    /\ sink      = {}
    /\ failed    = {}
    /\ moves     = 0

-----------------------------------------------------------------------------
\* LeastBytes picks a partition whatever the key; a publish may be repeated.
Produce(p, e) ==
    /\ Len(log[p]) < MaxLog
    /\ log' = [log EXCEPT ![p] = Append(@, e)]
    /\ UNCHANGED <<committed, owner, next, held, sink, failed, moves>>

\* Mutant of FetchMessage: ReadMessage, which commits what it returns.
ReadMessage(c, p) ==
    /\ held[c] = Nothing
    /\ owner[p] = c
    /\ next[p] <= Len(log[p])
    /\ held' = [held EXCEPT ![c] = [pc |-> "handle", part |-> p, off |-> next[p]]]
    /\ next' = [next EXCEPT ![p] = @ + 1]
    /\ committed' = [committed EXCEPT ![p] = next[p] + 1]
    /\ UNCHANGED <<log, owner, sink, failed, moves>>

FetchMessage(c, p) ==
    /\ held[c] = Nothing
    /\ owner[p] = c
    /\ next[p] <= Len(log[p])
    /\ held' = [held EXCEPT ![c] = [pc |-> "handle", part |-> p, off |-> next[p]]]
    /\ next' = [next EXCEPT ![p] = @ + 1]
    /\ UNCHANGED <<log, committed, owner, sink, failed, moves>>

HeldEvent(c) == log[held[c].part][held[c].off]

Handle(c) ==
    /\ held[c].pc = "handle"
    /\ sink' = sink \cup {HeldEvent(c)}
    /\ held' = [held EXCEPT ![c].pc = "commit"]
    /\ UNCHANGED <<log, committed, owner, next, failed, moves>>

\* The insert or the publish may have taken effect all the same.
HandleFails(c) ==
    /\ "handler" \in Faults
    /\ held[c].pc = "handle"
    /\ sink' \in {sink, sink \cup {HeldEvent(c)}}
    /\ failed' = failed \cup {<<held[c].part, held[c].off>>}
    /\ held' = [held EXCEPT ![c] = Nothing]
    /\ UNCHANGED <<log, committed, owner, next, moves>>

\* Mutant of CommitMessages: the offset is incremented twice.
CommitOneTooFar(c) ==
    /\ held[c].pc = "commit"
    /\ committed' = [committed EXCEPT ![held[c].part] = held[c].off + 2]
    /\ held' = [held EXCEPT ![c] = Nothing]
    /\ UNCHANGED <<log, owner, next, sink, failed, moves>>

CommitMessages(c) ==
    /\ held[c].pc = "commit"
    /\ committed' = [committed EXCEPT ![held[c].part] = held[c].off + 1]
    /\ held' = [held EXCEPT ![c] = Nothing]
    /\ UNCHANGED <<log, owner, next, sink, failed, moves>>

\* The error is logged and the loop goes on.
CommitFails(c) ==
    /\ "commit" \in Faults
    /\ held[c].pc = "commit"
    /\ held' = [held EXCEPT ![c] = Nothing]
    /\ UNCHANGED <<log, committed, owner, next, sink, failed, moves>>

-----------------------------------------------------------------------------
\* The process dies; its partitions wait for the next rebalance.
Crash(c) ==
    /\ "crash" \in Faults
    /\ moves < MaxMoves
    /\ held[c] # Nothing \/ \E p \in Partitions : owner[p] = c
    /\ owner' = [p \in Partitions |-> IF owner[p] = c THEN Nobody ELSE owner[p]]
    /\ held'  = [held EXCEPT ![c] = Nothing]
    /\ moves' = moves + 1
    /\ UNCHANGED <<log, committed, next, sink, failed>>

\* Mutant of Rebalance: readers start from the end of the partition.
RebalanceToEnd ==
    /\ owner' \in [Partitions -> Consumers]
    /\ next' = [p \in Partitions |-> Len(log[p]) + 1]
    /\ UNCHANGED <<log, committed, held, sink, failed>>

\* A new generation: every reader starts again from the committed offsets.
\* The loops keep the message they hold.
Rebalance ==
    /\ owner' \in [Partitions -> Consumers]
    /\ next' = committed
    /\ UNCHANGED <<log, committed, held, sink, failed>>

Assign ==
    /\ \E p \in Partitions : owner[p] = Nobody
    /\ Rebalance
    /\ UNCHANGED moves

Reassign ==
    /\ "rebalance" \in Faults
    /\ moves < MaxMoves
    /\ \A p \in Partitions : owner[p] # Nobody
    /\ Rebalance
    /\ moves' = moves + 1

-----------------------------------------------------------------------------
\* What a loop that has a message does next, whatever the outcome.
Continue(c) == Handle(c) \/ HandleFails(c) \/ CommitMessages(c) \/ CommitFails(c)

Next ==
    \/ \E p \in Partitions, e \in Events : Produce(p, e)
    \/ \E c \in Consumers :
        \/ \E p \in Partitions : FetchMessage(c, p)
        \/ Continue(c)
        \/ Crash(c)
    \/ Assign
    \/ Reassign

Spec == Init /\ [][Next]_vars

\* The loops run on, the broker assigns partitions, and a reader hands out the
\* messages of each of its partitions (strong: the loop is busy now and then).
Fairness ==
    /\ \A c \in Consumers : WF_vars(Continue(c))
    /\ \A p \in Partitions : SF_vars(\E c \in Consumers : FetchMessage(c, p))
    /\ WF_vars(Assign)

FairSpec == Spec /\ Fairness

-----------------------------------------------------------------------------
(* Properties                                                              *)

InSink(p, i)    == i \in DOMAIN log[p] /\ log[p][i] \in sink
Attempted(p, i) == InSink(p, i) \/ <<p, i>> \in failed

\* The group passes over a message only if its event is stored or its handler
\* really returned an error: neither a crash between handling and commit, nor a
\* rebalance, nor a commit that arrives after one, loses a message.
SkippedOnlyByFailure ==
    \A p \in Partitions : \A i \in 1 .. committed[p] - 1 :
        Attempted(p, i)

\* Every message is handled in the end, with success or with an error.
EventuallyAttempted ==
    \A p \in Partitions : \A i \in 1 .. MaxLog :
        i \in DOMAIN log[p] ~> Attempted(p, i)

\* Every message reaches the table or the other cluster in the end.
EventuallyInSink ==
    \A p \in Partitions : \A i \in 1 .. MaxLog :
        i \in DOMAIN log[p] ~> InSink(p, i)
=============================================================================
