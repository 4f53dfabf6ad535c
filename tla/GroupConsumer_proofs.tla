------------------------- MODULE GroupConsumer_proofs -------------------------
(***************************************************************************)
(* What a consumer group of this code base guarantees for any number of    *)
(* partitions and consumers and any set of faults.                         *)
(*                                                                         *)
(* SkippedOnlyByFailure speaks of the committed offset, which is a later   *)
(* copy of an offset a loop holds, which is a copy of the reader's.  The   *)
(* inductive invariant says the same of all three.                         *)
(***************************************************************************)
EXTENDS GroupConsumer, TLAPS, SequenceTheorems

\* A loop only holds messages that exist.
HeldInLog ==
    \A c \in Consumers : held[c] # Nothing => held[c].off \in DOMAIN log[held[c].part]

TInv == TypeOK /\ HeldInLog

\* Whatever the reader of a partition's owner has handed out was attempted,
\* but for the one message the owner may be at.
ReaderInv ==
    \A p \in Partitions : owner[p] # Nobody =>
        \A i \in 1 .. next[p] - 1 :
            Attempted(p, i) \/ held[owner[p]] = [pc |-> "handle", part |-> p, off |-> i]

\* A loop that holds a message has nothing unattempted behind it, even if its
\* partition has moved since.
LoopInv ==
    \A c \in Consumers : held[c] # Nothing =>
        /\ \A i \in 1 .. held[c].off - 1 : Attempted(held[c].part, i)
        /\ held[c].pc = "commit" => Attempted(held[c].part, held[c].off)

CInv == TInv /\ SkippedOnlyByFailure /\ ReaderInv /\ LoopInv

-----------------------------------------------------------------------------
(* Type correctness.                                                       *)

LEMMA HeldType ==
    ASSUME TypeOK, NEW c \in Consumers, held[c].pc # "fetch"
    PROVE  /\ held[c] \in Message /\ held[c] # Nothing
           /\ held[c].part \in Partitions /\ held[c].off \in 1 .. MaxLog
           /\ held[c].pc \in {"handle", "commit"}
BY DEF TypeOK, Message, Nothing

LEMMA HoldingType ==
    ASSUME TypeOK, NEW c \in Consumers, held[c] # Nothing
    PROVE  held[c].pc # "fetch"
BY DEF TypeOK, Message, Nothing

\* The reader has one more message when the log grows, and the old ones stay.
LEMMA LogGrows ==
    ASSUME TypeOK, [Next]_vars, NEW p \in Partitions
    PROVE  /\ DOMAIN log[p] \subseteq DOMAIN log'[p]
           /\ \A i \in DOMAIN log[p] : log'[p][i] = log[p][i]
           /\ log'[p] \in Seq(Events) /\ Len(log'[p]) <= MaxLog
<1>1. CASE log' = log
  BY <1>1 DEF TypeOK
<1>2. ASSUME NEW q \in Partitions, NEW e \in Events, Produce(q, e)
      PROVE  /\ DOMAIN log[p] \subseteq DOMAIN log'[p]
             /\ \A i \in DOMAIN log[p] : log'[p][i] = log[p][i]
             /\ log'[p] \in Seq(Events) /\ Len(log'[p]) <= MaxLog
  <2>1. log' = [log EXCEPT ![q] = Append(log[q], e)] /\ Len(log[q]) < MaxLog
    BY <1>2 DEF Produce
  <2>2. CASE p # q
    BY <2>1, <2>2 DEF TypeOK
  <2>3. CASE p = q
    <3>1. log[p] \in Seq(Events) /\ log'[p] = Append(log[p], e)
      BY <2>1, <2>3 DEF TypeOK
    <3>2. /\ Append(log[p], e) \in Seq(Events)
          /\ Len(Append(log[p], e)) = Len(log[p]) + 1
          /\ \A i \in 1 .. Len(log[p]) : Append(log[p], e)[i] = log[p][i]
          /\ Len(log[p]) \in Nat /\ DOMAIN log[p] = 1 .. Len(log[p])
          /\ DOMAIN Append(log[p], e) = 1 .. Len(log[p]) + 1
      BY <3>1, AppendProperties, LenProperties
    <3> QED BY <2>1, <2>3, <3>1, <3>2, GroupAssumption
  <2> QED BY <2>2, <2>3
<1> QED BY <1>1, <1>2
        DEF Next, vars, FetchMessage, Continue, Handle, HandleFails, CommitMessages,
            CommitFails, Crash, Assign, Reassign, Rebalance

LEMMA TInit == Init => TInv
<1> SUFFICES ASSUME Init PROVE TInv
  OBVIOUS
<1>1. \A p \in Partitions : log[p] = <<>> /\ Len(log[p]) = 0
  BY DEF Init
<1>2. log \in [Partitions -> Seq(Events)]
  BY DEF Init
<1>3. TypeOK
  BY <1>1, <1>2, GroupAssumption DEF Init, TypeOK
<1>4. HeldInLog
  BY DEF Init, HeldInLog
<1> QED BY <1>3, <1>4 DEF TInv

LEMMA TStep == TInv /\ [Next]_vars => TInv'
<1> SUFFICES ASSUME TInv, [Next]_vars PROVE TInv'
  OBVIOUS
<1> USE GroupAssumption DEF TInv
<1> DEFINE Rest == /\ committed' \in [Partitions -> 1 .. MaxLog + 1]
                   /\ owner'     \in [Partitions -> Consumers \cup {Nobody}]
                   /\ next'      \in [Partitions -> 1 .. MaxLog + 1]
                   /\ sink'      \subseteq Events
                   /\ failed'    \subseteq Partitions \X (1 .. MaxLog)
                   /\ moves'     \in 0 .. MaxMoves
           Loops == \A c \in Consumers :
                       \/ held'[c] = Nothing
                       \/ /\ held'[c] \in Message
                          /\ held'[c].off \in DOMAIN log[held'[c].part]
           Goal == Rest /\ held' = [c \in Consumers |-> held'[c]] /\ Loops
<1>1. log' \in [Partitions -> Seq(Events)]
  <2>1. log' = [p \in Partitions |-> log'[p]]
    BY DEF TypeOK, Next, vars, Produce, FetchMessage, Continue, Handle, HandleFails,
           CommitMessages, CommitFails, Crash, Assign, Reassign, Rebalance
  <2> QED BY <2>1, LogGrows
<1>2. \A c \in Consumers : held[c] # Nothing =>
          held[c] \in Message /\ held[c].off \in DOMAIN log[held[c].part]
  BY DEF TypeOK, HeldInLog
<1>3. ASSUME UNCHANGED <<committed, owner, next, held, sink, failed, moves>> PROVE Goal
  BY <1>2, <1>3 DEF TypeOK
<1>4. ASSUME NEW c \in Consumers, NEW p \in Partitions, FetchMessage(c, p) PROVE Goal
  <2>1. /\ Len(log[p]) \in Nat /\ Len(log[p]) <= MaxLog
        /\ DOMAIN log[p] = 1 .. Len(log[p])
    BY LenProperties DEF TypeOK
  <2>2. next[p] \in 1 .. MaxLog /\ next[p] \in DOMAIN log[p]
    BY <1>4, <2>1 DEF FetchMessage, TypeOK
  <2>3. Rest
    BY <1>4, <2>2 DEF FetchMessage, TypeOK
  <2>4. held' = [held EXCEPT ![c] = [pc |-> "handle", part |-> p, off |-> next[p]]]
    BY <1>4 DEF FetchMessage
  <2>5. [pc |-> "handle", part |-> p, off |-> next[p]] \in Message
    BY <2>2 DEF Message
  <2>6. held' = [d \in Consumers |-> held'[d]] /\ Loops
    BY <1>2, <2>2, <2>4, <2>5 DEF TypeOK
  <2> QED BY <2>3, <2>6
<1>5. ASSUME NEW c \in Consumers, Handle(c) PROVE Goal
  <2>1. /\ held[c] \in Message /\ held[c].part \in Partitions
        /\ held[c].off \in DOMAIN log[held[c].part]
    BY <1>5, HeldType DEF Handle, HeldInLog
  <2>2. HeldEvent(c) \in Events
    BY <2>1, ElementOfSeq, LenProperties DEF HeldEvent, TypeOK
  <2>3. Rest
    BY <1>5, <2>2 DEF Handle, TypeOK
  <2>4. held' = [held EXCEPT ![c] = [held[c] EXCEPT !.pc = "commit"]]
    BY <1>5 DEF Handle
  <2>5. /\ [held[c] EXCEPT !.pc = "commit"] \in Message
        /\ [held[c] EXCEPT !.pc = "commit"].off = held[c].off
        /\ [held[c] EXCEPT !.pc = "commit"].part = held[c].part
    BY <2>1 DEF Message
  <2>6. held' = [d \in Consumers |-> held'[d]] /\ Loops
    BY <1>2, <2>1, <2>4, <2>5 DEF TypeOK
  <2> QED BY <2>3, <2>6
<1>6. ASSUME NEW c \in Consumers, held' = [held EXCEPT ![c] = Nothing], Rest PROVE Goal
  BY <1>2, <1>6 DEF TypeOK
<1>7. ASSUME NEW c \in Consumers, HandleFails(c) PROVE Rest
  <2>1. /\ held[c].part \in Partitions /\ held[c].off \in 1 .. MaxLog
        /\ held[c].off \in DOMAIN log[held[c].part]
    BY <1>7, HeldType DEF HandleFails, HeldInLog
  <2>2. HeldEvent(c) \in Events
    BY <2>1, ElementOfSeq, LenProperties DEF HeldEvent, TypeOK
  <2> QED BY <1>7, <2>1, <2>2 DEF HandleFails, TypeOK
<1>8. ASSUME NEW c \in Consumers, CommitMessages(c) PROVE Rest
  <2>1. held[c].part \in Partitions /\ held[c].off \in 1 .. MaxLog
    BY <1>8, HeldType DEF CommitMessages
  <2>2. held[c].off + 1 \in 1 .. MaxLog + 1
    BY <2>1
  <2>3. committed' = [committed EXCEPT ![held[c].part] = held[c].off + 1]
    BY <1>8 DEF CommitMessages
  <2>4. committed' \in [Partitions -> 1 .. MaxLog + 1]
    BY <2>2, <2>3 DEF TypeOK
  <2> QED BY <1>8, <2>4 DEF CommitMessages, TypeOK
<1>9. ASSUME NEW c \in Consumers, CommitFails(c) \/ Crash(c) PROVE Rest
  BY <1>9 DEF CommitFails, Crash, TypeOK
<1>10. ASSUME Assign \/ Reassign PROVE Goal
  <2>1. Rest /\ UNCHANGED held
    BY <1>10 DEF Assign, Reassign, Rebalance, TypeOK
  <2> QED BY <1>2, <2>1 DEF TypeOK
<1>11. Goal
  <2>1. \A c \in Consumers :
           HandleFails(c) \/ CommitMessages(c) \/ CommitFails(c) \/ Crash(c) => Goal
    BY <1>6, <1>7, <1>8, <1>9 DEF HandleFails, CommitMessages, CommitFails, Crash
  <2> HIDE DEF Goal
  <2> QED BY <1>3, <1>4, <1>5, <1>10, <2>1 DEF Next, Continue, Produce, vars
<1>12. \A c \in Consumers : held'[c] # Nothing =>
           held'[c].off \in DOMAIN log'[held'[c].part]
  <2> SUFFICES ASSUME NEW c \in Consumers, held'[c] # Nothing
               PROVE  held'[c].off \in DOMAIN log'[held'[c].part]
    OBVIOUS
  <2>1. held'[c] \in Message /\ held'[c].off \in DOMAIN log[held'[c].part]
    BY <1>11
  <2> QED BY <2>1, LogGrows DEF Message
<1>13. TypeOK'
  <2>1. held' \in [Consumers -> Message \cup {Nothing}]
    BY <1>11
  <2>2. \A p \in Partitions : Len(log'[p]) <= MaxLog
    BY LogGrows
  <2> QED BY <1>1, <1>11, <2>1, <2>2 DEF TypeOK
<1> QED BY <1>12, <1>13 DEF HeldInLog

LEMMA TInvHolds == Spec => []TInv
<1> QED BY TInit, TStep, PTL DEF Spec

\* Type correctness, and that a loop only holds a message that is in the log.
THEOREM TypeCorrect == Spec => []TypeOK
<1>1. TInv => TypeOK
  BY DEF TInv
<1> QED BY <1>1, TInvHolds, PTL

-----------------------------------------------------------------------------
(* What the group passes over.                                             *)

LEMMA AttemptedStays ==
    ASSUME TypeOK, [Next]_vars, NEW p \in Partitions, NEW i, Attempted(p, i)
    PROVE  Attempted(p, i)'
<1>1. sink \subseteq sink' /\ failed \subseteq failed'
  BY DEF Next, vars, Produce, FetchMessage, Continue, Handle, HandleFails, CommitMessages,
         CommitFails, Crash, Assign, Reassign, Rebalance
<1> QED BY <1>1, LogGrows DEF Attempted, InSink

\* The message a loop has handled, or failed to, is attempted.
LEMMA HandlingAttempts ==
    ASSUME TInv, NEW c \in Consumers, Handle(c) \/ HandleFails(c),
           NEW p, NEW i, p = held[c].part, i = held[c].off
    PROVE  Attempted(p, i)'
<1>1. i \in DOMAIN log[p] /\ log' = log
  BY HeldType DEF TInv, HeldInLog, Handle, HandleFails
<1>2. log[p][i] \in sink' \/ <<p, i>> \in failed'
  BY DEF Handle, HandleFails, HeldEvent
<1> QED BY <1>1, <1>2 DEF Attempted, InSink

\* A loop that fetches has attempted everything its reader handed out.
LEMMA FetchedInOrder ==
    ASSUME TypeOK, ReaderInv, NEW c \in Consumers, NEW p \in Partitions,
           held[c] = Nothing, owner[p] = c, NEW i \in 1 .. next[p] - 1
    PROVE  Attempted(p, i)
<1>1. owner[p] # Nobody
  BY GroupAssumption DEF Nobody
<1>2. Nothing # [pc |-> "handle", part |-> p, off |-> i]
  <2>1. Nothing.pc # [pc |-> "handle", part |-> p, off |-> i].pc
    BY DEF Nothing
  <2> QED BY <2>1
<1> QED BY <1>1, <1>2 DEF ReaderInv

LEMMA LoopStep ==
    ASSUME CInv, [Next]_vars, NEW c \in Consumers, held'[c] # Nothing,
           NEW i, NEW p, p = held'[c].part,
           \/ i \in 1 .. held'[c].off - 1
           \/ i = held'[c].off /\ held'[c].pc = "commit"
    PROVE  Attempted(p, i)'
<1> USE DEF CInv, TInv
<1>1. CASE held'[c] = held[c]
  <2>1. p \in Partitions /\ Attempted(p, i)
    BY <1>1, HeldType, HoldingType DEF LoopInv
  <2> QED BY <2>1, AttemptedStays
<1>2. ASSUME NEW q \in Partitions, FetchMessage(c, q)
      PROVE  Attempted(p, i)'
  <2>1. held'[c] = [pc |-> "handle", part |-> q, off |-> next[q]]
    BY <1>2 DEF FetchMessage, TypeOK
  <2>2. p = q /\ i \in 1 .. next[q] - 1
    BY <2>1
  <2>3. Attempted(p, i)
    BY <1>2, <2>2, FetchedInOrder DEF FetchMessage
  <2> QED BY <2>2, <2>3, AttemptedStays
<1>3. CASE Handle(c)
  <2>1. /\ held[c] \in Message /\ held[c] # Nothing /\ held[c].part \in Partitions
        /\ held'[c] = [held[c] EXCEPT !.pc = "commit"]
    BY <1>3, HeldType DEF Handle, TypeOK
  <2>2. p = held[c].part /\ held'[c].off = held[c].off
    BY <2>1 DEF Message
  <2>3. CASE i = held[c].off
    BY <1>3, <2>2, <2>3, HandlingAttempts
  <2>4. CASE i \in 1 .. held[c].off - 1
    <3>1. Attempted(p, i)
      BY <2>1, <2>2, <2>4 DEF LoopInv
    <3> QED BY <2>1, <2>2, <3>1, AttemptedStays
  <2> QED BY <2>2, <2>3, <2>4
<1>4. \/ held'[c] = held[c] \/ held'[c] = Nothing
      \/ Handle(c) \/ \E q \in Partitions : FetchMessage(c, q)
  BY DEF Next, vars, Produce, FetchMessage, Continue, Handle, HandleFails, CommitMessages,
         CommitFails, Crash, Assign, Reassign, Rebalance, TypeOK
<1> QED BY <1>1, <1>2, <1>3, <1>4

LEMMA CommittedStep ==
    ASSUME CInv, [Next]_vars, NEW p \in Partitions, NEW i \in 1 .. committed'[p] - 1
    PROVE  Attempted(p, i)'
<1> USE DEF CInv, TInv
<1>1. CASE committed'[p] = committed[p]
  <2>1. Attempted(p, i)
    BY <1>1 DEF SkippedOnlyByFailure
  <2> QED BY <2>1, AttemptedStays
<1>2. ASSUME NEW c \in Consumers, CommitMessages(c), held[c].part = p
      PROVE  Attempted(p, i)'
  <2>1. held[c] # Nothing /\ held[c].off \in 1 .. MaxLog /\ held[c].pc = "commit"
    BY <1>2, HeldType DEF CommitMessages
  <2>2. committed'[p] = held[c].off + 1
    BY <1>2 DEF CommitMessages, TypeOK
  <2>3. i \in 1 .. held[c].off - 1 \/ i = held[c].off
    BY <2>1, <2>2
  <2>4. Attempted(p, i)
    BY <1>2, <2>1, <2>3 DEF LoopInv
  <2> QED BY <2>4, AttemptedStays
<1>3. committed'[p] = committed[p]
      \/ \E c \in Consumers : CommitMessages(c) /\ held[c].part = p
  BY DEF Next, vars, Produce, FetchMessage, Continue, Handle, HandleFails, CommitMessages,
         CommitFails, Crash, Assign, Reassign, Rebalance, TypeOK
<1> QED BY <1>1, <1>2, <1>3

LEMMA ReaderStep ==
    ASSUME CInv, [Next]_vars, NEW p \in Partitions, owner'[p] # Nobody,
           NEW i \in 1 .. next'[p] - 1
    PROVE  Attempted(p, i)' \/ held'[owner'[p]] = [pc |-> "handle", part |-> p, off |-> i]
<1> USE DEF CInv, TInv
<1>1. CASE Rebalance
  <2>1. Attempted(p, i)
    BY <1>1 DEF Rebalance, SkippedOnlyByFailure
  <2> QED BY <2>1, AttemptedStays
<1>2. ASSUME NEW c \in Consumers, c = owner[p], owner'[p] = c
      PROVE  Attempted(p, i)' \/ held'[c] = [pc |-> "handle", part |-> p, off |-> i]
  <2>1. CASE i \in 1 .. next[p] - 1 /\ held[c] = Nothing
    <3>1. Attempted(p, i)
      BY <1>2, <2>1, FetchedInOrder
    <3> QED BY <3>1, AttemptedStays
  <2>2. CASE i \in 1 .. next[p] - 1 /\ held'[c] = held[c]
    <3>1. Attempted(p, i) \/ held[c] = [pc |-> "handle", part |-> p, off |-> i]
      BY <1>2, <2>2, GroupAssumption DEF ReaderInv, Nobody
    <3> QED BY <2>2, <3>1, AttemptedStays
  <2>3. CASE i \in 1 .. next[p] - 1 /\ (Handle(c) \/ HandleFails(c))
    <3>1. Attempted(p, i) \/ held[c] = [pc |-> "handle", part |-> p, off |-> i]
      BY <1>2, <2>3, GroupAssumption DEF ReaderInv, Nobody
    <3>2. CASE held[c] = [pc |-> "handle", part |-> p, off |-> i]
      <4>1. p = held[c].part /\ i = held[c].off
        BY <3>2
      <4> QED BY <2>3, <4>1, HandlingAttempts
    <3> QED BY <3>1, <3>2, AttemptedStays
  <2>4. CASE i \in 1 .. next[p] - 1 /\ held[c].pc = "commit"
    <3>1. Attempted(p, i) \/ held[c] = [pc |-> "handle", part |-> p, off |-> i]
      BY <1>2, <2>4, GroupAssumption DEF ReaderInv, Nobody
    <3> QED BY <2>4, <3>1, AttemptedStays
  <2>5. CASE FetchMessage(c, p)
    <3>1. /\ held[c] = Nothing /\ next[p] \in 1 .. MaxLog + 1 /\ next'[p] = next[p] + 1
          /\ held'[c] = [pc |-> "handle", part |-> p, off |-> next[p]]
      BY <2>5 DEF FetchMessage, TypeOK
    <3>2. i \in 1 .. next[p] - 1 \/ i = next[p]
      BY <3>1
    <3> QED BY <2>1, <3>1, <3>2
  <2>6. CASE \E d \in Consumers, q \in Partitions :
                FetchMessage(d, q) /\ ~(d = c /\ q = p)
    <3>1. PICK d \in Consumers, q \in Partitions : FetchMessage(d, q) /\ ~(d = c /\ q = p)
      BY <2>6
    <3>2. p # q
      BY <1>2, <3>1 DEF FetchMessage
    <3>3. next'[p] = next[p]
      BY <3>1, <3>2 DEF FetchMessage, TypeOK
    <3>4. CASE d = c
      BY <2>1, <3>1, <3>3, <3>4 DEF FetchMessage
    <3>5. CASE d # c
      <4>1. held'[c] = held[c]
        BY <3>1, <3>5 DEF FetchMessage, TypeOK
      <4> QED BY <2>2, <3>3, <4>1
    <3> QED BY <3>4, <3>5
  <2>7. CASE next' = next /\ held'[c] = held[c]
    BY <2>2, <2>7
  <2>8. CASE \E d \in Consumers : Continue(d)
    <3>1. PICK d \in Consumers : Continue(d)
      BY <2>8
    <3>2. next' = next /\ (d # c => held'[c] = held[c])
      BY <3>1 DEF Continue, Handle, HandleFails, CommitMessages, CommitFails, TypeOK
    <3>3. d = c => Handle(c) \/ HandleFails(c) \/ held[c].pc = "commit"
      BY <3>1 DEF Continue, CommitMessages, CommitFails
    <3> QED BY <2>2, <2>3, <2>4, <3>2, <3>3
  <2>9. CASE \E d \in Consumers : Crash(d)
    <3>1. PICK d \in Consumers : Crash(d)
      BY <2>9
    <3>2. next' = next /\ d # c /\ held'[c] = held[c]
      BY <1>2, <3>1, GroupAssumption DEF Crash, TypeOK, Nobody
    <3> QED BY <2>2, <3>2
  <2>10. CASE Rebalance
    BY <1>1, <1>2, <2>10
  <2> QED BY <2>5, <2>6, <2>7, <2>8, <2>9, <2>10
          DEF Next, vars, Produce, Assign, Reassign
<1>3. Rebalance \/ owner'[p] = owner[p]
  BY DEF Next, vars, Produce, FetchMessage, Continue, Handle, HandleFails, CommitMessages,
         CommitFails, Crash, Assign, Reassign, TypeOK
<1>4. owner'[p] = owner[p] => owner[p] \in Consumers
  BY DEF TypeOK
<1> QED BY <1>1, <1>2, <1>3, <1>4

\* No message is passed over without a handler run: not when processes die
\* between handling and committing, not when partitions move, and not when the
\* commit of an earlier owner arrives late.
THEOREM SkippedCorrect == Spec => []SkippedOnlyByFailure
<1>1. Init => CInv
  BY TInit DEF Init, CInv, SkippedOnlyByFailure, ReaderInv, LoopInv
<1>2. CInv /\ [Next]_vars => CInv'
  <2> SUFFICES ASSUME CInv, [Next]_vars PROVE CInv'
    OBVIOUS
  <2>1. TInv'
    BY TStep DEF CInv
  <2>2. SkippedOnlyByFailure'
    BY CommittedStep DEF SkippedOnlyByFailure
  <2>3. ReaderInv'
    BY ReaderStep DEF ReaderInv
  <2>4. LoopInv'
    <3> SUFFICES ASSUME NEW c \in Consumers, held'[c] # Nothing
                 PROVE  (/\ \A i \in 1 .. held[c].off - 1 : Attempted(held[c].part, i)
                         /\ held[c].pc = "commit" => Attempted(held[c].part, held[c].off))'
      BY DEF LoopInv
    <3>1. \A p, i : /\ p = held'[c].part
                    /\ \/ i \in 1 .. held'[c].off - 1
                       \/ i = held'[c].off /\ held'[c].pc = "commit"
                    => Attempted(p, i)'
      BY LoopStep
    <3> QED BY <3>1 DEF Attempted, InSink
  <2> QED BY <2>1, <2>2, <2>3, <2>4 DEF CInv
<1>3. CInv => SkippedOnlyByFailure
  BY DEF CInv
<1> QED BY <1>1, <1>2, <1>3, PTL DEF Spec
=============================================================================
