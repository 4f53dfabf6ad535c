------------------------ MODULE RequestShell_proofs ------------------------
(***************************************************************************)
(* What clients are told, what retries change and what is audited, for any *)
(* number of requests and changes and any size of the pool.                *)
(***************************************************************************)
EXTENDS RequestShell, TLAPS

Over == {"reply", "leave", "returned"}

\* Requests whose COMMIT was sent.
Sent == changed \cup pending

\* A handler has no status before it has decided its response, "ok" is final
\* because a change stays, and "refused" because no COMMIT was sent.
HandlerHonest(r) ==
    /\ hand[r].pc \notin Over <=> hand[r].status = "open"
    /\ hand[r].pc = "same" => asks[r] \in present
    /\ hand[r].status = "ok" => asks[r] \in present
    /\ hand[r].status = "refused" => r \notin Sent
    /\ r \in Sent => hand[r].pc \in Over \cup {"commit"}

\* The client is told the handler's status or 504.
AnswerHonest(r) ==
    answer[r] \notin {"none", "504"} => hand[r].pc = "returned" /\ answer[r] = hand[r].status

ChangeAudited(r) ==
    auditing /\ r \in Sent /\ hand[r].pc \notin {"commit", "reply"} =>
        /\ audit[r].pc # "none"
        /\ audit[r].status = hand[r].status
        /\ audit[r].status \in {"ok", "failed"}

\* Transactions that will make their change if they are not rolled back.
Writing(r) == hand[r].pc = "write" \/ r \in pending

\* Only one at a time makes a change, and only while it is not made.
AloneInWriting ==
    /\ \A q, r \in Requests : asks[q] = asks[r] /\ Writing(q) /\ Writing(r) => q = r
    /\ \A r \in Requests : Writing(r) => asks[r] \notin present
    /\ \A r \in changed : asks[r] \in present
    /\ MadeOnce

Honest(r) == HandlerHonest(r) /\ AnswerHonest(r) /\ ChangeAudited(r)

IInv ==
    /\ TypeOK
    /\ \A r \in Requests : Honest(r)
    /\ AloneInWriting

Labels == Running \cup {"idle", "leave", "returned"}
Hands  == [Requests -> [pc : Labels, status : Status]]
Audits == [Requests -> [pc : {"none", "begun", "insert", "written", "lost"}, status : Status]]

-----------------------------------------------------------------------------
LEMMA InitOK == Init => IInv
<1> SUFFICES ASSUME Init PROVE IInv
  OBVIOUS
<1> USE DEF Init, Inputs, Start
<1>1. TypeOK
  BY DEF TypeOK, Status, Running
<1>2. \A r \in Requests : Honest(r)
  BY DEF Honest, HandlerHonest, AnswerHonest, ChangeAudited, Over, Sent
<1>3. AloneInWriting
  BY DEF AloneInWriting, Writing, MadeOnce
<1> QED  BY <1>1, <1>2, <1>3 DEF IInv

\* Requests a step does not touch stay as they are.
LEMMA OthersOK ==
    ASSUME NEW r \in Requests, NEW s \in Requests, s # r, Honest(s),
           hand'[s] = hand[s], answer'[s] = answer[s], audit'[s] = audit[s],
           UNCHANGED inputs, present \subseteq present',
           s \in changed' <=> s \in changed, s \in pending' <=> s \in pending
    PROVE  Honest(s)'
BY DEF Honest, HandlerHonest, AnswerHonest, ChangeAudited, Sent, inputs

\* No step but the database's makes a change, and none but Take begins one.
LEMMA AloneOK ==
    ASSUME IInv, UNCHANGED inputs, UNCHANGED present, UNCHANGED changed,
           \A s \in Requests : Writing(s)' => Writing(s)
    PROVE  AloneInWriting'
BY DEF IInv, AloneInWriting, MadeOnce, inputs

\* A step of a handler goroutine that leaves database and records alone.
LEMMA HandOK ==
    ASSUME IInv, NEW r \in Requests, NEW label \in Labels, NEW status \in Status,
           hand[r].pc # "returned",
           hand' = [hand EXCEPT ![r] = [pc |-> label, status |-> status]],
           UNCHANGED <<inputs, answer, database>>,
           label \notin Over <=> status = "open",
           label = "same" \/ status = "ok" => asks[r] \in present,
           status = "refused" => r \notin Sent,
           r \in Sent => label \in Over \cup {"commit"},
           label = "write" => hand[r].pc = "write",
           audit' \in Audits, \A s \in Requests \ {r} : audit'[s] = audit[s],
           auditing /\ r \in Sent /\ label \notin {"commit", "reply"} =>
               audit'[r].pc # "none" /\ audit'[r].status = status /\ status \in {"ok", "failed"}
    PROVE  hand' \in Hands /\ (\A s \in Requests : Honest(s)') /\ AloneInWriting'
<1>1. hand \in Hands
  BY DEF IInv, TypeOK, Hands, Labels
<1>2. /\ hand' \in Hands
      /\ hand'[r] = [pc |-> label, status |-> status]
      /\ \A s \in Requests \ {r} : hand'[s] = hand[s]
  BY <1>1 DEF Hands
<1>3. /\ hand'[r].pc = label /\ hand'[r].status = status
      /\ answer[r] \in {"none", "504"}
  BY <1>2 DEF IInv, Honest, AnswerHonest
<1>4. Honest(r)'
  BY <1>3 DEF Honest, HandlerHonest, AnswerHonest, ChangeAudited, Sent, inputs, database
<1>5. ASSUME NEW s \in Requests, s # r  PROVE Honest(s)'
  BY <1>2, <1>5, OthersOK DEF IInv, database
<1>6. \A s \in Requests : Writing(s)' => Writing(s)
  BY <1>2, <1>3 DEF Writing, database
<1>7. AloneInWriting'
  BY <1>6, AloneOK DEF database
<1> QED  BY <1>2, <1>4, <1>5, <1>7

LEMMA GotoKeepsStatus ==
    ASSUME hand \in Hands, NEW r \in Requests, NEW label, Goto(r, label)
    PROVE  hand' = [hand EXCEPT ![r] = [pc |-> label, status |-> hand[r].status]]
<1>1. hand[r] \in [pc : Labels, status : Status]
  BY DEF Hands
<1>2. [hand[r] EXCEPT !.pc = label] = [pc |-> label, status |-> hand[r].status]
  BY <1>1
<1>3. hand' = [hand EXCEPT ![r] = [hand[r] EXCEPT !.pc = label]]
  BY DEF Goto
<1> QED  BY <1>2, <1>3

\* The handler goes on to another place before its response is decided.
LEMMA GoOK ==
    ASSUME IInv, NEW r \in Requests, NEW label \in Labels \ Over,
           hand[r].pc \notin Over, r \notin Sent, Goto(r, label),
           label = "same" => asks[r] \in present, label # "write",
           UNCHANGED <<inputs, answer, database, audit>>
    PROVE  hand' \in Hands /\ (\A s \in Requests : Honest(s)') /\ AloneInWriting'
<1>1. /\ hand \in Hands /\ audit \in Audits
      /\ hand[r].status = "open"
  BY DEF IInv, TypeOK, Hands, Labels, Audits, Honest, HandlerHonest
<1>2. hand' = [hand EXCEPT ![r] = [pc |-> label, status |-> "open"]]
  BY <1>1, GotoKeepsStatus
<1>3. "open" \in Status /\ hand[r].pc # "returned"
  BY DEF Status, Over
<1> QED  BY <1>1, <1>2, <1>3, HandOK

\* The response is decided.
LEMMA DecideOK ==
    ASSUME IInv, NEW r \in Requests, NEW label \in Over, NEW status \in {"ok", "refused", "failed"},
           hand[r].pc \notin Over, Decide(r, label, status),
           UNCHANGED <<inputs, answer, database, audit>>,
           status = "ok" => asks[r] \in present,
           status = "refused" \/ label # "reply" => r \notin Sent
    PROVE  hand' \in Hands /\ (\A s \in Requests : Honest(s)') /\ AloneInWriting'
<1>1. audit \in Audits
  BY DEF IInv, TypeOK, Audits
<1>2. label \in Labels /\ status \in Status /\ hand[r].pc # "returned" /\ label # "same"
  BY DEF Labels, Over, Status, Running
<1>3. hand' = [hand EXCEPT ![r] = [pc |-> label, status |-> status]]
  BY DEF Decide
<1>4. r \in Sent => label = "reply" /\ status # "refused"
  OBVIOUS
<1>5. label \in Over /\ label # "write" /\ status # "open"
  BY DEF Over
<1> QED  BY <1>1, <1>2, <1>3, <1>4, <1>5, HandOK

\* A step that touches neither handlers, answers, the database nor records.
LEMMA NothingOK ==
    ASSUME IInv, UNCHANGED <<inputs, hand, answer, database, audit>>
    PROVE  (\A s \in Requests : Honest(s)') /\ AloneInWriting'
<1>1. \A s \in Requests : Honest(s)'
  BY DEF IInv, Honest, HandlerHonest, AnswerHonest, ChangeAudited, Sent, inputs, database
<1>2. AloneInWriting'
  BY AloneOK DEF Writing, database
<1> QED  BY <1>1, <1>2

\* The parts of the type invariant that are not about handlers and records.
RestOK ==
    /\ asks    \in [Requests -> Changes]
    /\ auditing \in BOOLEAN
    /\ proc    \in {"up", "draining", "closing", "stopped", "crashed"}
    /\ expired \subseteq Requests
    /\ answer  \in [Requests -> Status \cup {"none", "504"}]
    /\ present \subseteq Changes
    /\ pending \subseteq Requests
    /\ changed \subseteq Requests
    /\ conns   \subseteq Requests \X {"handler", "audit"}
    /\ leaked  \subseteq Requests

LEMMA TypeParts ==
    /\ TypeOK <=> RestOK /\ hand \in Hands /\ audit \in Audits
    /\ TypeOK' <=> RestOK' /\ hand' \in Hands /\ audit' \in Audits
BY DEF TypeOK, RestOK, Hands, Labels, Audits

LEMMA RestKept ==
    ASSUME RestOK, NEW r \in Requests, UNCHANGED <<inputs, proc, expired, answer, database>>,
           conns' \subseteq conns \cup {Of(r)}, leaked' \subseteq leaked \cup {r}
    PROVE  RestOK'
BY DEF RestOK, Of, inputs, database

-----------------------------------------------------------------------------
\* The steps of a handler goroutine, by what they do to it.
LEMMA GoesOK ==
    ASSUME IInv, NEW r \in Requests,
           \/ Admit(r) \/ TenantFound(r) \/ Route(r) \/ Accept(r) \/ Acquire(r)
           \/ Take(r) /\ asks[r] \in present
    PROVE  IInv'
<1>1. PICK label \in Labels \ Over :
          /\ Goto(r, label) /\ label # "write"
          /\ label = "same" => asks[r] \in present
          /\ hand[r].pc \notin Over \cup {"commit"}
          /\ conns' \subseteq conns \cup {Of(r)}
          /\ UNCHANGED <<inputs, proc, expired, answer, database, leaked, audit>>
  BY DEF Admit, TenantFound, Route, Accept, Acquire, Take, At, Labels, Over, Running
<1>2. r \notin Sent
  BY <1>1 DEF IInv, Honest, HandlerHonest
<1>3. hand' \in Hands /\ (\A s \in Requests : Honest(s)') /\ AloneInWriting'
  BY <1>1, <1>2, GoOK
<1>4. RestOK' /\ audit' \in Audits
  BY <1>1, TypeParts, RestKept DEF IInv
<1> QED  BY <1>3, <1>4, TypeParts DEF IInv

\* Take, when the change is to be made: no other request is making it.
LEMMA TakeOK ==
    ASSUME IInv, NEW r \in Requests, Take(r), asks[r] \notin present
    PROVE  IInv'
<1>1. /\ hand \in Hands /\ audit \in Audits /\ RestOK
      /\ hand[r].pc = "tx" /\ hand[r].status = "open" /\ r \notin Sent
      /\ answer[r] \in {"none", "504"}
  BY TypeParts DEF IInv, Take, At, Honest, HandlerHonest, AnswerHonest, Over
<1>2. /\ hand' \in Hands
      /\ hand'[r].pc = "write" /\ hand'[r].status = "open"
      /\ \A s \in Requests \ {r} : hand'[s] = hand[s]
      /\ UNCHANGED <<inputs, proc, expired, answer, database, conns, leaked, audit>>
  BY <1>1 DEF Take, Goto, Hands, Labels, Running
<1>3. Honest(r)'
  BY <1>1, <1>2 DEF Honest, HandlerHonest, AnswerHonest, ChangeAudited, Sent, Over, inputs, database
<1>4. ASSUME NEW s \in Requests, s # r  PROVE Honest(s)'
  BY <1>2, <1>4, OthersOK DEF IInv, database
<1>5. AloneInWriting'
  <2>1. \A q \in Requests : asks[q] = asks[r] => ~Writing(q)
    BY DEF Take, Holding, Writing
  <2>2. \A q \in Requests \ {r} : Writing(q)' => Writing(q)
    BY <1>2 DEF Writing, database
  <2> QED  BY <1>2, <2>1, <2>2 DEF IInv, AloneInWriting, MadeOnce, inputs, database
<1>6. RestOK'
  BY <1>1, <1>2, RestKept
<1> QED  BY <1>1, <1>2, <1>3, <1>4, <1>5, <1>6, TypeParts DEF IInv

\* The response is decided before a COMMIT is sent, or after the database has
\* committed, or nobody knows.
LEMMA DecidesOK ==
    ASSUME IInv, NEW r \in Requests,
           \/ Refuse(r) \/ TenantNotFound(r) \/ TooMany(r) \/ Reject(r) \/ AcquireFails(r)
           \/ NothingToChange(r) \/ Fail(r) \/ Leak(r) \/ CommitReturns(r) \/ CommitFails(r)
    PROVE  IInv'
<1>1. PICK label \in Over, status \in {"ok", "refused", "failed"} :
          /\ Decide(r, label, status)
          /\ hand[r].pc \notin Over
          /\ status = "ok" => hand[r].pc = "same" \/ r \in changed
          /\ status = "refused" \/ label # "reply" => hand[r].pc # "commit"
          /\ conns' \subseteq conns /\ leaked' \subseteq leaked \cup {r}
          /\ UNCHANGED <<inputs, proc, expired, answer, database, audit>>
  BY DEF Refuse, TenantNotFound, TooMany, Reject, AcquireFails, NothingToChange, Fail, Leak,
         CommitReturns, CommitFails, Reply, At, Over
<1>2. /\ status = "ok" => asks[r] \in present
      /\ hand[r].pc # "commit" => r \notin Sent
  BY <1>1 DEF IInv, Honest, HandlerHonest, AloneInWriting
<1>3. hand' \in Hands /\ (\A s \in Requests : Honest(s)') /\ AloneInWriting'
  BY <1>1, <1>2, DecideOK
<1>4. RestOK' /\ audit' \in Audits
  BY <1>1, TypeParts, RestKept DEF IInv
<1> QED  BY <1>3, <1>4, TypeParts DEF IInv

LEMMA SendCommitOK ==
    ASSUME IInv, NEW r \in Requests, SendCommit(r)
    PROVE  IInv'
<1>1. /\ hand \in Hands /\ audit \in Audits /\ RestOK
      /\ hand[r].pc = "write" /\ hand[r].status = "open"
      /\ answer[r] \in {"none", "504"}
  BY TypeParts DEF IInv, SendCommit, At, Honest, HandlerHonest, AnswerHonest, Over
<1>2. /\ hand' \in Hands
      /\ hand'[r].pc = "commit" /\ hand'[r].status = "open"
      /\ \A s \in Requests \ {r} : hand'[s] = hand[s]
      /\ pending' = pending \cup {r}
      /\ UNCHANGED <<inputs, proc, expired, answer, present, changed, conns, leaked, audit>>
  BY <1>1 DEF SendCommit, Goto, Hands, Labels, Running
<1>3. Honest(r)'
  BY <1>1, <1>2 DEF Honest, HandlerHonest, AnswerHonest, ChangeAudited, Over
<1>4. ASSUME NEW s \in Requests, s # r  PROVE Honest(s)'
  BY <1>2, <1>4, OthersOK DEF IInv
<1>5. \A s \in Requests : Writing(s)' => Writing(s)
  BY <1>1, <1>2 DEF Writing
<1>6. AloneInWriting'
  BY <1>2, <1>5, AloneOK
<1>7. RestOK'
  BY <1>1, <1>2 DEF RestOK, inputs
<1> QED  BY <1>1, <1>2, <1>3, <1>4, <1>6, <1>7, TypeParts DEF IInv

\* The record of a request that sent its COMMIT is started with its status.
LEMMA StartAuditOK ==
    ASSUME IInv, NEW r \in Requests, StartAudit(r)
    PROVE  IInv'
<1>1. /\ hand \in Hands /\ audit \in Audits /\ RestOK
      /\ hand[r].pc = "reply" /\ hand[r].status \in Status
  BY TypeParts DEF IInv, StartAudit, At, Hands
<1>2. r \in Sent => hand[r].status # "refused"
  BY DEF IInv, Honest, HandlerHonest
<1>3. hand' = [hand EXCEPT ![r] = [pc |-> "leave", status |-> hand[r].status]]
  BY <1>1, GotoKeepsStatus DEF StartAudit
<1>4. /\ audit' \in Audits /\ \A s \in Requests \ {r} : audit'[s] = audit[s]
      /\ auditing => audit'[r] = [pc |-> "begun", status |-> hand[r].status]
      /\ UNCHANGED <<inputs, proc, expired, answer, database, conns, leaked>>
  BY <1>1 DEF StartAudit, Audits
<1>5. hand[r].status # "open" /\ "leave" \in Labels /\ "leave" \in Over
  BY <1>1 DEF IInv, Honest, HandlerHonest, Labels, Over
<1>6. hand' \in Hands /\ (\A s \in Requests : Honest(s)') /\ AloneInWriting'
  <2>1. r \in Sent => hand[r].status \in {"ok", "failed"}
    BY <1>1, <1>2, <1>5 DEF Status
  <2>2. hand[r].status = "ok" => asks[r] \in present
    BY DEF IInv, Honest, HandlerHonest
  <2>3. auditing /\ r \in Sent =>
            audit'[r].pc # "none" /\ audit'[r].status = hand[r].status
    BY <1>4
  <2> QED  BY <1>1, <1>2, <1>3, <1>4, <1>5, <2>1, <2>2, <2>3, HandOK
<1>7. RestOK'
  BY <1>1, <1>4, RestKept
<1> QED  BY <1>4, <1>6, <1>7, TypeParts DEF IInv

LEMMA ReturnOK ==
    ASSUME IInv, NEW r \in Requests, Return(r)
    PROVE  IInv'
<1>1. /\ hand \in Hands /\ audit \in Audits /\ RestOK
      /\ hand[r].pc = "leave" /\ hand[r].status \in Status
  BY TypeParts DEF IInv, Return, At, Hands
<1>2. hand' = [hand EXCEPT ![r] = [pc |-> "returned", status |-> hand[r].status]]
  BY <1>1, GotoKeepsStatus DEF Return
<1>3. UNCHANGED <<inputs, proc, expired, answer, database, conns, leaked, audit>>
  BY DEF Return
<1>4. /\ hand[r].status # "open" /\ "returned" \in Labels /\ "returned" \in Over
      /\ hand[r].status = "ok" => asks[r] \in present
      /\ hand[r].status = "refused" => r \notin Sent
  BY <1>1 DEF IInv, Honest, HandlerHonest, Labels, Over
<1>5. auditing /\ r \in Sent =>
          audit'[r].pc # "none" /\ audit'[r].status = hand[r].status
                               /\ hand[r].status \in {"ok", "failed"}
  BY <1>1, <1>3 DEF IInv, Honest, ChangeAudited
<1>6. hand' \in Hands /\ (\A s \in Requests : Honest(s)') /\ AloneInWriting'
  BY <1>1, <1>2, <1>3, <1>4, <1>5, HandOK
<1>7. RestOK'
  BY <1>1, <1>3, RestKept
<1> QED  BY <1>1, <1>3, <1>6, <1>7, TypeParts DEF IInv

LEMMA HandlerStepOK ==
    ASSUME IInv, NEW r \in Requests, HandlerStep(r)
    PROVE  IInv'
<1>1. CASE Take(r)
  BY <1>1, TakeOK, GoesOK
<1>2. CASE ~Take(r)
  BY <1>2, GoesOK, DecidesOK, SendCommitOK, StartAuditOK, ReturnOK DEF HandlerStep
<1> QED  BY <1>1, <1>2

-----------------------------------------------------------------------------
LEMMA DatabaseStepOK ==
    ASSUME IInv, NEW r \in Requests, DatabaseStep(r)
    PROVE  IInv'
<1>1. /\ hand \in Hands /\ audit \in Audits /\ RestOK /\ r \in pending
  BY TypeParts DEF IInv, DatabaseStep, DatabaseCommits, DatabaseDrops
<1>2. /\ UNCHANGED <<inputs, proc, hand, expired, answer, conns, leaked, audit>>
      /\ pending' = pending \ {r} /\ Sent' \subseteq Sent
      /\ present \subseteq present' /\ present' \subseteq present \cup {asks[r]}
  BY <1>1 DEF DatabaseStep, DatabaseCommits, DatabaseDrops, Sent
<1>3. ASSUME NEW s \in Requests  PROVE Honest(s)'
  BY <1>2 DEF IInv, Honest, HandlerHonest, AnswerHonest, ChangeAudited, inputs
<1>4. AloneInWriting'
  <2>1. CASE DatabaseCommits(r)
    <3>1. /\ asks[r] \notin present /\ hand[r].pc # "write"
          /\ \A q \in Requests \ {r} : asks[q] = asks[r] => ~Writing(q)
      BY <1>1 DEF IInv, AloneInWriting, Writing, Honest, HandlerHonest, Sent, Over
    <3>2. /\ changed' = changed \cup {r} /\ present' = present \cup {asks[r]}
          /\ \A q \in changed : asks[q] # asks[r]
      BY <2>1, <3>1 DEF DatabaseCommits, IInv, AloneInWriting
    <3>3. ~Writing(r)' /\ \A q \in Requests \ {r} : Writing(q)' => Writing(q)
      BY <1>2, <3>1 DEF Writing
    <3> QED  BY <1>2, <3>1, <3>2, <3>3 DEF IInv, AloneInWriting, MadeOnce, inputs
  <2>2. CASE DatabaseDrops(r)
    <3>1. \A q \in Requests : Writing(q)' => Writing(q)
      BY <1>2 DEF Writing
    <3> QED  BY <2>2, <3>1, AloneOK DEF DatabaseDrops
  <2> QED  BY <2>1, <2>2 DEF DatabaseStep
<1>5. RestOK'
  BY <1>1, <1>2 DEF RestOK, DatabaseStep, DatabaseCommits, DatabaseDrops, inputs
<1> QED  BY <1>1, <1>2, <1>3, <1>4, <1>5, TypeParts DEF IInv

LEMMA AnswerStepOK ==
    ASSUME IInv, NEW r \in Requests, Answer(r) \/ AnswerTimeout(r)
    PROVE  IInv'
<1>1. RestOK /\ hand \in Hands /\ audit \in Audits
  BY TypeParts DEF IInv
<1>2. /\ answer' \in [Requests -> Status \cup {"none", "504"}]
      /\ \A s \in Requests \ {r} : answer'[s] = answer[s]
      /\ answer'[r] = "504" \/ (hand[r].pc = "returned" /\ answer'[r] = hand[r].status)
      /\ UNCHANGED <<inputs, proc, hand, expired, database, conns, leaked, audit>>
  BY <1>1 DEF Answer, AnswerTimeout, At, Hands, RestOK
<1>3. Honest(r)'
  BY <1>2 DEF IInv, Honest, HandlerHonest, AnswerHonest, ChangeAudited, Sent, inputs, database
<1>4. ASSUME NEW s \in Requests, s # r  PROVE Honest(s)'
  BY <1>2, <1>4, OthersOK DEF IInv, database
<1>5. AloneInWriting'
  BY <1>2, AloneOK DEF Writing, database
<1>6. RestOK'
  BY <1>1, <1>2 DEF RestOK, inputs, database
<1> QED  BY <1>1, <1>2, <1>3, <1>4, <1>5, <1>6, TypeParts DEF IInv

LEMMA AuditStepOK ==
    ASSUME IInv, NEW r \in Requests, AuditStep(r)
    PROVE  IInv'
<1>1. RestOK /\ hand \in Hands /\ audit \in Audits
  BY TypeParts DEF IInv
<1>2. PICK label \in {"insert", "written", "lost"} :
          /\ audit' = [audit EXCEPT ![r].pc = label]
          /\ UNCHANGED <<inputs, proc, hand, expired, answer, database, leaked>>
          /\ conns' \subseteq conns \cup {<<r, "audit">>}
  BY DEF AuditStep, AuditAcquire, AuditGivesUp, AuditInsert
<1>3. /\ audit' \in Audits
      /\ audit'[r].pc # "none" /\ audit'[r].status = audit[r].status
      /\ \A s \in Requests \ {r} : audit'[s] = audit[s]
  BY <1>1, <1>2 DEF Audits
<1>4. Honest(r)'
  BY <1>2, <1>3 DEF IInv, Honest, HandlerHonest, AnswerHonest, ChangeAudited, Sent, inputs, database
<1>5. ASSUME NEW s \in Requests, s # r  PROVE Honest(s)'
  BY <1>2, <1>3, <1>5, OthersOK DEF IInv, database
<1>6. AloneInWriting'
  BY <1>2, AloneOK DEF Writing, database
<1>7. RestOK'
  BY <1>1, <1>2 DEF RestOK, inputs, database
<1> QED  BY <1>1, <1>2, <1>3, <1>4, <1>5, <1>6, <1>7, TypeParts DEF IInv

LEMMA StepOK ==
    ASSUME IInv, [Next]_vars
    PROVE  IInv'
<1>1. RestOK /\ hand \in Hands /\ audit \in Audits
  BY TypeParts DEF IInv
<1>2. CASE UNCHANGED vars
  <2>1. RestOK' /\ hand' \in Hands /\ audit' \in Audits
    BY <1>1, <1>2 DEF vars, RestOK, inputs
  <2> QED  BY <1>2, <2>1, NothingOK, TypeParts DEF vars, database, IInv
<1>3. ASSUME NEW r \in Requests, Arrive(r)  PROVE IInv'
  <2>1. /\ Goto(r, "guards") /\ hand[r].pc = "idle"
        /\ UNCHANGED <<inputs, proc, expired, answer, database, conns, leaked, audit>>
    BY <1>3 DEF Arrive, At
  <2>2. r \notin Sent /\ hand[r].pc \notin Over
    BY <2>1 DEF IInv, Honest, HandlerHonest, Over
  <2>3. "guards" \in Labels \ Over
    BY DEF Labels, Running, Over
  <2>4. hand' \in Hands /\ (\A s \in Requests : Honest(s)') /\ AloneInWriting'
    BY <2>1, <2>2, <2>3, GoOK
  <2>5. RestOK'
    BY <1>1, <2>1, RestKept
  <2> QED  BY <1>1, <2>1, <2>4, <2>5, TypeParts DEF IInv
<1>4. ASSUME \/ \E r \in Requests : Panic(r) \/ Expire(r)
             \/ Signal \/ CloseBegins \/ Stop
      PROVE  IInv'
  <2>1. RestOK' /\ UNCHANGED <<inputs, hand, answer, database, audit>>
    BY <1>1, <1>4 DEF Panic, Expire, Signal, CloseBegins, Stop, RestOK, inputs, database
  <2>2. hand' \in Hands /\ audit' \in Audits
    BY <1>1, <2>1
  <2> QED  BY <2>1, <2>2, NothingOK, TypeParts DEF IInv
<1> QED
  BY <1>2, <1>3, <1>4, HandlerStepOK, DatabaseStepOK, AnswerStepOK, AuditStepOK DEF Next

LEMMA InvariantOK == Spec => []IInv
BY InitOK, StepOK, PTL DEF Spec

-----------------------------------------------------------------------------
\* The shell's state is well typed.
THEOREM TypeCorrect == Spec => []TypeOK
BY InvariantOK, PTL DEF IInv

\* "ok" is answered only for a change that is in the database and "refused" only
\* to a request that has not made it and never will, however deadline, commit,
\* retries and answer race.
THEOREM AnswerCorrect == Spec => []AnswerTellsTruth
<1>1. IInv => AnswerTellsTruth
  BY DEF IInv, Honest, HandlerHonest, AnswerHonest, AnswerTellsTruth, Sent
<1> QED  BY <1>1, InvariantOK, PTL

\* However many requests ask for a change, and however often a COMMIT is decided
\* after its client has given up, it is made once.
THEOREM RetryCorrect == Spec => []MadeOnce
<1>1. IInv => MadeOnce
  BY DEF IInv, AloneInWriting
<1> QED  BY <1>1, InvariantOK, PTL

\* Once past the audit middleware every change has a record under way or
\* decided, and none says that there is no change.
THEOREM AuditCorrect == Spec => []ChangesAreAudited
<1>1. IInv => ChangesAreAudited
  BY DEF IInv, TypeOK, Honest, ChangeAudited, ChangesAreAudited, Sent
<1> QED  BY <1>1, InvariantOK, PTL
=============================================================================
