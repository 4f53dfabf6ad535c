-------------------------- MODULE TaskCache_proofs --------------------------
(***************************************************************************)
(* The task lock and the task cache, for any number of requests, any       *)
(* lifetimes and any deadline.                                             *)
(***************************************************************************)
EXTENDS TaskCache, TLAPS

(* What is known of a request r in state q. *)

\* Which operations reach which steps.
OpsOK(q) ==
    /\ q.pc \in {"lookup", "load"} => q.op = "get"
    /\ q.pc = "commit" => q.op \in {"create", "transition"}
    /\ q.pc = "acquire" => q.op = "transition"

Inside(q) ==
    q.op = "transition" /\ q.pc \in {"commit", "write", "release"} /\ now < q.locked + LockTTL

\* While the lifetime of its lock lasts, the lock is the request's.
LockOK(q, r) == Inside(q) => lock = [owner |-> r, until |-> q.locked + LockTTL]

\* A row about to be cached was the newest when the request came, or since.
FreshOK(q) ==
    q.pc = "write" =>
        /\ q.row \in 1 .. version
        /\ q.row < version => q.started <= changedAt[q.row + 1]

OrderOK(q) ==
    Inside(q) /\ q.pc = "write" =>
        \A v \in q.row + 1 .. version : changedBy[v] # "locked"

ReqOK(q, r) ==
    /\ q \in Request /\ q.started <= now
    /\ OpsOK(q) /\ LockOK(q, r) /\ FreshOK(q) /\ OrderOK(q)

\* What is in the cache was replaced, if at all, not long before it was put
\* there, and stays no longer than its lifetime.
CacheOK ==
    cache # NoEntry =>
        /\ cache.row \in 1 .. version
        /\ now < cache.until /\ cache.until <= now + CacheTTL
        /\ cache.row < version => cache.until <= changedAt[cache.row + 1] + Deadline + CacheTTL

StateOK ==
    /\ now       \in 0 .. MaxTime
    /\ version   \in 0 .. MaxVersion
    /\ changedAt \in [1 .. MaxVersion -> 0 .. MaxTime]
    /\ changedBy \in [1 .. MaxVersion -> {"locked", "unlocked"}]
    /\ cache     \in [row : 0 .. MaxVersion, until : Nat]
    /\ lock      \in [owner : Requests \cup {"nobody"}, until : Nat]
    /\ req       \in [Requests -> Request]

IInv ==
    /\ StateOK
    /\ CacheOK
    /\ \A r \in Requests : ReqOK(req[r], r)

LEMMA Numbers ==
    LockTTL \in Nat /\ CacheTTL \in Nat /\ Deadline \in Nat /\ MaxVersion \in Nat /\ MaxTime \in Nat
    /\ LockTTL > 0 /\ CacheTTL > 0
BY TaskCacheAssumption

\* The arithmetic of the cache: what is cached late was replaced late.
LEMMA Sums ==
    ASSUME NEW n \in Int, NEW u \in Int, NEW c \in Int, NEW s \in Int,
           NEW C \in Nat, NEW D \in Nat
    PROVE  /\ u <= n + C => u <= n + D + C
           /\ n < u /\ u <= c + D + C => n - c <= C + D
           /\ s <= c /\ n <= s + D => n + C <= c + D + C
OBVIOUS

-----------------------------------------------------------------------------
LEMMA IdleOK ==
    ASSUME IInv  PROVE \A r \in Requests : ReqOK(Idle, r) /\ ReqOK(Done, r)
<1>1. Done = [pc |-> "done", op |-> "none", started |-> 0, locked |-> 0, row |-> 0]
  BY DEF Done, Idle
<1>2. now \in 0 .. MaxTime /\ 0 <= now /\ 0 \in 0 .. MaxTime /\ 0 \in 0 .. MaxVersion
  BY Numbers DEF IInv, StateOK
<1>3. Idle \in Request /\ Done \in Request
  BY <1>1, <1>2 DEF Idle, Request
<1>4. /\ Idle.started = 0 /\ Idle.pc = "idle" /\ Idle.op = "none"
      /\ Done.started = 0 /\ Done.pc = "done" /\ Done.op = "none"
  BY <1>1 DEF Idle
<1> QED
  BY <1>2, <1>3, <1>4 DEF ReqOK, OpsOK, LockOK, Inside, FreshOK, OrderOK

LEMMA InitOK == Init => IInv
<1> SUFFICES ASSUME Init  PROVE IInv
  OBVIOUS
<1>1. StateOK /\ CacheOK
  BY Numbers DEF Init, StateOK, CacheOK, NoEntry, NoLock, Idle, Request
<1>2. ASSUME NEW r \in Requests  PROVE ReqOK(req[r], r)
  BY <1>1, Numbers
     DEF StateOK, Init, ReqOK, Idle, Request, OpsOK, LockOK, Inside, FreshOK, OrderOK
<1> QED  BY <1>1, <1>2 DEF IInv

\* A step of one request that changes neither rows, lock nor cache.
LEMMA RequestStep ==
    ASSUME IInv, NEW r \in Requests, NEW q,
           req' = [req EXCEPT ![r] = q], ReqOK(q, r),
           UNCHANGED <<now, rowVars, cache, lock>>
    PROVE  IInv'
<1>1. q \in Request
  BY DEF ReqOK
<1>2. StateOK' /\ CacheOK'
  BY <1>1 DEF IInv, StateOK, CacheOK, rowVars
<1>3. ASSUME NEW s \in Requests  PROVE ReqOK(req'[s], s)
  BY <1>1 DEF IInv, StateOK
<1>4. ASSUME NEW s \in Requests  PROVE ReqOK(req[s], s)'
  BY <1>3 DEF ReqOK, OpsOK, LockOK, Inside, FreshOK, OrderOK, rowVars
<1> QED  BY <1>2, <1>4 DEF IInv

\* What a request does when it is done with the row and the cache.
LEMMA LeaveOK ==
    ASSUME IInv, NEW r \in Requests, req[r].pc \in {"commit", "write"}
    PROVE  ReqOK(Leave(r), r)
<1>1. req[r] \in Request /\ ReqOK(req[r], r)
  BY DEF IInv, StateOK
<1>2. ReqOK(Done, r) /\ 0 \in 0 .. MaxVersion /\ 0 \in 0 .. MaxTime /\ 0 <= now
  BY IdleOK, Numbers DEF IInv, StateOK
<1>3. CASE req[r].op = "transition"
  <2>1. PICK q : q = [req[r] EXCEPT !.pc = "release", !.row = 0, !.started = 0]
    OBVIOUS
  <2>2. /\ q \in Request /\ q.pc = "release" /\ q.started = 0
        /\ q.op = req[r].op /\ q.locked = req[r].locked
    BY <1>1, <1>2, <2>1 DEF Request
  <2>3. LockOK(q, r)
    BY <1>1, <2>2 DEF ReqOK, LockOK, Inside
  <2> QED
    BY <1>2, <1>3, <2>1, <2>2, <2>3 DEF Leave, ReqOK, OpsOK, FreshOK, OrderOK
<1>4. CASE req[r].op # "transition"
  BY <1>2, <1>4 DEF Leave
<1> QED  BY <1>3, <1>4

\* The requests' states when the row gets a new version.
LEMMA NewVersionOK ==
    ASSUME IInv, NEW by \in {"locked", "unlocked"}, NewVersion(by),
           UNCHANGED <<now, cache, lock>>
    PROVE  /\ version' = version + 1 /\ version' \in 1 .. MaxVersion
           /\ changedAt' \in [1 .. MaxVersion -> 0 .. MaxTime]
           /\ changedBy' \in [1 .. MaxVersion -> {"locked", "unlocked"}]
           /\ \A v \in 1 .. version : changedAt'[v] = changedAt[v] /\ changedBy'[v] = changedBy[v]
           /\ changedAt'[version + 1] = now /\ changedBy'[version + 1] = by
           /\ CacheOK'
           /\ \A r \in Requests :
                /\ req'[r] = req[r]
                /\ by = "locked" => (Inside(req[r]) => req[r].pc # "write")
                => ReqOK(req[r], r)'
<1> DEFINE By == {"locked", "unlocked"}
<1>1. /\ version \in 0 .. MaxVersion /\ version < MaxVersion /\ now \in 0 .. MaxTime
      /\ version' = version + 1 /\ version' \in 1 .. MaxVersion
      /\ changedAt \in [1 .. MaxVersion -> 0 .. MaxTime]
      /\ changedBy \in [1 .. MaxVersion -> By]
      /\ changedAt' = [changedAt EXCEPT ![version + 1] = now]
      /\ changedBy' = [changedBy EXCEPT ![version + 1] = by]
  BY Numbers DEF IInv, StateOK, NewVersion
<1>2. /\ changedAt' \in [1 .. MaxVersion -> 0 .. MaxTime]
      /\ changedBy' \in [1 .. MaxVersion -> By]
      /\ changedAt'[version'] = now /\ changedBy'[version'] = by
      /\ \A v \in 1 .. version : changedAt'[v] = changedAt[v] /\ changedBy'[v] = changedBy[v]
  BY <1>1, Numbers
<1>3. CacheOK'
  <2> SUFFICES ASSUME cache # NoEntry
               PROVE  /\ cache.row \in 1 .. version'
                      /\ now < cache.until /\ cache.until <= now + CacheTTL
                      /\ cache.row < version' =>
                            cache.until <= changedAt'[cache.row + 1] + Deadline + CacheTTL
    BY DEF CacheOK
  <2>1. /\ cache.row \in 1 .. version /\ now < cache.until /\ cache.until <= now + CacheTTL
        /\ cache.row < version => cache.until <= changedAt[cache.row + 1] + Deadline + CacheTTL
        /\ cache.until \in Nat
    BY DEF IInv, CacheOK, StateOK
  <2>2. CASE cache.row = version
    <3>1. changedAt'[cache.row + 1] = now
      BY <1>1, <1>2, <2>2
    <3>2. cache.until <= now + Deadline + CacheTTL
      BY <1>1, <2>1, Numbers
    <3> QED  BY <1>1, <2>1, <2>2, <3>1, <3>2, Numbers
  <2>3. CASE cache.row < version
    <3>1. cache.row + 1 \in 1 .. version /\ cache.row \in 1 .. version'
      BY <1>1, <2>1, <2>3
    <3>2. changedAt'[cache.row + 1] = changedAt[cache.row + 1]
      BY <1>2, <3>1
    <3> QED  BY <2>1, <2>3, <3>1, <3>2
  <2> QED  BY <1>1, <2>1, <2>2, <2>3
<1>4. ASSUME NEW r \in Requests, req'[r] = req[r],
             by = "locked" => (Inside(req[r]) => req[r].pc # "write")
      PROVE  ReqOK(req[r], r)'
  <2> DEFINE q == req[r]
  <2>1. ReqOK(q, r) /\ q \in Request
    BY DEF IInv, StateOK
  <2>2. q.pc = "write" => /\ q.row \in 1 .. version'
                          /\ q.row < version' => q.started <= changedAt'[q.row + 1]
    <3>1. SUFFICES ASSUME q.pc = "write"
                   PROVE  /\ q.row \in 1 .. version'
                          /\ q.row < version' => q.started <= changedAt'[q.row + 1]
      OBVIOUS
    <3>2. /\ q.row \in 1 .. version /\ q.started <= now
          /\ q.row < version => q.started <= changedAt[q.row + 1]
      BY <2>1, <3>1 DEF ReqOK, FreshOK
    <3>3. CASE q.row = version
      BY <1>1, <1>2, <3>2, <3>3
    <3>4. CASE q.row < version
      BY <1>1, <1>2, <3>2, <3>4
    <3> QED  BY <1>1, <3>2, <3>3, <3>4
  <2>3. Inside(q) /\ q.pc = "write" => \A v \in q.row + 1 .. version' : changedBy'[v] # "locked"
    <3> SUFFICES ASSUME Inside(q), q.pc = "write", NEW v \in q.row + 1 .. version'
                 PROVE  changedBy'[v] # "locked"
      OBVIOUS
    <3>1. q.row \in 1 .. version /\ \A u \in q.row + 1 .. version : changedBy[u] # "locked"
      BY <2>1 DEF ReqOK, FreshOK, OrderOK
    <3>2. CASE v = version'
      BY <1>2, <1>4, <3>2
    <3>3. CASE v # version'
      BY <1>1, <1>2, <3>1, <3>3
    <3> QED  BY <3>2, <3>3
  <2> QED
    BY <1>4, <2>1, <2>2, <2>3 DEF ReqOK, OpsOK, LockOK, Inside, FreshOK, OrderOK
<1> QED  BY <1>1, <1>2, <1>3, <1>4

\* The lock has one owner: two requests inside it are the same.
LEMMA OneInside ==
    ASSUME IInv, NEW r \in Requests, NEW s \in Requests, Inside(req[r]), Inside(req[s])
    PROVE  r = s
<1>1. lock = [owner |-> r, until |-> req[r].locked + LockTTL]
  BY DEF IInv, ReqOK, LockOK
<1>2. lock = [owner |-> s, until |-> req[s].locked + LockTTL]
  BY DEF IInv, ReqOK, LockOK
<1>3. lock.owner = r /\ lock.owner = s
  BY <1>1, <1>2
<1> QED  BY <1>3

-----------------------------------------------------------------------------
(* One lemma per group of actions.                                         *)

LEMMA PlainStepsOK ==
    ASSUME IInv, NEW r \in Requests,
           \/ \E op \in {"create", "transition", "get"} : Begin(r, op)
           \/ Refuse(r) \/ AcquireFails(r) \/ NoChange(r) \/ SetJSONFails(r)
           \/ Hit(r) \/ Miss(r) \/ Load(r) \/ LoadFails(r)
    PROVE  IInv'
<1>0. req[r] \in Request /\ ReqOK(req[r], r) /\ now \in 0 .. MaxTime /\ version \in 0 .. MaxVersion
  BY DEF IInv, StateOK
<1>1. ASSUME NEW op \in {"create", "transition", "get"}, Begin(r, op)  PROVE IInv'
  <2> DEFINE q == [pc |-> FirstStep(op), op |-> op, started |-> now, locked |-> 0, row |-> 0]
  <2>1. ReqOK(q, r)
    BY <1>0, Numbers
       DEF FirstStep, ReqOK, Request, OpsOK, LockOK, Inside, FreshOK, OrderOK
  <2>2. req' = [req EXCEPT ![r] = q] /\ UNCHANGED <<now, rowVars, cache, lock>>
    BY <1>1 DEF Begin
  <2> HIDE DEF q
  <2> QED  BY <2>1, <2>2, RequestStep
<1>2. CASE Refuse(r) \/ AcquireFails(r) \/ Hit(r) \/ LoadFails(r)
  BY <1>2, IdleOK, RequestStep DEF Refuse, AcquireFails, Hit, LoadFails, Finish
<1>3. CASE NoChange(r) \/ SetJSONFails(r)
  <2>1. /\ req' = [req EXCEPT ![r] = Leave(r)] /\ UNCHANGED <<now, rowVars, cache, lock>>
        /\ req[r].pc \in {"commit", "write"}
    BY <1>3 DEF NoChange, SetJSONFails, At
  <2> QED  BY <2>1, LeaveOK, RequestStep
<1>4. CASE Miss(r)
  <2> DEFINE q == [req[r] EXCEPT !.pc = "load"]
  <2>1. ReqOK(q, r)
    BY <1>0, <1>4 DEF Miss, At, ReqOK, Request, OpsOK, LockOK, Inside, FreshOK, OrderOK
  <2>2. req' = [req EXCEPT ![r] = q] /\ UNCHANGED <<now, rowVars, cache, lock>>
    BY <1>0, <1>4 DEF Miss, Request, IInv, StateOK
  <2> HIDE DEF q
  <2> QED  BY <2>1, <2>2, RequestStep
<1>5. CASE Load(r)
  <2>1. PICK q : q = [req[r] EXCEPT !.pc = "write", !.row = version]
    OBVIOUS
  <2>2. /\ req' = [req EXCEPT ![r] = q] /\ UNCHANGED <<now, rowVars, cache, lock>>
        /\ req[r].pc = "load" /\ version > 0
    BY <1>5, <2>1 DEF Load, At
  <2>3. /\ q \in Request /\ q.pc = "write" /\ q.row = version /\ q.op = req[r].op
        /\ q.started = req[r].started
    BY <1>0, <2>1, Numbers DEF Request
  <2>4. q.op = "get" /\ q.started <= now
    BY <1>0, <2>2, <2>3 DEF ReqOK, OpsOK
  <2>5. version \in 1 .. version
    BY <1>0, <2>2, Numbers
  <2>6. ReqOK(q, r)
    BY <2>3, <2>4, <2>5 DEF ReqOK, OpsOK, LockOK, Inside, FreshOK, OrderOK
  <2> QED  BY <2>2, <2>6, RequestStep
<1> QED  BY <1>1, <1>2, <1>3, <1>4, <1>5

LEMMA AcquireOK ==
    ASSUME IInv, NEW r \in Requests, Acquire(r) \/ AcquireLost(r)
    PROVE  IInv'
<1>0. /\ req \in [Requests -> Request] /\ now \in 0 .. MaxTime
      /\ req[r] \in Request /\ \A s \in Requests : ReqOK(req[s], s)
  BY DEF IInv, StateOK
<1>1. /\ lock = NoLock /\ lock' = [owner |-> r, until |-> now + LockTTL]
      /\ UNCHANGED <<now, rowVars, cache>> /\ req[r].pc = "acquire"
  BY DEF Acquire, AcquireLost, At
<1>2. \E q : req' = [req EXCEPT ![r] = q] /\ ReqOK(q, r)'
  <2>1. CASE Acquire(r)
    <3>1. PICK q : q = [req[r] EXCEPT !.pc = "commit", !.locked = now]
      OBVIOUS
    <3>2. req' = [req EXCEPT ![r] = q]
      BY <2>1, <3>1 DEF Acquire
    <3>3. /\ q \in Request /\ q.pc = "commit" /\ q.op = req[r].op /\ q.locked = now
          /\ q.started = req[r].started
      BY <1>0, <3>1 DEF Request
    <3>4. q.op = "transition" /\ q.started <= now'
      BY <1>0, <1>1, <3>3 DEF ReqOK, OpsOK
    <3>5. LockOK(q, r)'
      BY <1>1, <3>3 DEF LockOK
    <3>6. ReqOK(q, r)'
      BY <3>3, <3>4, <3>5 DEF ReqOK, OpsOK, Inside, FreshOK, OrderOK
    <3> QED  BY <3>2, <3>6
  <2>2. CASE AcquireLost(r)
    <3>1. ReqOK(Done, r) /\ Done.pc = "done" /\ Done.op = "none"
      BY IdleOK DEF Done, Idle
    <3>2. ReqOK(Done, r)'
      BY <1>1, <3>1 DEF Done, Idle, ReqOK, OpsOK, LockOK, Inside, FreshOK, OrderOK
    <3>3. req' = [req EXCEPT ![r] = Done]
      BY <2>2 DEF AcquireLost, Finish
    <3> QED  BY <3>2, <3>3
  <2> QED  BY <2>1, <2>2
<1>3. PICK q : req' = [req EXCEPT ![r] = q] /\ ReqOK(q, r)'
  BY <1>2
<1>4. ASSUME NEW s \in Requests, s # r  PROVE ReqOK(req[s], s)'
  <2>1. req'[s] = req[s]
    BY <1>0, <1>3, <1>4
  <2>2. ~Inside(req[s])
    BY <1>0, <1>1, TaskCacheAssumption DEF ReqOK, LockOK, NoLock
  <2> QED
    BY <1>0, <1>1, <2>1, <2>2 DEF ReqOK, OpsOK, LockOK, Inside, FreshOK, OrderOK, rowVars
<1>5. StateOK' /\ CacheOK'
  <2>1. q \in Request
    BY <1>3 DEF ReqOK
  <2>2. lock' \in [owner : Requests \cup {"nobody"}, until : Nat]
    BY <1>0, <1>1, Numbers
  <2> QED  BY <1>1, <1>3, <2>1, <2>2 DEF IInv, StateOK, CacheOK, rowVars
<1>6. ReqOK(req[r], r)'
  <2>1. req'[r] = q
    BY <1>0, <1>3
  <2> QED  BY <1>3, <2>1 DEF ReqOK, OpsOK, LockOK, Inside, FreshOK, OrderOK
<1> QED  BY <1>4, <1>5, <1>6 DEF IInv

LEMMA ReleaseOK ==
    ASSUME IInv, NEW r \in Requests, Release(r)
    PROVE  IInv'
<1>0. /\ req \in [Requests -> Request] /\ \A s \in Requests : ReqOK(req[s], s)
  BY DEF IInv, StateOK
<1>1. /\ lock' = lock \/ (lock.owner = r /\ lock' = NoLock)
      /\ UNCHANGED <<now, rowVars, cache>>
      /\ req' = [req EXCEPT ![r] = Done]
  BY DEF Release, Finish
<1>2. ReqOK(Done, r)'
  BY <1>1, IdleOK DEF Done, Idle, ReqOK, Request, OpsOK, LockOK, Inside, FreshOK, OrderOK
<1>3. Done \in Request
  BY <1>2 DEF ReqOK
<1>4. ASSUME NEW s \in Requests, s # r  PROVE ReqOK(req[s], s)'
  <2>1. req'[s] = req[s]
    BY <1>0, <1>1, <1>4
  <2>2. Inside(req[s]) => lock' = lock
    BY <1>0, <1>1, <1>4 DEF ReqOK, LockOK
  <2> QED
    BY <1>0, <1>1, <2>1, <2>2 DEF ReqOK, OpsOK, LockOK, Inside, FreshOK, OrderOK, rowVars
<1>5. StateOK' /\ CacheOK'
  BY <1>1, <1>3 DEF IInv, StateOK, CacheOK, rowVars, NoLock
<1>6. ReqOK(req[r], r)'
  BY <1>0, <1>1, <1>2
<1> QED  BY <1>4, <1>5, <1>6 DEF IInv

LEMMA CommitOK ==
    ASSUME IInv, NEW r \in Requests, Commit(r)
    PROVE  IInv'
<1>0. /\ req \in [Requests -> Request] /\ now \in 0 .. MaxTime /\ version \in 0 .. MaxVersion
      /\ req[r] \in Request /\ \A s \in Requests : ReqOK(req[s], s)
  BY DEF IInv, StateOK
<1>1. PICK q : q = [req[r] EXCEPT !.pc = "write", !.row = version + 1]
  OBVIOUS
<1>2. PICK by : by = Protection(r)
  OBVIOUS
<1>3. /\ NewVersion(by) /\ req' = [req EXCEPT ![r] = q]
      /\ UNCHANGED <<now, cache, lock>> /\ req[r].pc = "commit"
      /\ req[r].op \in {"create", "transition"}
  BY <1>0, <1>1, <1>2 DEF Commit, At, ReqOK, OpsOK
<1>4. /\ by \in {"locked", "unlocked"}
      /\ by = "locked" => Inside(req[r])
  <2>1. CASE req[r].op = "create"
    <3>1. by = "unlocked"
      BY <1>2, <2>1 DEF Protection
    <3> QED  BY <3>1
  <2>2. CASE req[r].op = "transition"
    <3>1. by \in {"locked", "unlocked"} /\ (by = "locked" => now < req[r].locked + LockTTL)
      BY <1>2, <2>2 DEF Protection
    <3> QED  BY <1>3, <2>2, <3>1 DEF Inside
  <2> QED  BY <1>3, <2>1, <2>2
<1>5. /\ version' = version + 1 /\ version' \in 1 .. MaxVersion
      /\ changedAt' \in [1 .. MaxVersion -> 0 .. MaxTime]
      /\ changedBy' \in [1 .. MaxVersion -> {"locked", "unlocked"}]
      /\ CacheOK'
  BY <1>3, <1>4, NewVersionOK
<1>6. ReqOK(q, r)'
  <2>1. /\ q \in Request /\ q.pc = "write" /\ q.row = version' /\ q.op = req[r].op
        /\ q.started = req[r].started /\ q.locked = req[r].locked
    <3>1. version + 1 \in 0 .. MaxVersion
      BY <1>5, Numbers
    <3> QED  BY <1>0, <1>1, <1>5, <3>1 DEF Request
  <2>2. LockOK(req[r], r) /\ q.started <= now'
    BY <1>0, <1>3, <2>1 DEF ReqOK
  <2>3. LockOK(q, r)'
    BY <1>3, <2>1, <2>2 DEF LockOK, Inside
  <2>4. FreshOK(q)' /\ OrderOK(q)'
    <3>1. version' \in 1 .. version' /\ ~(version' < version')
      BY <1>5, Numbers
    <3>2. version' + 1 .. version' = {}
      BY <3>1
    <3> QED  BY <2>1, <3>1, <3>2 DEF FreshOK, OrderOK
  <2> QED  BY <2>1, <2>2, <2>3, <2>4 DEF ReqOK, OpsOK
<1>7. ASSUME NEW s \in Requests, s # r  PROVE ReqOK(req[s], s)'
  <2>1. req'[s] = req[s]
    BY <1>0, <1>3, <1>7
  <2>2. by = "locked" => (Inside(req[s]) => req[s].pc # "write")
    BY <1>4, <1>7, OneInside
  <2> QED  BY <1>3, <1>4, <2>1, <2>2, NewVersionOK
<1>8. ReqOK(req[r], r)'
  <2>1. req'[r] = q
    BY <1>0, <1>3
  <2> QED  BY <1>6, <2>1 DEF ReqOK, OpsOK, LockOK, Inside, FreshOK, OrderOK
<1>9. StateOK'
  <2>1. q \in Request
    BY <1>6 DEF ReqOK
  <2> QED  BY <1>3, <1>5, <2>1 DEF IInv, StateOK
<1> QED  BY <1>5, <1>7, <1>8, <1>9 DEF IInv

LEMMA PythonWriteOK ==
    ASSUME IInv, PythonWrite
    PROVE  IInv'
<1>1. NewVersion("unlocked") /\ UNCHANGED <<now, cache, lock, req>>
  BY DEF PythonWrite
<1>2. CacheOK' /\ version' \in 1 .. MaxVersion
      /\ changedAt' \in [1 .. MaxVersion -> 0 .. MaxTime]
      /\ changedBy' \in [1 .. MaxVersion -> {"locked", "unlocked"}]
      /\ \A r \in Requests : ReqOK(req[r], r)'
  BY <1>1, NewVersionOK
<1> QED  BY <1>1, <1>2 DEF IInv, StateOK

LEMMA SetJSONOK ==
    ASSUME IInv, NEW r \in Requests, SetJSON(r)
    PROVE  IInv'
<1>0. /\ req \in [Requests -> Request] /\ now \in 0 .. MaxTime /\ version \in 0 .. MaxVersion
      /\ changedAt \in [1 .. MaxVersion -> 0 .. MaxTime]
      /\ \A s \in Requests : ReqOK(req[s], s)
  BY DEF IInv, StateOK
<1>1. /\ req[r].pc = "write" /\ now <= req[r].started + Deadline
      /\ cache' = [row |-> req[r].row, until |-> now + CacheTTL]
      /\ req' = [req EXCEPT ![r] = Leave(r)]
      /\ UNCHANGED <<now, rowVars, lock>>
  BY DEF SetJSON, At, InTime, PutInCache
<1>2. /\ req[r].row \in 1 .. version /\ req[r].started \in 0 .. MaxTime
      /\ req[r].row < version => req[r].started <= changedAt[req[r].row + 1]
  BY <1>0, <1>1 DEF ReqOK, FreshOK, Request
<1>3. CacheOK'
  <2>1. req[r].row < version => now + CacheTTL <= changedAt[req[r].row + 1] + Deadline + CacheTTL
    <3> SUFFICES ASSUME req[r].row < version
                 PROVE  now + CacheTTL <= changedAt[req[r].row + 1] + Deadline + CacheTTL
      OBVIOUS
    <3>1. req[r].row + 1 \in 1 .. MaxVersion
      BY <1>0, <1>2, Numbers
    <3>2. changedAt[req[r].row + 1] \in 0 .. MaxTime
      BY <1>0, <3>1
    <3>3. req[r].started <= changedAt[req[r].row + 1] /\ now <= req[r].started + Deadline
      BY <1>1, <1>2
    <3>4. now \in Int /\ req[r].started \in Int /\ changedAt[req[r].row + 1] \in Int
      BY <1>0, <1>2, <3>2, Numbers
    <3> QED  BY <3>3, <3>4, Sums, Numbers
  <2> QED  BY <1>0, <1>1, <1>2, <2>1, Numbers DEF CacheOK, rowVars
<1>4. ReqOK(Leave(r), r)
  BY <1>1, LeaveOK
<1>5. ASSUME NEW s \in Requests  PROVE ReqOK(req'[s], s)
  BY <1>0, <1>1, <1>4
<1>6. ASSUME NEW s \in Requests  PROVE ReqOK(req[s], s)'
  BY <1>1, <1>5 DEF ReqOK, OpsOK, LockOK, Inside, FreshOK, OrderOK, rowVars
<1>7. StateOK'
  <2>1. Leave(r) \in Request
    BY <1>4 DEF ReqOK
  <2>2. cache' \in [row : 0 .. MaxVersion, until : Nat]
    BY <1>0, <1>1, <1>2, Numbers
  <2> QED  BY <1>1, <2>1, <2>2 DEF IInv, StateOK, rowVars
<1> QED  BY <1>3, <1>6, <1>7 DEF IInv

LEMMA RestartOK ==
    ASSUME IInv, Restart
    PROVE  IInv'
<1>1. \A s \in Requests : req'[s] \in {Idle, Done}
  BY DEF Restart
<1>2. \A s \in Requests : ReqOK(req'[s], s)
  BY <1>1, IdleOK
<1>3. ASSUME NEW s \in Requests  PROVE ReqOK(req[s], s)'
  BY <1>2 DEF Restart, ReqOK, OpsOK, LockOK, Inside, FreshOK, OrderOK, rowVars
<1>4. req' \in [Requests -> Request]
  BY IdleOK DEF Restart, ReqOK
<1> QED  BY <1>3, <1>4 DEF Restart, IInv, StateOK, CacheOK, rowVars

LEMMA TickOK ==
    ASSUME IInv, Tick
    PROVE  IInv'
<1>0. /\ req \in [Requests -> Request] /\ now \in 0 .. MaxTime
      /\ cache \in [row : 0 .. MaxVersion, until : Nat]
      /\ lock \in [owner : Requests \cup {"nobody"}, until : Nat]
      /\ \A s \in Requests : ReqOK(req[s], s)
  BY DEF IInv, StateOK
<1>1. /\ now' = now + 1 /\ now' \in 0 .. MaxTime
      /\ cache' = IF cache.until <= now' THEN NoEntry ELSE cache
      /\ lock'  = IF lock.until <= now' THEN NoLock ELSE lock
      /\ UNCHANGED <<rowVars, req>>
  BY <1>0, Numbers DEF Tick
<1>2. CacheOK'
  BY <1>0, <1>1, Numbers DEF IInv, CacheOK, rowVars
<1>3. ASSUME NEW s \in Requests  PROVE ReqOK(req[s], s)'
  <2> DEFINE q == req[s]
  <2>1. q \in Request /\ ReqOK(q, s)
    BY <1>0
  <2>2. now' < q.locked + LockTTL => now < q.locked + LockTTL
    BY <1>0, <1>1, <2>1, Numbers DEF Request
  <2>3. LockOK(q, s)'
    BY <1>0, <1>1, <2>1, <2>2, Numbers DEF ReqOK, LockOK, Inside, Request
  <2>4. q.started <= now'
    BY <1>0, <1>1, <2>1 DEF ReqOK, Request
  <2> QED
    BY <1>1, <2>1, <2>2, <2>3, <2>4 DEF ReqOK, OpsOK, Inside, FreshOK, OrderOK, rowVars
<1>4. StateOK'
  <2>1. cache' \in [row : 0 .. MaxVersion, until : Nat]
    BY <1>0, <1>1, Numbers DEF NoEntry
  <2>2. lock' \in [owner : Requests \cup {"nobody"}, until : Nat]
    BY <1>0, <1>1 DEF NoLock
  <2> QED  BY <1>1, <2>1, <2>2 DEF IInv, StateOK, rowVars
<1> QED  BY <1>2, <1>3, <1>4 DEF IInv

LEMMA StepOK ==
    ASSUME IInv, [Next]_vars
    PROVE  IInv'
<1>1. CASE UNCHANGED vars
  BY <1>1
     DEF vars, rowVars, IInv, StateOK, CacheOK, ReqOK, OpsOK, LockOK, Inside, FreshOK, OrderOK
<1>2. ASSUME NEW r \in Requests,
             \/ \E op \in {"create", "transition", "get"} : Begin(r, op)
             \/ Acquire(r) \/ Refuse(r) \/ AcquireFails(r) \/ AcquireLost(r) \/ Release(r)
             \/ Commit(r) \/ NoChange(r) \/ SetJSON(r) \/ SetJSONFails(r)
             \/ Hit(r) \/ Miss(r) \/ Load(r) \/ LoadFails(r)
      PROVE  IInv'
  BY <1>2, PlainStepsOK, AcquireOK, ReleaseOK, CommitOK, SetJSONOK
<1>3. CASE PythonWrite \/ Restart \/ Tick
  BY <1>3, PythonWriteOK, RestartOK, TickOK
<1> QED  BY <1>1, <1>2, <1>3 DEF Next

LEMMA InvariantOK == Spec => []IInv
BY InitOK, StepOK, PTL DEF Spec

-----------------------------------------------------------------------------
\* Well typed; only committed rows are cached or about to be.
THEOREM TypeCorrect == Spec => []TypeOK
<1>1. IInv => TypeOK
  BY DEF IInv, StateOK, CacheOK, ReqOK, FreshOK, TypeOK, At
<1> QED  BY <1>1, InvariantOK, PTL

\* Of two requests inside the lock, one has outrun its lifetime.
THEOREM LockCorrect == Spec => []LockExcludes
<1>1. IInv => LockExcludes
  BY OneInside DEF LockExcludes, Protected, Holds, Inside
<1> QED  BY <1>1, InvariantOK, PTL

\* A cached task was the task at some time in the last CacheTTL + Deadline.
THEOREM StalenessCorrect == Spec => []BoundedStaleness
<1>1. IInv => BoundedStaleness
  <2> SUFFICES ASSUME IInv, cache # NoEntry
               PROVE  Age(cache.row) <= CacheTTL + Deadline
    BY DEF BoundedStaleness
  <2>1. /\ cache.row \in 1 .. version /\ version \in 0 .. MaxVersion
        /\ now \in 0 .. MaxTime /\ cache.until \in Nat
        /\ changedAt \in [1 .. MaxVersion -> 0 .. MaxTime]
        /\ now < cache.until
        /\ cache.row < version => cache.until <= changedAt[cache.row + 1] + Deadline + CacheTTL
    BY DEF IInv, StateOK, CacheOK
  <2>2. CASE cache.row < version
    <3>1. changedAt[cache.row + 1] \in 0 .. MaxTime
      BY <2>1, <2>2, Numbers
    <3>2. Age(cache.row) = now - changedAt[cache.row + 1]
      BY <2>2 DEF Age
    <3>3. now \in Int /\ cache.until \in Int /\ changedAt[cache.row + 1] \in Int
      BY <2>1, <3>1, Numbers
    <3>4. now - changedAt[cache.row + 1] <= CacheTTL + Deadline
      BY <2>1, <2>2, <3>3, Sums, Numbers
    <3> QED  BY <3>2, <3>4
  <2>3. CASE ~(cache.row < version)
    BY <2>3, Numbers DEF Age
  <2> QED  BY <2>2, <2>3
<1> QED  BY <1>1, InvariantOK, PTL

\* Under a living lock nobody else's locked change overtakes the write-through.
THEOREM OrderCorrect == Spec => []OrderedWriteThrough
<1>1. IInv => OrderedWriteThrough
  BY DEF IInv, ReqOK, OrderOK, Inside, OrderedWriteThrough, Protected, Holds, At
<1> QED  BY <1>1, InvariantOK, PTL
=============================================================================
