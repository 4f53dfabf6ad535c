------------------------ MODULE RobotReports_proofs ------------------------
(***************************************************************************)
(* The promises about a robot's reports, for any numbers of handlers,      *)
(* zones, requests and restarts and any lifetimes, cooldown and deadline.  *)
(***************************************************************************)
EXTENDS RobotReports, TLAPS

-----------------------------------------------------------------------------
(* RobotStatus: the row's name and the cached status.                      *)

\* Every report between its read and its write of the row holds the name which
\* the last PUT gave, when that PUT came while no report did.
NameKept ==
    lastPut.alone =>
        /\ name = lastPut.by
        /\ \A q \in Requests : req[q].pc \in {"insert", "upsert"} => req[q].name = name

\* A newest status of the table.
Newest(p) == p \in DOMAIN stored /\ \A q \in DOMAIN stored : stored[q] <= stored[p]

\* A report under way, and what a request that came after the last report is
\* about to cache.
HeldOK(q) ==
    /\ q.pc # "idle" => q.started <= clock
    /\ q.pc = "insert" => q.stamp \in Stamps
    /\ q.pc = "upsert" => q.started <= storedAt
    /\ q.pc = "cache" /\ q.started > storedAt => Newest(q.report)

\* What is cached, when it was put there late enough.
CachedOK ==
    /\ cache.until <= clock + CacheTTL
    /\ cache # Api!NoEntry => clock <= cache.until
    /\ cache.until > storedAt + CacheTTL + Deadline => Newest(cache.report)

StatusInv ==
    /\ Api!TypeOK
    /\ NameKept
    /\ storedAt <= clock
    /\ CachedOK
    /\ \A q \in Requests : HeldOK(req[q])

StatusStates == [pc : {"idle", "put", "read", "insert", "upsert", "cache", "lookup", "load", "done"},
                 started : 0 .. MaxTime, stamp : Stamps \cup {0},
                 name : Api!Callers, report : Api!Callers]

LEMMA StatusInitOK == ASSUME Api!StatusAssumption, Api!Init PROVE StatusInv
<1>1. Api!TypeOK
  BY DEF Api!StatusAssumption, Api!Init, Api!TypeOK, Api!Idle, Api!Callers, Api!Nobody, Api!Earlier, Api!NoEntry
<1>2. NameKept /\ CachedOK /\ storedAt <= clock /\ \A q \in Requests : HeldOK(req[q])
  BY DEF Api!StatusAssumption, Api!Init, Api!Idle, Api!NoEntry, NameKept, CachedOK, HeldOK
<1> QED  BY <1>1, <1>2 DEF StatusInv

\* A step that replaces the record of one request.
LEMMA StatusOne ==
    ASSUME NEW S, req \in [Requests -> S], NEW r \in Requests, NEW s \in S,
           req' = [req EXCEPT ![r] = s]
    PROVE  /\ req' \in [Requests -> S]
           /\ req'[r] = s
           /\ \A q \in Requests \ {r} : req'[q] = req[q]
OBVIOUS

LEMMA StatusKnown ==
    ASSUME Api!StatusAssumption, StatusInv, NEW r \in Requests
    PROVE  /\ req[r] \in StatusStates /\ HeldOK(req[r])
           /\ clock \in 0 .. MaxTime /\ storedAt \in 0 .. MaxTime /\ storedAt <= clock
           /\ MaxTime \in Nat /\ CacheTTL \in Nat /\ Deadline \in Nat
           /\ req \in [Requests -> StatusStates]
BY DEF StatusInv, Api!TypeOK, StatusStates, Api!StatusAssumption

\* A step of a request that changes nothing but the request.
LEMMA QuietOK ==
    ASSUME Api!StatusAssumption, StatusInv, NEW r \in Requests, NEW s \in StatusStates,
           req' = [req EXCEPT ![r] = s],
           UNCHANGED <<clock, name, lastPut, stored, storedAt, cache>>,
           HeldOK(s),
           s.pc \in {"insert", "upsert"} =>
               s.name = name \/ (req[r].pc \in {"insert", "upsert"} /\ s.name = req[r].name)
    PROVE  StatusInv'
<1>1. /\ req' \in [Requests -> StatusStates]
      /\ req'[r] = s
      /\ \A q \in Requests \ {r} : req'[q] = req[q]
  BY StatusKnown, StatusOne
<1>2. Api!TypeOK'
  BY <1>1 DEF StatusInv, Api!TypeOK, StatusStates
<1>3. NameKept'
  BY <1>1 DEF StatusInv, NameKept
<1>4. CachedOK' /\ (storedAt <= clock)'
  BY DEF StatusInv, CachedOK, Newest
<1>5. ASSUME NEW q \in Requests PROVE HeldOK(req[q])'
  BY <1>1 DEF StatusInv, HeldOK, Newest
<1> QED  BY <1>2, <1>3, <1>4, <1>5 DEF StatusInv

\* What is written into a request is a state of it.
LEMMA DoneIs ==
    ASSUME Api!StatusAssumption
    PROVE  /\ Api!Idle \in StatusStates
           /\ Api!Done \in StatusStates /\ Api!Done.pc = "done" /\ Api!Done.started = 0
<1>1. Api!Done = [pc |-> "done", started |-> 0, stamp |-> 0, name |-> "nobody", report |-> "nobody"]
  BY DEF Api!Done, Api!Idle, Api!Nobody
<1>2. "nobody" \in Api!Callers /\ 0 \in 0 .. MaxTime
  BY DEF Api!Callers, Api!Nobody, Api!StatusAssumption
<1> QED  BY <1>1, <1>2 DEF StatusStates, Api!Idle, Api!Nobody

LEMMA FinishOK ==
    ASSUME Api!StatusAssumption, StatusInv, NEW r \in Requests, Api!Finish(r),
           UNCHANGED <<clock, name, lastPut, stored, storedAt, cache>>
    PROVE  StatusInv'
<1>1. clock \in 0 .. MaxTime
  BY StatusKnown
<1>2. Api!Done \in StatusStates /\ HeldOK(Api!Done) /\ Api!Done.pc = "done"
  BY <1>1, DoneIs, StatusKnown DEF HeldOK
<1> QED  BY <1>2, QuietOK DEF Api!Finish

LEMMA BeginOK ==
    ASSUME Api!StatusAssumption, StatusInv, NEW r \in Requests,
           NEW label \in {"put", "read", "lookup"}, Api!Begin(r, label)
    PROVE  StatusInv'
<1>0. PICK s : s = [Api!Idle EXCEPT !.pc = label, !.started = clock]
  OBVIOUS
<1>1. clock \in 0 .. MaxTime
  BY StatusKnown
<1>2. s \in StatusStates /\ s.pc = label /\ s.started = clock
  BY <1>0, <1>1, DoneIs DEF StatusStates
<1>3. HeldOK(s)
  BY <1>1, <1>2, StatusKnown DEF HeldOK
<1>4. req' = [req EXCEPT ![r] = s] /\ UNCHANGED <<clock, name, lastPut, stored, storedAt, cache>>
  BY <1>0 DEF Api!Begin
<1> QED  BY <1>2, <1>3, <1>4, QuietOK

\* A PUT that no report overlaps starts with every name in agreement.
LEMMA PutOK ==
    ASSUME Api!StatusAssumption, StatusInv, NEW r \in Requests, Api!Put(r)
    PROVE  StatusInv'
<1>1. clock \in 0 .. MaxTime
  BY StatusKnown
<1>2. /\ req' \in [Requests -> StatusStates]
      /\ req'[r] = Api!Done /\ Api!Done.pc = "done" /\ Api!Done.started = 0
      /\ \A q \in Requests \ {r} : req'[q] = req[q]
  BY <1>1, DoneIs, StatusKnown, StatusOne DEF Api!Put, Api!Finish
<1>3. Api!TypeOK'
  BY <1>2 DEF Api!Put, StatusInv, Api!TypeOK, StatusStates, Api!Callers
<1>4. NameKept'
  BY <1>2 DEF Api!Put, NameKept
<1>5. CachedOK' /\ (storedAt <= clock)'
  BY DEF Api!Put, StatusInv, CachedOK, Newest
<1>6. ASSUME NEW q \in Requests PROVE HeldOK(req[q])'
  BY <1>1, <1>2 DEF Api!Put, StatusInv, HeldOK, Newest
<1> QED  BY <1>3, <1>4, <1>5, <1>6 DEF StatusInv

LEMMA ReadOK ==
    ASSUME Api!StatusAssumption, StatusInv, NEW r \in Requests, Api!GetRobotByCode(r)
    PROVE  StatusInv'
<1>1. CASE name = Api!Nobody
  BY <1>1, FinishOK DEF Api!GetRobotByCode
<1>2. CASE name # Api!Nobody
  <2>1. PICK t \in Stamps :
            req' = [req EXCEPT ![r].pc = "insert", ![r].stamp = t, ![r].name = name]
    BY <1>2 DEF Api!GetRobotByCode
  <2> DEFINE s == [req[r] EXCEPT !.pc = "insert", !.stamp = t, !.name = name]
  <2>2. req[r] \in StatusStates /\ HeldOK(req[r]) /\ name \in Api!Callers /\ req[r].pc = "read"
    BY StatusKnown DEF StatusInv, Api!TypeOK, Api!GetRobotByCode, Api!At
  <2>3. /\ s \in StatusStates /\ s.pc = "insert" /\ s.name = name
        /\ s.started = req[r].started /\ s.stamp = t
    BY <2>2 DEF StatusStates
  <2>4. HeldOK(s)
    BY <2>2, <2>3 DEF HeldOK
  <2>5. req' = [req EXCEPT ![r] = s]
    BY <2>1
  <2> QED
    <3> HIDE DEF s
    <3> QED  BY <2>3, <2>4, <2>5, QuietOK DEF Api!GetRobotByCode
<1> QED  BY <1>1, <1>2

\* A new status: whatever is cached or about to be began before it.
LEMMA InsertOK ==
    ASSUME Api!StatusAssumption, StatusInv, NEW r \in Requests, Api!InsertStatusWithOutbox(r)
    PROVE  StatusInv'
<1> DEFINE s == [req[r] EXCEPT !.pc = "upsert", !.report = r]
<1>1. /\ req[r] \in StatusStates /\ HeldOK(req[r]) /\ req[r].pc = "insert"
      /\ req \in [Requests -> StatusStates]
      /\ clock \in 0 .. MaxTime /\ MaxTime \in Nat /\ CacheTTL \in Nat /\ Deadline \in Nat
  BY StatusKnown DEF Api!InsertStatusWithOutbox, Api!At
<1>2. /\ s \in StatusStates /\ s.pc = "upsert" /\ s.started = req[r].started
      /\ s.name = req[r].name
  BY <1>1 DEF StatusStates, Api!Callers
<1>3. req' = [req EXCEPT ![r] = s]
  BY DEF Api!InsertStatusWithOutbox
<1>4. /\ req' \in [Requests -> StatusStates]
      /\ req'[r] = s
      /\ \A q \in Requests \ {r} : req'[q] = req[q]
  <2> HIDE DEF s
  <2> QED  BY <1>1, <1>2, <1>3, StatusOne
<1>5. /\ storedAt' = clock /\ clock' = clock /\ name' = name /\ lastPut' = lastPut /\ cache' = cache
      /\ stored' = [q \in DOMAIN stored \cup {r} |-> IF q = r THEN req[r].stamp ELSE stored[q]]
  BY DEF Api!InsertStatusWithOutbox
<1>6. Api!TypeOK'
  <2>1. req[r].stamp \in Stamps
    BY <1>1 DEF HeldOK
  <2> QED  BY <1>1, <1>4, <1>5, <2>1 DEF StatusInv, Api!TypeOK, StatusStates
<1>7. NameKept'
  BY <1>1, <1>2, <1>4, <1>5 DEF StatusInv, NameKept
<1>8. CachedOK' /\ (storedAt <= clock)'
  <2>1. cache.until \in Nat
    BY DEF StatusInv, Api!TypeOK
  <2> QED  BY <1>1, <1>5, <2>1 DEF StatusInv, CachedOK
<1>9. ASSUME NEW q \in Requests PROVE HeldOK(req[q])'
  <2>1. HeldOK(req[q]) /\ req[q].started \in Nat /\ req[r].started <= clock
    BY <1>1, StatusKnown DEF HeldOK, StatusStates
  <2> HIDE DEF s
  <2> QED  BY <1>1, <1>2, <1>4, <1>5, <2>1 DEF HeldOK
<1> QED  BY <1>6, <1>7, <1>8, <1>9 DEF StatusInv

\* The report's write of the row: of the name it read.
LEMMA UpsertOK ==
    ASSUME Api!StatusAssumption, StatusInv, NEW r \in Requests, Api!UpsertRobot(r)
    PROVE  StatusInv'
<1> DEFINE s == [req[r] EXCEPT !.pc = "cache"]
<1>1. /\ req[r] \in StatusStates /\ HeldOK(req[r]) /\ req[r].pc = "upsert"
      /\ req \in [Requests -> StatusStates]
      /\ clock \in 0 .. MaxTime /\ storedAt \in 0 .. MaxTime
  BY StatusKnown DEF Api!UpsertRobot, Api!At
<1>2. s \in StatusStates /\ s.pc = "cache" /\ s.started = req[r].started
  BY <1>1 DEF StatusStates
<1>3. req' = [req EXCEPT ![r] = s]
  BY DEF Api!UpsertRobot
<1>4. /\ req' \in [Requests -> StatusStates]
      /\ req'[r] = s
      /\ \A q \in Requests \ {r} : req'[q] = req[q]
  <2> HIDE DEF s
  <2> QED  BY <1>1, <1>2, <1>3, StatusOne
<1>5. /\ name' = req[r].name
      /\ UNCHANGED <<clock, lastPut, stored, storedAt, cache>>
  BY DEF Api!UpsertRobot
<1> HIDE DEF s
<1>6. Api!TypeOK'
  BY <1>1, <1>4, <1>5 DEF StatusInv, Api!TypeOK, StatusStates
<1>7. NameKept'
  BY <1>1, <1>2, <1>4, <1>5 DEF StatusInv, NameKept
<1>8. CachedOK' /\ (storedAt <= clock)'
  BY <1>5 DEF StatusInv, CachedOK, Newest
<1>9. ASSUME NEW q \in Requests PROVE HeldOK(req[q])'
  <2>1. HeldOK(req[q]) /\ req[r].started <= clock /\ req[r].started <= storedAt
    BY <1>1, StatusKnown DEF HeldOK
  <2>2. req[r].started \in Nat /\ storedAt \in Nat
    BY <1>1 DEF StatusStates
  <2> QED  BY <1>1, <1>2, <1>4, <1>5, <2>1, <2>2 DEF HeldOK, Newest
<1> QED  BY <1>6, <1>7, <1>8, <1>9 DEF StatusInv

LEMMA SkipOK ==
    ASSUME Api!StatusAssumption, StatusInv, NEW r \in Requests, Api!SkipUpsert(r)
    PROVE  StatusInv'
<1> DEFINE s == [req[r] EXCEPT !.pc = "cache"]
<1>1. /\ req[r] \in StatusStates /\ HeldOK(req[r]) /\ req[r].pc = "upsert"
      /\ storedAt \in 0 .. MaxTime
  BY StatusKnown DEF Api!SkipUpsert, Api!At
<1>2. s \in StatusStates /\ s.pc = "cache" /\ s.started = req[r].started
  BY <1>1 DEF StatusStates
<1>3. req' = [req EXCEPT ![r] = s] /\ UNCHANGED <<clock, name, lastPut, stored, storedAt, cache>>
  BY DEF Api!SkipUpsert
<1> HIDE DEF s
<1>4. HeldOK(s)
  BY <1>1, <1>2 DEF HeldOK, StatusStates
<1> QED  BY <1>2, <1>3, <1>4, QuietOK

LEMMA MissOK ==
    ASSUME Api!StatusAssumption, StatusInv, NEW r \in Requests, Api!Miss(r)
    PROVE  StatusInv'
<1> DEFINE s == [req[r] EXCEPT !.pc = "load"]
<1>1. req[r] \in StatusStates /\ HeldOK(req[r]) /\ req[r].pc = "lookup"
  BY StatusKnown DEF Api!Miss, Api!At
<1>2. s \in StatusStates /\ s.pc = "load" /\ s.started = req[r].started
  BY <1>1 DEF StatusStates
<1>3. req' = [req EXCEPT ![r] = s] /\ UNCHANGED <<clock, name, lastPut, stored, storedAt, cache>>
  BY DEF Api!Miss
<1> HIDE DEF s
<1>4. HeldOK(s)
  BY <1>1, <1>2 DEF HeldOK
<1> QED  BY <1>2, <1>3, <1>4, QuietOK

LEMMA LoadOK ==
    ASSUME Api!StatusAssumption, StatusInv, NEW r \in Requests, Api!GetLatestStatus(r)
    PROVE  StatusInv'
<1>1. PICK p \in DOMAIN stored :
          /\ \A q \in DOMAIN stored : stored[q] <= stored[p]
          /\ req' = [req EXCEPT ![r].pc = "cache", ![r].report = p]
  BY DEF Api!GetLatestStatus
<1> DEFINE s == [req[r] EXCEPT !.pc = "cache", !.report = p]
<1>2. /\ req[r] \in StatusStates /\ HeldOK(req[r]) /\ req[r].pc = "load"
      /\ p \in Api!Callers /\ Newest(p)
  BY <1>1, StatusKnown DEF Api!GetLatestStatus, Api!At, StatusInv, Api!TypeOK, Api!Callers, Newest
<1>3. s \in StatusStates /\ s.pc = "cache" /\ s.started = req[r].started /\ s.report = p
  BY <1>2 DEF StatusStates
<1>4. req' = [req EXCEPT ![r] = s] /\ UNCHANGED <<clock, name, lastPut, stored, storedAt, cache>>
  BY <1>1 DEF Api!GetLatestStatus
<1> HIDE DEF s
<1>5. HeldOK(s)
  BY <1>2, <1>3 DEF HeldOK
<1> QED  BY <1>3, <1>4, <1>5, QuietOK

\* The cache is written within the request's deadline: an old report by a
\* request that is not much younger.
LEMMA SetOK ==
    ASSUME Api!StatusAssumption, StatusInv, NEW r \in Requests, Api!SetJSON(r)
    PROVE  StatusInv'
<1>1. /\ req[r] \in StatusStates /\ HeldOK(req[r]) /\ req[r].pc = "cache"
      /\ req \in [Requests -> StatusStates]
      /\ clock \in 0 .. MaxTime /\ storedAt \in 0 .. MaxTime
      /\ CacheTTL \in Nat /\ Deadline \in Nat
      /\ clock <= req[r].started + Deadline
  BY StatusKnown DEF Api!SetJSON, Api!At, Api!InTime
<1>2. /\ req' \in [Requests -> StatusStates]
      /\ req'[r] = Api!Done /\ Api!Done.pc = "done" /\ Api!Done.started = 0
      /\ \A q \in Requests \ {r} : req'[q] = req[q]
  BY <1>1, DoneIs, StatusOne DEF Api!SetJSON, Api!Finish
<1>3. /\ cache' = [report |-> req[r].report, until |-> clock + CacheTTL]
      /\ UNCHANGED <<clock, name, lastPut, stored, storedAt>>
  BY DEF Api!SetJSON
<1>4. req[r].started \in Nat /\ req[r].report \in Api!Callers
  BY <1>1 DEF StatusStates
<1>5. Api!TypeOK'
  BY <1>1, <1>2, <1>3, <1>4 DEF StatusInv, Api!TypeOK, StatusStates
<1>6. NameKept'
  BY <1>2, <1>3 DEF StatusInv, NameKept
<1>7. CachedOK'
  <2>1. cache'.until = clock + CacheTTL /\ cache'.report = req[r].report
    BY <1>3
  <2>2. clock + CacheTTL > storedAt + CacheTTL + Deadline => req[r].started > storedAt
    BY <1>1, <1>4
  <2>3. clock + CacheTTL > storedAt + CacheTTL + Deadline => Newest(req[r].report)
    BY <1>1, <2>2 DEF HeldOK
  <2> QED  BY <1>1, <1>3, <2>1, <2>3 DEF CachedOK, Newest
<1>8. ASSUME NEW q \in Requests PROVE HeldOK(req[q])'
  BY <1>1, <1>2, <1>3 DEF StatusInv, HeldOK, Newest
<1> QED  BY <1>3, <1>5, <1>6, <1>7, <1>8 DEF StatusInv

LEMMA StatusTickOK ==
    ASSUME Api!StatusAssumption, StatusInv, Api!Tick
    PROVE  StatusInv'
<1>1. /\ clock \in 0 .. MaxTime /\ MaxTime \in Nat /\ CacheTTL \in Nat /\ Deadline \in Nat
      /\ storedAt \in 0 .. MaxTime /\ storedAt <= clock /\ cache.until \in Nat
      /\ cache \in [report : Api!Callers, until : Nat]
  BY DEF StatusInv, Api!TypeOK, Api!StatusAssumption
<1>2. /\ clock < MaxTime /\ clock' = clock + 1
      /\ cache' = IF cache.until <= clock' THEN Api!NoEntry ELSE cache
      /\ UNCHANGED <<name, lastPut, stored, storedAt, req>>
  BY DEF Api!Tick
<1>3. /\ Api!NoEntry.until = 0 /\ Api!NoEntry.report = "nobody"
      /\ Api!NoEntry \in [report : Api!Callers, until : Nat]
  BY DEF Api!NoEntry, Api!Nobody, Api!Callers
<1>4. Api!TypeOK'
  BY <1>1, <1>2, <1>3 DEF StatusInv, Api!TypeOK
<1>5. NameKept'
  BY <1>2 DEF StatusInv, NameKept
<1>6. CachedOK'
  <2>1. CASE cache.until <= clock'
    BY <1>1, <1>2, <1>3, <2>1 DEF CachedOK
  <2>2. CASE ~(cache.until <= clock')
    BY <1>1, <1>2, <2>2 DEF StatusInv, CachedOK, Newest
  <2> QED  BY <2>1, <2>2
<1>7. ASSUME NEW q \in Requests PROVE HeldOK(req[q])'
  <2>1. HeldOK(req[q]) /\ req[q].started \in Nat
    BY StatusKnown DEF StatusStates
  <2> QED  BY <1>1, <1>2, <2>1 DEF HeldOK, Newest
<1> QED  BY <1>1, <1>2, <1>4, <1>5, <1>6, <1>7 DEF StatusInv

LEMMA StatusStepOK ==
    ASSUME Api!StatusAssumption, StatusInv, [Api!Next]_apiVars
    PROVE  StatusInv'
<1>1. CASE UNCHANGED apiVars
  BY <1>1 DEF apiVars, StatusInv, Api!TypeOK, NameKept, CachedOK, HeldOK, Newest
<1>2. ASSUME NEW r \in Requests, Api!SetJSONFails(r) \/ Api!Hit(r) \/ Api!Fail(r) PROVE StatusInv'
  BY <1>2, FinishOK DEF Api!SetJSONFails, Api!Hit, Api!Fail
<1>3. ASSUME NEW r \in Requests, NEW label \in {"put", "read", "lookup"}, Api!Begin(r, label)
      PROVE  StatusInv'
  BY <1>3, BeginOK
<1> QED
  BY <1>1, <1>2, <1>3, PutOK, ReadOK, InsertOK, UpsertOK, SkipOK, SetOK, MissOK, LoadOK, StatusTickOK
  DEF Api!Next

LEMMA StatusInvariantOK == Api!Spec => []StatusInv
<1>1. Api!Init => StatusInv
  BY ApiAssumption, StatusInitOK
<1>2. StatusInv /\ [Api!Next]_apiVars => StatusInv'
  BY ApiAssumption, StatusStepOK
<1> QED  BY <1>1, <1>2, PTL DEF Api!Spec, apiVars, Api!vars

-----------------------------------------------------------------------------
(* CongestionWorker: alerts, cooldown and snapshots.                       *)

\* How many events a handler counted decides nothing below, so Q is any set.
Hands(Q) == [pc : {"idle", "update", "store", "check", "mark", "insert"}, zone : Zones,
             at : Nat, queue : Q, solo : BOOLEAN]

Occupied(g) == hand[g].pc # "idle"

WorkerTyped ==
    /\ now \in Nat /\ 1 <= now /\ restarts \in Nat
    /\ \E Q : hand \in [Goroutines -> Hands(Q)]
    /\ lastAlert \in [Zones -> Nat]
    /\ DOMAIN snapshot = Zones
    /\ \A z \in Zones : snapshot[z].at \in Nat /\ snapshot[z].at <= now
    /\ \A a \in alerts : /\ a.at \in Nat /\ 1 <= a.at /\ a.at <= now
                         /\ a.zone \in Zones /\ a.solo \in BOOLEAN
                         /\ a.life \in Nat /\ a.life <= restarts

\* A handler's time is past; while it is the only one of its zone, all alerts
\* and the snapshot of the zone are older, and it has set lastAlert itself.
HandlerOK(g) ==
    Occupied(g) =>
        /\ 1 <= hand[g].at /\ hand[g].at <= now
        /\ hand[g].solo =>
            /\ \A h \in Goroutines \ {g} : Occupied(h) => hand[h].zone # hand[g].zone
            /\ \A a \in alerts : a.zone = hand[g].zone => a.at <= hand[g].at
            /\ snapshot[hand[g].zone].at <= hand[g].at
            /\ hand[g].pc = "insert" => lastAlert[hand[g].zone] = hand[g].at

\* After an alert that no handler overlapped, the zone's cooldown counts from it
\* or from later, and so does every handler there is.
AlertHolds(a) ==
    a.solo /\ a.life = restarts =>
        /\ lastAlert[a.zone] >= a.at
        /\ \A g \in Goroutines : Occupied(g) /\ hand[g].zone = a.zone =>
            /\ hand[g].at >= a.at
            /\ hand[g].pc \in {"mark", "insert"} => hand[g].at >= a.at + Cooldown

WorkerInv ==
    /\ WorkerTyped
    /\ \A g \in Goroutines : HandlerOK(g)
    /\ \A a \in alerts : AlertHolds(a)
    /\ AlertsAreSpaced

LEMMA FreeIs ==
    ASSUME NEW g \in Goroutines
    PROVE  /\ Free(g) \in Hands({0}) /\ Free(g).pc = "idle"
BY CongestionAssumption DEF Free, Hands

LEMMA WorkerInitOK == Init => WorkerInv
<1> SUFFICES ASSUME Init PROVE WorkerInv
  OBVIOUS
<1>1. hand \in [Goroutines -> Hands({0})] /\ \A g \in Goroutines : ~Occupied(g)
  BY FreeIs DEF Init, Occupied
<1>2. WorkerTyped
  BY <1>1 DEF Init, WorkerTyped, NoSnapshot
<1> QED  BY <1>1, <1>2 DEF Init, WorkerInv, HandlerOK, AlertsAreSpaced

\* A step that replaces the state of one handler.
LEMMA HandOne ==
    ASSUME WorkerTyped, NEW g \in Goroutines, NEW Q, NEW s \in Hands(Q),
           hand' = [hand EXCEPT ![g] = s]
    PROVE  /\ \E R : hand' \in [Goroutines -> Hands(R)]
           /\ hand'[g] = s
           /\ \A h \in Goroutines \ {g} : hand'[h] = hand[h]
<1>1. PICK P : hand \in [Goroutines -> Hands(P)]
  BY DEF WorkerTyped
<1>2. s \in Hands(P \cup Q)
  BY DEF Hands
<1>3. \A h \in Goroutines : hand[h] \in Hands(P \cup Q)
  BY <1>1 DEF Hands
<1>4. hand' \in [Goroutines -> Hands(P \cup Q)]
  BY <1>1, <1>2, <1>3
<1> QED  BY <1>1, <1>4

LEMMA HandIs ==
    ASSUME WorkerTyped, NEW g \in Goroutines
    PROVE  /\ \E Q : hand[g] \in Hands(Q)
           /\ hand[g].zone \in Zones /\ hand[g].at \in Nat /\ hand[g].solo \in BOOLEAN
BY DEF WorkerTyped, Hands

-----------------------------------------------------------------------------
\* A snapshot written by a handler is never newer than one on its own: those
\* that overlap with no other are of other zones.
LEMMA SnapshotIs ==
    ASSUME WorkerInv, NEW g \in Goroutines, Occupied(g),
           UNCHANGED snapshot \/ UpsertZoneSnapshot(g)
    PROVE  /\ DOMAIN snapshot' = Zones
           /\ \A z \in Zones : snapshot'[z].at \in Nat /\ snapshot'[z].at <= now
           /\ \A h \in Goroutines : Occupied(h) /\ hand[h].solo =>
                snapshot'[hand[h].zone].at <= hand[h].at
<1>1. CASE UNCHANGED snapshot
  BY <1>1 DEF WorkerInv, WorkerTyped, HandlerOK
<1>2. CASE UpsertZoneSnapshot(g)
  <2>1. /\ hand[g].zone \in Zones /\ hand[g].at \in Nat /\ hand[g].at <= now
        /\ DOMAIN snapshot = Zones
    BY HandIs DEF WorkerInv, WorkerTyped, HandlerOK
  <2>2. snapshot' = [snapshot EXCEPT ![hand[g].zone] = Written(g)] /\ Written(g).at = hand[g].at
    BY <1>2 DEF UpsertZoneSnapshot, Written
  <2>3. /\ DOMAIN snapshot' = Zones
        /\ snapshot'[hand[g].zone].at = hand[g].at
        /\ \A z \in Zones \ {hand[g].zone} : snapshot'[z] = snapshot[z]
    BY <2>1, <2>2
  <2>4. \A z \in Zones : snapshot'[z].at \in Nat /\ snapshot'[z].at <= now
    BY <2>1, <2>3 DEF WorkerInv, WorkerTyped
  <2>5. ASSUME NEW h \in Goroutines, Occupied(h), hand[h].solo
        PROVE  snapshot'[hand[h].zone].at <= hand[h].at
    <3>1. HandlerOK(h) /\ hand[h].zone \in Zones /\ hand[h].at \in Nat
      BY HandIs DEF WorkerInv
    <3> QED  BY <2>1, <2>3, <2>5, <3>1 DEF HandlerOK
  <2> QED  BY <2>3, <2>4, <2>5
<1> QED  BY <1>1, <1>2

\* A handler goes on: its place changes, perhaps its count or the snapshot.
LEMMA GoOnOK ==
    ASSUME WorkerInv, NEW g \in Goroutines, NEW Q, NEW s \in Hands(Q),
           hand' = [hand EXCEPT ![g] = s],
           s.zone = hand[g].zone, s.at = hand[g].at, s.solo = hand[g].solo,
           Occupied(g), s.pc # "insert",
           s.pc = "mark" => ~CoolingDown(hand[g].zone, hand[g].at),
           UNCHANGED snapshot \/ UpsertZoneSnapshot(g),
           UNCHANGED <<now, lastAlert, alerts, restarts>>
    PROVE  WorkerInv'
<1>1. /\ \E R : hand' \in [Goroutines -> Hands(R)]
      /\ hand'[g] = s
      /\ \A h \in Goroutines \ {g} : hand'[h] = hand[h]
  BY HandOne DEF WorkerInv
<1>2. WorkerTyped'
  BY <1>1, SnapshotIs DEF WorkerInv, WorkerTyped
<1>3. ASSUME NEW h \in Goroutines PROVE HandlerOK(h)'
  BY <1>1, SnapshotIs DEF WorkerInv, HandlerOK, Occupied
<1>4. ASSUME NEW a \in alerts PROVE AlertHolds(a)'
  <2>1. /\ a.at \in Nat /\ 1 <= a.at /\ a.zone \in Zones
        /\ lastAlert[a.zone] \in Nat /\ hand[g].at \in Nat /\ Cooldown \in Nat
    BY HandIs, CongestionAssumption DEF WorkerInv, WorkerTyped
  <2>2. AlertHolds(a)
    BY DEF WorkerInv
  <2>3. ASSUME a.solo, a.life = restarts, hand[g].zone = a.zone, s.pc = "mark"
        PROVE  hand[g].at >= a.at + Cooldown
    BY <2>1, <2>2, <2>3 DEF AlertHolds, CoolingDown
  <2> QED  BY <1>1, <2>2, <2>3 DEF AlertHolds, Occupied
<1>5. AlertsAreSpaced'
  BY DEF WorkerInv, AlertsAreSpaced
<1> QED  BY <1>2, <1>3, <1>4, <1>5 DEF WorkerInv

\* A handler ends without an alert.
LEMMA EndOK ==
    ASSUME WorkerInv, NEW g \in Goroutines, Occupied(g), Return(g),
           UNCHANGED snapshot \/ UpsertZoneSnapshot(g),
           UNCHANGED <<now, lastAlert, alerts, restarts>>
    PROVE  WorkerInv'
<1>1. /\ \E R : hand' \in [Goroutines -> Hands(R)]
      /\ hand'[g].pc = "idle"
      /\ \A h \in Goroutines \ {g} : hand'[h] = hand[h]
  BY HandOne, FreeIs DEF WorkerInv, Return
<1>2. WorkerTyped'
  BY <1>1, SnapshotIs DEF WorkerInv, WorkerTyped
<1>3. ASSUME NEW h \in Goroutines PROVE HandlerOK(h)'
  BY <1>1, SnapshotIs DEF WorkerInv, HandlerOK, Occupied
<1>4. ASSUME NEW a \in alerts PROVE AlertHolds(a)'
  BY <1>1 DEF WorkerInv, AlertHolds, Occupied
<1>5. AlertsAreSpaced'
  BY DEF WorkerInv, AlertsAreSpaced
<1> QED  BY <1>2, <1>3, <1>4, <1>5 DEF WorkerInv

-----------------------------------------------------------------------------
\* A message changes nothing of another handler but whether it is on its own.
LEMMA HandledOthers ==
    ASSUME WorkerTyped, NEW Q, hand \in [Goroutines -> Hands(Q)],
           NEW g \in Goroutines, NEW z \in Zones, Handle(g, z), NEW h \in Goroutines \ {g}
    PROVE  /\ hand'[h] \in Hands(Q)
           /\ hand'[h].pc = hand[h].pc /\ hand'[h].zone = hand[h].zone /\ hand'[h].at = hand[h].at
           /\ hand'[h].solo => hand[h].solo /\ ~(Occupied(h) /\ hand[h].zone = z)
<1>1. hand'[h] = [hand[h] EXCEPT !.solo = hand[h].solo /\ h \notin Busy(z)]
  BY DEF Handle
<1>2. hand[h] \in Hands(Q) /\ hand[h].solo \in BOOLEAN
  BY DEF Hands
<1>3. PICK b \in BOOLEAN : b = (hand[h].solo /\ h \notin Busy(z))
  OBVIOUS
<1>4. hand'[h] = [hand[h] EXCEPT !.solo = b]
  BY <1>1, <1>3
<1>5. h \in Busy(z) <=> Occupied(h) /\ hand[h].zone = z
  BY DEF Busy, At, Occupied
<1> QED  BY <1>2, <1>3, <1>4, <1>5 DEF Hands

\* A message: every handler of its zone, the new one included, is on its own
\* no more, unless the zone was free.
LEMMA HandleOK ==
    ASSUME WorkerInv, NEW g \in Goroutines, NEW z \in Zones, Handle(g, z)
    PROVE  WorkerInv'
<1>1. PICK Q : hand \in [Goroutines -> Hands(Q)]
  BY DEF WorkerInv, WorkerTyped
<1>2. PICK t \in HandlerTime : hand' = [h \in Goroutines |->
          IF h = g THEN [Free(g) EXCEPT !.pc = "update", !.zone = z, !.at = t,
                                        !.solo = Busy(z) = {}]
          ELSE [hand[h] EXCEPT !.solo = @ /\ h \notin Busy(z)]]
  BY DEF Handle
<1>3. /\ UNCHANGED <<now, lastAlert, snapshot, alerts, restarts>>
      /\ ~Occupied(g) /\ t = now /\ now \in Nat
  BY DEF Handle, mem, At, Occupied, HandlerTime, WorkerInv, WorkerTyped
<1>4. PICK free : free = (Busy(z) = {})
  OBVIOUS
<1>5. PICK s : s = [Free(g) EXCEPT !.pc = "update", !.zone = z, !.at = t, !.solo = free]
  OBVIOUS
<1>6. free \in BOOLEAN
  BY <1>4
<1>7. s \in Hands({0}) /\ s.pc = "update" /\ s.zone = z /\ s.at = now /\ s.solo = free
  BY <1>3, <1>5, <1>6, FreeIs DEF Hands
<1>8. hand'[g] = s
  BY <1>2, <1>4, <1>5
<1>9. ASSUME NEW h \in Goroutines \ {g}
      PROVE  /\ hand'[h] \in Hands(Q)
             /\ hand'[h].pc = hand[h].pc /\ hand'[h].zone = hand[h].zone /\ hand'[h].at = hand[h].at
             /\ hand'[h].solo => hand[h].solo /\ ~(Occupied(h) /\ hand[h].zone = z)
  BY <1>1, HandledOthers DEF WorkerInv
<1>10. \E R : hand' \in [Goroutines -> Hands(R)]
  <2>1. \A h \in Goroutines : hand'[h] \in Hands(Q \cup {0})
    BY <1>7, <1>8, <1>9 DEF Hands
  <2>2. hand' = [h \in Goroutines |-> hand'[h]]
    BY <1>2
  <2>3. hand' \in [Goroutines -> Hands(Q \cup {0})]
    BY <2>1, <2>2
  <2> QED  BY <2>3
<1>11. WorkerTyped'
  BY <1>3, <1>10 DEF WorkerInv, WorkerTyped
<1>12. ASSUME NEW h \in Goroutines PROVE HandlerOK(h)'
  <2>1. CASE h = g
    <3>1. free => \A k \in Goroutines \ {g} : Occupied(k) => hand[k].zone # z
      BY <1>4 DEF Busy, At, Occupied
    <3>2. \A a \in alerts : a.at <= now
      BY DEF WorkerInv, WorkerTyped
    <3>3. snapshot[z].at <= now /\ 1 <= now
      BY DEF WorkerInv, WorkerTyped
    <3>4. \A k \in Goroutines \ {g} : Occupied(k)' => Occupied(k) /\ hand'[k].zone = hand[k].zone
      BY <1>9 DEF Occupied
    <3> QED  BY <1>3, <1>7, <1>8, <2>1, <3>1, <3>2, <3>3, <3>4 DEF HandlerOK
  <2>2. CASE h # g
    <3>1. /\ hand'[h].pc = hand[h].pc /\ hand'[h].zone = hand[h].zone /\ hand'[h].at = hand[h].at
          /\ hand'[h].solo => hand[h].solo /\ ~(Occupied(h) /\ hand[h].zone = z)
      BY <1>9, <2>2
    <3>2. HandlerOK(h)
      BY DEF WorkerInv
    <3>3. ASSUME NEW k \in Goroutines \ {h}, Occupied(k)', Occupied(h), hand'[h].solo
          PROVE  hand'[k].zone # hand[h].zone
      <4>1. CASE k = g
        BY <1>7, <1>8, <3>1, <3>3, <4>1
      <4>2. CASE k # g
        BY <1>9, <3>1, <3>2, <3>3, <4>2 DEF HandlerOK, Occupied
      <4> QED  BY <4>1, <4>2
    <3> QED  BY <1>3, <3>1, <3>2, <3>3 DEF HandlerOK, Occupied
  <2> QED  BY <2>1, <2>2
<1>13. ASSUME NEW a \in alerts PROVE AlertHolds(a)'
  <2>1. AlertHolds(a) /\ a.at <= now
    BY DEF WorkerInv, WorkerTyped
  <2> QED  BY <1>3, <1>7, <1>8, <1>9, <2>1 DEF AlertHolds, Occupied
<1>14. AlertsAreSpaced'
  BY <1>3 DEF WorkerInv, AlertsAreSpaced
<1> QED  BY <1>3, <1>11, <1>12, <1>13, <1>14 DEF WorkerInv

LEMMA UpdateOK ==
    ASSUME WorkerInv, NEW g \in Goroutines, Update(g)
    PROVE  WorkerInv'
<1>1. PICK n : hand' = [hand EXCEPT ![g].pc = "store", ![g].queue = n]
  BY DEF Update
<1>2. PICK s : s = [hand[g] EXCEPT !.pc = "store", !.queue = n]
  OBVIOUS
<1>3. PICK Q : hand[g] \in Hands(Q)
  BY HandIs DEF WorkerInv
<1>4. /\ s \in Hands(Q \cup {n}) /\ s.pc = "store"
      /\ s.zone = hand[g].zone /\ s.at = hand[g].at /\ s.solo = hand[g].solo
  BY <1>2, <1>3 DEF Hands
<1>5. /\ hand' = [hand EXCEPT ![g] = s]
      /\ Occupied(g)
      /\ UNCHANGED <<now, lastAlert, snapshot, alerts, restarts>>
  BY <1>1, <1>2 DEF Update, At, Occupied
<1> QED  BY <1>4, <1>5, GoOnOK

\* A handler goes to another label.
LEMMA GotoOK ==
    ASSUME WorkerInv, NEW g \in Goroutines,
           NEW label \in {"check", "mark"}, Goto(g, label), Occupied(g),
           label = "mark" => ~CoolingDown(hand[g].zone, hand[g].at),
           UNCHANGED snapshot \/ UpsertZoneSnapshot(g),
           UNCHANGED <<now, lastAlert, alerts, restarts>>
    PROVE  WorkerInv'
<1>1. PICK s : s = [hand[g] EXCEPT !.pc = label]
  OBVIOUS
<1>2. PICK Q : hand[g] \in Hands(Q)
  BY HandIs DEF WorkerInv
<1>3. /\ s \in Hands(Q) /\ s.pc = label
      /\ s.zone = hand[g].zone /\ s.at = hand[g].at /\ s.solo = hand[g].solo
  BY <1>1, <1>2 DEF Hands
<1>4. hand' = [hand EXCEPT ![g] = s]
  BY <1>1 DEF Goto
<1> QED  BY <1>3, <1>4, GoOnOK

LEMMA CheckOK ==
    ASSUME WorkerInv, NEW g \in Goroutines, Check(g)
    PROVE  WorkerInv'
<1>1. UNCHANGED <<now, lastAlert, snapshot, alerts, restarts>> /\ Occupied(g)
  BY DEF Check, mem, At, Occupied
<1>2. CASE CoolingDown(hand[g].zone, hand[g].at)
  BY <1>1, <1>2, EndOK DEF Check
<1>3. CASE ~CoolingDown(hand[g].zone, hand[g].at)
  BY <1>1, <1>3, GotoOK DEF Check
<1> QED  BY <1>2, <1>3

\* A handler's snapshot and what it does next.
LEMMA StoreOK ==
    ASSUME WorkerInv, NEW g \in Goroutines, Store(g) \/ StoreFails(g)
    PROVE  WorkerInv'
<1>1. Occupied(g) /\ UNCHANGED <<now, lastAlert, alerts, restarts>>
  BY DEF Store, StoreFails, mem, At, Occupied
<1>2. UNCHANGED snapshot \/ UpsertZoneSnapshot(g)
  BY DEF Store, StoreFails
<1>3. Return(g) \/ Goto(g, "check")
  BY DEF Store, StoreFails
<1> QED  BY <1>1, <1>2, <1>3, EndOK, GotoOK

\* The cooldown starts, later than it did before when an alert holds.
LEMMA MarkOK ==
    ASSUME WorkerInv, NEW g \in Goroutines, Mark(g)
    PROVE  WorkerInv'
<1>1. PICK s : s = [hand[g] EXCEPT !.pc = "insert"]
  OBVIOUS
<1>2. PICK Q : hand[g] \in Hands(Q)
  BY HandIs DEF WorkerInv
<1>3. /\ s \in Hands(Q) /\ s.pc = "insert"
      /\ s.zone = hand[g].zone /\ s.at = hand[g].at /\ s.solo = hand[g].solo
  BY <1>1, <1>2 DEF Hands
<1>4. hand' = [hand EXCEPT ![g] = s]
  BY <1>1 DEF Mark, Goto
<1>5. /\ \E R : hand' \in [Goroutines -> Hands(R)]
      /\ hand'[g] = s
      /\ \A h \in Goroutines \ {g} : hand'[h] = hand[h]
  BY <1>3, <1>4, HandOne DEF WorkerInv
<1>6. hand[g].zone \in Zones /\ hand[g].at \in Nat /\ hand[g].pc = "mark" /\ Occupied(g)
  BY HandIs DEF WorkerInv, Mark, At, Occupied
<1>7. /\ UNCHANGED <<now, snapshot, alerts, restarts>>
      /\ lastAlert' \in [Zones -> Nat]
      /\ lastAlert'[hand[g].zone] = hand[g].at
      /\ \A z \in Zones \ {hand[g].zone} : lastAlert'[z] = lastAlert[z]
  BY <1>6 DEF Mark, WorkerInv, WorkerTyped
<1>8. WorkerTyped'
  BY <1>5, <1>7 DEF WorkerInv, WorkerTyped
<1>9. ASSUME NEW h \in Goroutines PROVE HandlerOK(h)'
  <2>1. HandlerOK(h) /\ hand[h].zone \in Zones
    BY HandIs DEF WorkerInv
  <2> QED  BY <1>3, <1>5, <1>6, <1>7, <2>1 DEF HandlerOK, Occupied
<1>10. ASSUME NEW a \in alerts PROVE AlertHolds(a)'
  <2>1. AlertHolds(a) /\ a.zone \in Zones /\ a.at \in Nat /\ Cooldown \in Nat
    BY CongestionAssumption DEF WorkerInv, WorkerTyped
  <2> QED  BY <1>3, <1>5, <1>6, <1>7, <2>1 DEF AlertHolds, Occupied
<1>11. AlertsAreSpaced'
  BY <1>7 DEF WorkerInv, AlertsAreSpaced
<1> QED  BY <1>7, <1>8, <1>9, <1>10, <1>11 DEF WorkerInv

\* A new alert: a cooldown after every one that holds, and, without overlap, no
\* earlier than any other of the zone.
LEMMA CreateOK ==
    ASSUME WorkerInv, NEW g \in Goroutines, CreateAlert(g)
    PROVE  WorkerInv'
<1>1. PICK b : b = Alert(g)
  OBVIOUS
<1>2. /\ b.zone = hand[g].zone /\ b.at = hand[g].at /\ b.life = restarts /\ b.solo = hand[g].solo
  BY <1>1 DEF Alert
<1>3. /\ \E R : hand' \in [Goroutines -> Hands(R)]
      /\ hand'[g].pc = "idle"
      /\ \A h \in Goroutines \ {g} : hand'[h] = hand[h]
  BY HandOne, FreeIs DEF WorkerInv, CreateAlert, Return
<1>4. /\ alerts' = alerts \cup {b}
      /\ UNCHANGED <<now, lastAlert, snapshot, restarts>>
  BY <1>1 DEF CreateAlert, mem
<1>5. /\ hand[g].pc = "insert" /\ Occupied(g) /\ HandlerOK(g)
      /\ hand[g].zone \in Zones /\ hand[g].at \in Nat /\ hand[g].solo \in BOOLEAN
      /\ now \in Nat /\ restarts \in Nat /\ Cooldown \in Nat /\ Cooldown > 0
  BY HandIs, CongestionAssumption DEF CreateAlert, At, Occupied, WorkerInv, WorkerTyped
<1>6. WorkerTyped'
  <2>1. b.at <= now /\ 1 <= b.at
    BY <1>2, <1>5 DEF HandlerOK
  <2> QED  BY <1>2, <1>3, <1>4, <1>5, <2>1 DEF WorkerInv, WorkerTyped
<1>7. ASSUME NEW h \in Goroutines PROVE HandlerOK(h)'
  <2>1. CASE h = g
    BY <1>3, <2>1 DEF HandlerOK, Occupied
  <2>2. CASE h # g
    <3>1. HandlerOK(h)
      BY DEF WorkerInv
    <3>2. Occupied(h) /\ hand[h].solo => b.zone # hand[h].zone
      BY <1>2, <1>5, <2>2, <3>1 DEF HandlerOK
    <3> QED  BY <1>3, <1>4, <2>2, <3>1, <3>2 DEF HandlerOK, Occupied
  <2> QED  BY <2>1, <2>2
<1>8. ASSUME NEW a \in alerts' PROVE AlertHolds(a)'
  <2>1. CASE a \in alerts
    BY <1>3, <1>4, <2>1 DEF WorkerInv, AlertHolds, Occupied
  <2>2. CASE a = b
    <3>1. b.solo => \A h \in Goroutines : Occupied(h)' => hand'[h].zone # b.zone
      BY <1>2, <1>3, <1>5 DEF HandlerOK, Occupied
    <3>2. b.solo => lastAlert[b.zone] = b.at
      BY <1>2, <1>5 DEF HandlerOK
    <3> QED  BY <1>2, <1>4, <1>5, <2>2, <3>1, <3>2 DEF AlertHolds
  <2> QED  BY <1>4, <2>1, <2>2
<1>9. AlertsAreSpaced'
  <2>1. ASSUME NEW a \in alerts, a.zone = b.zone, a.life = b.life, a.solo
        PROVE  a.at + Cooldown <= b.at
    BY <1>2, <1>5, <2>1 DEF WorkerInv, AlertHolds
  <2>2. ASSUME NEW a \in alerts, a.zone = b.zone, b.solo
        PROVE  a.at <= b.at /\ a.at \in Nat
    BY <1>2, <1>5, <2>2 DEF HandlerOK, WorkerInv, WorkerTyped
  <2>3. ASSUME NEW a \in alerts, a.zone = b.zone, a.life = b.life, b.solo
        PROVE  ~(b.at < a.at \/ (b.at = a.at /\ a.solo))
    BY <1>2, <1>5, <2>1, <2>2, <2>3
  <2> QED  BY <1>4, <2>1, <2>3 DEF WorkerInv, AlertsAreSpaced
<1> QED  BY <1>4, <1>6, <1>7, <1>8, <1>9 DEF WorkerInv

LEMMA RestartOK == ASSUME WorkerInv, Restart PROVE WorkerInv'
<1>1. /\ restarts' = restarts + 1 /\ restarts \in Nat
      /\ lastAlert' \in [Zones -> Nat]
      /\ UNCHANGED <<now, snapshot, alerts>>
  BY DEF Restart, WorkerInv, WorkerTyped
<1>2. hand' \in [Goroutines -> Hands({0})] /\ \A g \in Goroutines : ~Occupied(g)'
  BY FreeIs DEF Restart, Occupied
<1>3. WorkerTyped'
  BY <1>1, <1>2 DEF WorkerInv, WorkerTyped
<1>4. ASSUME NEW a \in alerts PROVE a.life # restarts'
  BY <1>1 DEF WorkerInv, WorkerTyped
<1>5. AlertsAreSpaced'
  BY <1>1 DEF WorkerInv, AlertsAreSpaced
<1> QED  BY <1>1, <1>2, <1>3, <1>4, <1>5 DEF WorkerInv, HandlerOK, AlertHolds

LEMMA WorkerTickOK == ASSUME WorkerInv, Tick PROVE WorkerInv'
<1>1. now' = now + 1 /\ now \in Nat /\ UNCHANGED <<lastAlert, hand, snapshot, alerts, restarts>>
  BY DEF Tick, mem, WorkerInv, WorkerTyped
<1>2. WorkerTyped'
  BY <1>1 DEF WorkerInv, WorkerTyped
<1>3. ASSUME NEW g \in Goroutines PROVE HandlerOK(g)'
  <2>1. HandlerOK(g) /\ hand[g].at \in Nat
    BY HandIs DEF WorkerInv
  <2> QED  BY <1>1, <2>1 DEF HandlerOK, Occupied
<1>4. (\A a \in alerts : AlertHolds(a))' /\ AlertsAreSpaced'
  BY <1>1 DEF WorkerInv, AlertHolds, Occupied, AlertsAreSpaced
<1> QED  BY <1>2, <1>3, <1>4 DEF WorkerInv

LEMMA WorkerStepOK == ASSUME WorkerInv, [Next]_vars PROVE WorkerInv'
<1>1. CASE UNCHANGED vars
  <2>1. UNCHANGED <<now, lastAlert, hand, snapshot, alerts, restarts>>
    BY <1>1 DEF vars, mem
  <2> QED  BY <2>1 DEF WorkerInv, WorkerTyped, HandlerOK, AlertHolds, Occupied, AlertsAreSpaced
<1>2. ASSUME NEW g \in Goroutines, CreateAlertFails(g) PROVE WorkerInv'
  BY <1>2, EndOK DEF CreateAlertFails, mem, At, Occupied
<1> QED
  BY <1>1, <1>2, HandleOK, UpdateOK, StoreOK, CheckOK, MarkOK, CreateOK, RestartOK, WorkerTickOK
  DEF Next, MapRace

LEMMA WorkerInvariantOK == Spec => []WorkerInv
BY WorkerInitOK, WorkerStepOK, PTL DEF Spec

-----------------------------------------------------------------------------
(* A cooldown without an alert has another cause.                          *)

LEMMA SilenceKept ==
    ASSUME SilenceHasCause, UNCHANGED lastAlert, alerts \subseteq alerts', lost \subseteq lost',
           \A h \in Goroutines : hand[h].pc = "insert" =>
               \/ hand'[h].pc = "insert" /\ hand'[h].zone = hand[h].zone /\ hand'[h].at = hand[h].at
               \/ \E a \in alerts' : a.zone = hand[h].zone /\ a.at = hand[h].at
               \/ [zone |-> hand[h].zone, at |-> hand[h].at] \in lost'
    PROVE  SilenceHasCause'
<1> SUFFICES ASSUME NEW z \in Zones, lastAlert[z] # 0
             PROVE  \/ \E a \in alerts' : a.zone = z /\ a.at = lastAlert[z]
                    \/ \E g \in Goroutines : /\ hand'[g].pc = "insert" /\ hand'[g].zone = z
                                            /\ hand'[g].at = lastAlert[z]
                    \/ [zone |-> z, at |-> lastAlert[z]] \in lost'
  BY DEF SilenceHasCause, At
<1>1. CASE \E a \in alerts : a.zone = z /\ a.at = lastAlert[z]
  BY <1>1
<1>2. ASSUME NEW g \in Goroutines, hand[g].pc = "insert", hand[g].zone = z, hand[g].at = lastAlert[z]
      PROVE  \/ \E a \in alerts' : a.zone = z /\ a.at = lastAlert[z]
             \/ hand'[g].pc = "insert" /\ hand'[g].zone = z /\ hand'[g].at = lastAlert[z]
             \/ [zone |-> z, at |-> lastAlert[z]] \in lost'
  BY <1>2
<1>3. CASE [zone |-> z, at |-> lastAlert[z]] \in lost
  BY <1>3
<1> QED  BY <1>1, <1>2, <1>3 DEF SilenceHasCause, At

\* A handler that is not about to insert moves on.
LEMMA SilenceMoved ==
    ASSUME WorkerInv, SilenceHasCause, NEW g \in Goroutines, hand[g].pc # "insert",
           Goto(g, "check") \/ Goto(g, "mark") \/ Return(g) \/ Update(g),
           UNCHANGED <<lastAlert, alerts, lost>>
    PROVE  SilenceHasCause'
<1>1. DOMAIN hand = Goroutines
  BY DEF WorkerInv, WorkerTyped
<1>2. \A h \in Goroutines \ {g} : hand'[h] = hand[h]
  BY <1>1 DEF Goto, Return, Update
<1> QED  BY <1>2, SilenceKept

LEMMA SilenceMark ==
    ASSUME WorkerInv, SilenceHasCause, NEW g \in Goroutines, Mark(g)
    PROVE  SilenceHasCause'
<1>1. DOMAIN hand = Goroutines /\ DOMAIN lastAlert = Zones /\ hand[g].zone \in Zones
  BY HandIs DEF WorkerInv, WorkerTyped
<1>2. PICK Q : hand[g] \in Hands(Q)
  BY HandIs DEF WorkerInv
<1>3. /\ hand'[g].pc = "insert" /\ hand'[g].zone = hand[g].zone /\ hand'[g].at = hand[g].at
      /\ \A h \in Goroutines \ {g} : hand'[h] = hand[h]
  BY <1>1, <1>2 DEF Mark, Goto, Hands
<1>4. /\ lastAlert'[hand[g].zone] = hand[g].at
      /\ \A z \in Zones \ {hand[g].zone} : lastAlert'[z] = lastAlert[z]
      /\ hand[g].pc = "mark" /\ UNCHANGED <<alerts, lost>>
  BY <1>1 DEF Mark, At
<1> QED  BY <1>3, <1>4 DEF SilenceHasCause, At

LEMMA SilenceStep ==
    ASSUME WorkerInv, SilenceHasCause, [Next]_vars
    PROVE  SilenceHasCause'
<1>1. CASE UNCHANGED vars \/ Tick
  BY <1>1 DEF vars, mem, Tick, SilenceHasCause, At
<1>2. CASE Restart
  BY <1>2 DEF Restart, SilenceHasCause
<1>3. ASSUME NEW g \in Goroutines, NEW z \in Zones, Handle(g, z) PROVE SilenceHasCause'
  <2>1. hand[g].pc = "idle" /\ UNCHANGED <<lastAlert, alerts, lost>>
    BY <1>3 DEF Handle, At, mem
  <2>2. ASSUME NEW h \in Goroutines \ {g}
        PROVE  hand'[h].pc = hand[h].pc /\ hand'[h].zone = hand[h].zone /\ hand'[h].at = hand[h].at
    BY <1>3, HandledOthers DEF WorkerInv, WorkerTyped
  <2> QED  BY <2>1, <2>2, SilenceKept
<1>4. ASSUME NEW g \in Goroutines, Update(g) \/ Store(g) \/ StoreFails(g) \/ Check(g)
      PROVE  SilenceHasCause'
  BY <1>4, SilenceMoved DEF Update, Store, StoreFails, Check, At, mem
<1>5. ASSUME NEW g \in Goroutines, CreateAlert(g) PROVE SilenceHasCause'
  <2>1. \A h \in Goroutines \ {g} : hand'[h] = hand[h]
    BY <1>5 DEF WorkerInv, WorkerTyped, CreateAlert, Return
  <2>2. Alert(g) \in alerts' /\ Alert(g).zone = hand[g].zone /\ Alert(g).at = hand[g].at
    BY <1>5 DEF CreateAlert, Alert
  <2> QED  BY <1>5, <2>1, <2>2, SilenceKept DEF CreateAlert, mem
<1>6. ASSUME NEW g \in Goroutines, CreateAlertFails(g) PROVE SilenceHasCause'
  <2>1. \A h \in Goroutines \ {g} : hand'[h] = hand[h]
    BY <1>6 DEF WorkerInv, WorkerTyped, CreateAlertFails, Return
  <2> QED  BY <1>6, <2>1, SilenceKept DEF CreateAlertFails, mem
<1> QED  BY <1>1, <1>2, <1>3, <1>4, <1>5, <1>6, SilenceMark DEF Next, MapRace

-----------------------------------------------------------------------------
\* No step replaces a zone's snapshot by an older one but that of an overlapped
\* handler.
LEMMA ForwardStep ==
    ASSUME WorkerInv, [Next]_vars, NEW z \in Zones, snapshot'[z].solo
    PROVE  snapshot'[z].at >= snapshot[z].at
<1>1. snapshot[z].at \in Nat /\ DOMAIN snapshot = Zones
  BY DEF WorkerInv, WorkerTyped
<1>2. CASE UNCHANGED snapshot
  BY <1>1, <1>2
<1>3. ASSUME NEW g \in Goroutines, Occupied(g), UpsertZoneSnapshot(g)
      PROVE  snapshot'[z].at >= snapshot[z].at
  <2>1. snapshot' = [snapshot EXCEPT ![hand[g].zone] = Written(g)]
    BY <1>3 DEF UpsertZoneSnapshot
  <2>2. HandlerOK(g) /\ hand[g].zone \in Zones /\ hand[g].at \in Nat
    BY HandIs DEF WorkerInv
  <2>3. Written(g).at = hand[g].at /\ Written(g).solo = hand[g].solo
    BY DEF Written
  <2>4. CASE z = hand[g].zone
    BY <1>1, <1>3, <2>1, <2>2, <2>3, <2>4 DEF HandlerOK
  <2>5. CASE z # hand[g].zone
    BY <1>1, <2>1, <2>5
  <2> QED  BY <2>4, <2>5
<1>4. UNCHANGED snapshot \/ \E g \in Goroutines : Occupied(g) /\ UpsertZoneSnapshot(g)
  BY DEF vars, Next, Handle, Update, Store, StoreFails, Check, Mark, CreateAlert, CreateAlertFails,
         Restart, MapRace, Tick, At, Occupied
<1> QED  BY <1>2, <1>3, <1>4

-----------------------------------------------------------------------------
(* The theorems.                                                           *)

\* The API's state about a robot is well typed.
THEOREM StatusTypeCorrect == ReportsSpec => []Api!TypeOK
BY StatusInvariantOK, PTL DEF ReportsSpec, StatusInv

\* Once no report has come for the cached status's lifetime and a deadline, what
\* is cached is a newest status of the table, for any number of requests.
THEOREM CacheCorrect == ReportsSpec => []CacheSettles
<1>1. StatusInv => CacheSettles
  <2> SUFFICES ASSUME StatusInv, cache # Api!NoEntry, clock > storedAt + CacheTTL + Deadline
               PROVE  Newest(cache.report)
    BY DEF CacheSettles, Api!CacheSettles, Newest
  <2>1. /\ clock \in Nat /\ storedAt \in Nat /\ cache.until \in Nat
        /\ CacheTTL \in Nat /\ Deadline \in Nat
    BY ApiAssumption DEF Api!StatusAssumption, StatusInv, Api!TypeOK
  <2> QED  BY <2>1 DEF StatusInv, CachedOK
<1> QED  BY <1>1, StatusInvariantOK, PTL DEF ReportsSpec

\* A name given while no report was between its read and its write of the row
\* stays until the next PUT, for any number of requests.
THEOREM RenameCorrect == ReportsSpec => []RenameSticks
<1>1. StatusInv => RenameSticks
  BY DEF StatusInv, NameKept, RenameSticks, Api!RenameSticks
<1> QED  BY <1>1, StatusInvariantOK, PTL DEF ReportsSpec

\* After an alert whose handler was alone in its zone, the same process raises
\* the next one a cooldown later at the earliest, for any number of handlers.
THEOREM SpacingCorrect == Spec => []AlertsAreSpaced
BY WorkerInvariantOK, PTL DEF WorkerInv

\* A zone is silent only for an alert that was inserted, is about to be, or got
\* lost, although lastAlert is written without the mutex.
THEOREM SilenceCorrect == Spec => []SilenceHasCause
<1>1. Init => SilenceHasCause
  BY DEF Init, SilenceHasCause
<1> QED  BY <1>1, SilenceStep, WorkerInvariantOK, PTL DEF Spec

\* A zone's snapshot goes back in time only by a handler that another one
\* overlapped.
THEOREM ForwardCorrect == Spec => SnapshotsMoveForward
<1>1. WorkerInv /\ [Next]_vars =>
          [\A z \in Zones : snapshot'[z].solo => snapshot'[z].at >= snapshot[z].at]_vars
  BY ForwardStep
<1> QED  BY <1>1, WorkerInvariantOK, PTL DEF Spec, SnapshotsMoveForward
=============================================================================
