--------------------------- MODULE CongestionWorker ---------------------------
(***************************************************************************)
(* The congestion worker: two goroutines, one per topic, feed one          *)
(* aggregation state.  An event counts in the window of its zone; the      *)
(* window's length gives a snapshot and a level; a level raises an alert   *)
(* unless the zone is cooling down.                                        *)
(*                                                                         *)
(* A handler reads the clock once and uses that time throughout.  The      *)
(* window is updated under a mutex, lastAlert is not.  Which messages are  *)
(* delivered, once or again, is GroupConsumer's subject: here any event    *)
(* may come at any time.  Speeds, and the best-effort output to Influx,    *)
(* Kafka and the alert channel, decide nothing and are left out.           *)
(***************************************************************************)
EXTENDS Naturals, Sequences, FiniteSets

CONSTANTS
    Goroutines,   \* readers of robot.status and of task.events
    Zones,
    Window,       \* one minute
    Cooldown,     \* CONGESTION_ALERT_COOLDOWN_SEC
    Thresholds,   \* CONGESTION_L1, L2, L3 in tenths, as configured
    MaxQueue,     \* bound: events in a window
    MaxRestarts,  \* bound: deaths of the process
    MaxTime       \* bound: the clock

ASSUME CongestionAssumption ==
    /\ Zones # {}
    /\ {Window, Cooldown} \subseteq Nat \ {0}
    /\ Thresholds \in [1 .. 3 -> Nat]
    /\ {MaxQueue, MaxRestarts, MaxTime} \subseteq Nat

VARIABLES
    now,        \* the clock, from 1: 0 is Go's zero time
    window,     \* aggState.window: times of the events that count
    lastAlert,  \* aggState.lastAlert, 0 when the zone has none
    hand,       \* the handlers
    snapshot,   \* zone_congestion_snapshots
    alerts,     \* congestion_alerts
    lost,       \* alerts whose insert failed
    restarts    \* deaths so far

mem  == <<window, lastAlert>>
vars == <<now, mem, hand, snapshot, alerts, lost, restarts>>

NoSnapshot == [at |-> 0, queue |-> 0, solo |-> TRUE]

\* at: the handler's clock; queue: what it counted; solo: no other handler was
\* busy with the zone since this one began.
Free(g) == [pc |-> "idle", zone |-> CHOOSE z \in Zones : TRUE, at |-> 0, queue |-> 0, solo |-> TRUE]

Init ==
    /\ now       = 1
    /\ window    = [z \in Zones |-> <<>>]
    /\ lastAlert = [z \in Zones |-> 0]
    /\ hand      = [g \in Goroutines |-> Free(g)]
    /\ snapshot  = [z \in Zones |-> NoSnapshot]
    /\ alerts    = {}
    /\ lost      = {}
    /\ restarts  = 0

-----------------------------------------------------------------------------
At(g, label) == hand[g].pc = label
Goto(g, label) == hand' = [hand EXCEPT ![g].pc = label]
Return(g) == hand' = [hand EXCEPT ![g] = Free(g)]

Busy(z) == { g \in Goroutines : ~At(g, "idle") /\ hand[g].zone = z }

\* clamp(queue / 10, 0, 1), in tenths, against the highest threshold first.
Index(queue) == IF queue > 10 THEN 10 ELSE queue
Level(queue) == IF      Index(queue) >= Thresholds[3] THEN "L3"
                ELSE IF Index(queue) >= Thresholds[2] THEN "L2"
                ELSE IF Index(queue) >= Thresholds[1] THEN "L1"
                                                      ELSE ""

\* Mutant of HandlerTime: the time the message carries.
MessageTime == 1 .. now

\* The time a handler works with: the clock when it begins.
HandlerTime == {now}

\* A message of zone z.
Handle(g, z) ==
    /\ At(g, "idle")
    /\ \E t \in HandlerTime : hand' = [h \in Goroutines |->
                  IF h = g THEN [Free(g) EXCEPT !.pc = "update", !.zone = z, !.at = t,
                                                !.solo = Busy(z) = {}]
                  ELSE [hand[h] EXCEPT !.solo = @ /\ h \notin Busy(z)]]
    /\ UNCHANGED <<now, mem, snapshot, alerts, lost, restarts>>

Recent(times, at) == SelectSeq(times, LAMBDA t : t + Window > at)

\* aggState.update, under the mutex.
Update(g) ==
    LET z   == hand[g].zone
        new == Recent(Append(window[z], hand[g].at), hand[g].at)
    IN  /\ At(g, "update")
        /\ Len(window[z]) < MaxQueue
        /\ window' = [window EXCEPT ![z] = new]
        /\ hand'   = [hand EXCEPT ![g].pc = "store", ![g].queue = Len(new)]
        /\ UNCHANGED <<now, lastAlert, snapshot, alerts, lost, restarts>>

\* EnsureZone and the upsert, which replaces whatever snapshot is there.
Written(g) == [at |-> hand[g].at, queue |-> hand[g].queue, solo |-> hand[g].solo]
UpsertZoneSnapshot(g) == snapshot' = [snapshot EXCEPT ![hand[g].zone] = Written(g)]

Store(g) ==
    /\ At(g, "store")
    /\ UpsertZoneSnapshot(g)
    /\ IF Level(hand[g].queue) = "" THEN Return(g) ELSE Goto(g, "check")
    /\ UNCHANGED <<now, mem, alerts, lost, restarts>>

\* An error of either statement ends the handler.
StoreFails(g) ==
    /\ At(g, "store")
    /\ UNCHANGED snapshot \/ UpsertZoneSnapshot(g)
    /\ Return(g)
    /\ UNCHANGED <<now, mem, alerts, lost, restarts>>

-----------------------------------------------------------------------------
(* aggState.alertIfNeeded, without the mutex, and CreateAlert.             *)

CoolingDown(z, at) == lastAlert[z] # 0 /\ at < lastAlert[z] + Cooldown

\* Mutant of Check: a silenced event starts the cooldown anew.
CheckTouches(g) ==
    /\ At(g, "check")
    /\ IF CoolingDown(hand[g].zone, hand[g].at)
       THEN /\ Return(g)
            /\ lastAlert' = [lastAlert EXCEPT ![hand[g].zone] = hand[g].at]
       ELSE /\ Goto(g, "mark")
            /\ UNCHANGED lastAlert
    /\ UNCHANGED <<now, window, snapshot, alerts, lost, restarts>>

Check(g) ==
    /\ At(g, "check")
    /\ IF CoolingDown(hand[g].zone, hand[g].at) THEN Return(g) ELSE Goto(g, "mark")
    /\ UNCHANGED <<now, mem, snapshot, alerts, lost, restarts>>

\* Mutant of Mark: the time of the alert is not remembered.
MarkNothing(g) ==
    /\ At(g, "mark")
    /\ Goto(g, "insert")
    /\ UNCHANGED <<now, mem, snapshot, alerts, lost, restarts>>

Mark(g) ==
    /\ At(g, "mark")
    /\ lastAlert' = [lastAlert EXCEPT ![hand[g].zone] = hand[g].at]
    /\ Goto(g, "insert")
    /\ UNCHANGED <<now, window, snapshot, alerts, lost, restarts>>

Alert(g) == [zone |-> hand[g].zone, at |-> hand[g].at, level |-> Level(hand[g].queue),
             by |-> g, life |-> restarts, solo |-> hand[g].solo]

CreateAlert(g) ==
    /\ At(g, "insert")
    /\ alerts' = alerts \cup {Alert(g)}
    /\ Return(g)
    /\ UNCHANGED <<now, mem, snapshot, lost, restarts>>

\* Nothing is inserted, and the cooldown has started all the same.  (An insert
\* that took effect before its error looks like CreateAlert here.)
CreateAlertFails(g) ==
    /\ At(g, "insert")
    /\ lost' = lost \cup {[zone |-> hand[g].zone, at |-> hand[g].at]}
    /\ Return(g)
    /\ UNCHANGED <<now, mem, snapshot, alerts, restarts>>

-----------------------------------------------------------------------------
\* The process dies and starts again, with empty maps.
Restart ==
    /\ restarts < MaxRestarts
    /\ restarts'  = restarts + 1
    /\ window'    = [z \in Zones |-> <<>>]
    /\ lastAlert' = [z \in Zones |-> 0]
    /\ hand'      = [g \in Goroutines |-> Free(g)]
    /\ UNCHANGED <<now, snapshot, alerts, lost>>

\* Two goroutines use the map lastAlert at once and one of them writes: the Go
\* runtime may end the process, or nothing shows.
MapRace ==
    /\ \E g, h \in Goroutines : g # h /\ At(g, "mark") /\ hand[h].pc \in {"check", "mark"}
    /\ Restart

Tick ==
    /\ now < MaxTime
    /\ now' = now + 1
    /\ UNCHANGED <<mem, hand, snapshot, alerts, lost, restarts>>

Next ==
    \/ \E g \in Goroutines :
        \/ \E z \in Zones : Handle(g, z)
        \/ Update(g)
        \/ Store(g) \/ StoreFails(g)
        \/ Check(g) \/ Mark(g)
        \/ CreateAlert(g) \/ CreateAlertFails(g)
    \/ Restart
    \/ MapRace
    \/ Tick

Spec == Init /\ [][Next]_vars

-----------------------------------------------------------------------------
(* Properties                                                              *)

Snapshot == [at : 0 .. MaxTime, queue : 0 .. MaxQueue, solo : BOOLEAN]

TypeOK ==
    /\ now \in 1 .. MaxTime
    /\ \A z \in Zones : /\ Len(window[z]) <= MaxQueue
                        /\ \A i \in DOMAIN window[z] : window[z][i] \in 1 .. MaxTime
    /\ lastAlert \in [Zones -> 0 .. MaxTime]
    /\ hand \in [Goroutines -> [pc : {"idle", "update", "store", "check", "mark", "insert"},
                                zone : Zones, at : 0 .. MaxTime, queue : 0 .. MaxQueue,
                                solo : BOOLEAN]]
    /\ snapshot \in [Zones -> Snapshot]
    /\ alerts \subseteq [zone : Zones, at : 1 .. MaxTime, level : {"L1", "L2", "L3"},
                         by : Goroutines, life : 0 .. MaxRestarts, solo : BOOLEAN]
    /\ lost \subseteq [zone : Zones, at : 1 .. MaxTime]
    /\ restarts \in 0 .. MaxRestarts

\* After an alert that no other handler of the zone overlapped, the next one of
\* the same process comes a cooldown later at the earliest, also when later
\* handlers race with one another and put lastAlert back.
AlertsAreSpaced ==
    \A a, b \in alerts :
        /\ a # b /\ a.zone = b.zone /\ a.life = b.life
        /\ a.solo
        /\ a.at < b.at \/ (a.at = b.at /\ b.solo)
        => a.at + Cooldown <= b.at

\* A zone is kept silent only for an alert that is in the table, about to be
\* inserted, or was lost in a failed insert.
SilenceHasCause ==
    \A z \in Zones : lastAlert[z] # 0 =>
        \/ \E a \in alerts : a.zone = z /\ a.at = lastAlert[z]
        \/ \E g \in Goroutines : At(g, "insert") /\ hand[g].zone = z /\ hand[g].at = lastAlert[z]
        \/ [zone |-> z, at |-> lastAlert[z]] \in lost

\* The upsert has no guard on updated_at: a zone's snapshot is replaced by an
\* older one only by a handler that another one of the zone overlapped, and a
\* death of the process in between changes nothing about that.
SnapshotsMoveForward ==
    [][\A z \in Zones : snapshot'[z].solo => snapshot'[z].at >= snapshot[z].at]_vars
=============================================================================
