------------------------------ MODULE Gateway ------------------------------
(***************************************************************************)
(* The ingest gateway: it loads a routing table once, opens a producer for *)
(* each cluster, and sends every event to the cluster of its tenant and    *)
(* warehouse, or to the default one.  It starts, not ready, also with a    *)
(* table it could not load.                                                *)
(*                                                                         *)
(* A place is a pair of tenant and warehouse.  It is written "plain", with *)
(* other case or spaces ("case"), or with the tenant's UUID in another     *)
(* form that uuid.Parse takes ("urn").                                     *)
(***************************************************************************)
EXTENDS Naturals, Sequences, Functions

CONSTANTS
    Places,     \* pairs of tenant and warehouse
    Clusters,   \* cluster names
    None,       \* no cluster
    MaxRoutes,  \* bound: routes of the table
    MaxEvents   \* bound: ingest requests

GatewayAssumption == {MaxRoutes, MaxEvents} \subseteq Nat /\ Clusters # {}

VARIABLES
    table,      \* the routes file
    problems,   \* readyProblems
    resolver,   \* [clusters, index, default] as loaded, empty when that failed
    producers,  \* clusters with a producer
    log,        \* what Kafka holds: [place, form, cluster, id]
    answers     \* the responses so far: [status, id], id 0 when none is told

vars == <<table, problems, resolver, producers, log, answers>>

Forms  == {"plain", "case", "urn"}
BlankForm  == "blank"
Routes == [place : Places, form : Forms, cluster : Clusters] \cup
          [place : Places, form : {BlankForm}, cluster : {CHOOSE c \in Clusters : TRUE}]

\* clusters: whether each cluster of the file has brokers.
Tables ==
    [readable : {TRUE},
     clusters : UNION {[names -> BOOLEAN] : names \in SUBSET Clusters},
     default  : Clusters \cup {None},
     routes   : UNION {[1 .. n -> Routes] : n \in 0 .. MaxRoutes}]
    \cup
    [readable : {FALSE}, clusters : {<<>>}, default : {None}, routes : {<<>>}]

Empty == [clusters |-> {}, index |-> <<>>, default |-> None]

Start ==
    /\ problems  = {}
    /\ resolver  = Empty
    /\ producers = {}
    /\ log       = {}
    /\ answers   = <<>>

Init == table \in Tables /\ Start

-----------------------------------------------------------------------------
\* Mutant of RouteKey: the key keeps the case it was written in.
RouteKeyAsWritten(place, form) == <<place, form>>

\* Trimmed and in lower case.
RouteKey(place, form) == <<place, IF form = "case" THEN "plain" ELSE form>>

KeyOf(route) == RouteKey(route.place, route.form)

\* Mutant of Loadable: the default cluster is not looked up.
LoadableAnyDefault(t) ==
    /\ t.readable
    /\ DOMAIN t.clusters # {}
    /\ \A c \in DOMAIN t.clusters : t.clusters[c]
    /\ \A n \in DOMAIN t.routes :
        /\ t.routes[n].form # BlankForm
        /\ t.routes[n].cluster \in DOMAIN t.clusters
        /\ \A k \in DOMAIN t.routes : KeyOf(t.routes[k]) = KeyOf(t.routes[n]) => k = n

\* Load's checks: clusters, their brokers, every route, the default.
Loadable(t) ==
    /\ t.readable
    /\ DOMAIN t.clusters # {}
    /\ \A c \in DOMAIN t.clusters : t.clusters[c]
    /\ \A n \in DOMAIN t.routes :
        /\ t.routes[n].form # BlankForm
        /\ t.routes[n].cluster \in DOMAIN t.clusters
        /\ \A k \in DOMAIN t.routes : KeyOf(t.routes[k]) = KeyOf(t.routes[n]) => k = n
    /\ t.default # None => t.default \in DOMAIN t.clusters

Index(t) ==
    [key \in {KeyOf(t.routes[n]) : n \in DOMAIN t.routes} |->
        (CHOOSE r \in Range(t.routes) : KeyOf(r) = key).cluster]

Starting == problems = {} /\ resolver = Empty

Load ==
    /\ Starting /\ Loadable(table)
    /\ resolver'  = [clusters |-> DOMAIN table.clusters,
                     index    |-> Index(table), default |-> table.default]
    /\ producers' = DOMAIN table.clusters
    /\ UNCHANGED <<table, problems, log, answers>>

\* The service runs on without a route; readyz tells.
LoadFails ==
    /\ Starting /\ ~Loadable(table)
    /\ problems' = {"routes"}
    /\ UNCHANGED <<table, resolver, producers, log, answers>>

-----------------------------------------------------------------------------
(* POST /v1/ingest *)

Serving == ~Starting /\ Len(answers) < MaxEvents

Respond(status, id) == answers' = Append(answers, [status |-> status, id |-> id])

\* ResolveCluster
Target(place, form) ==
    LET key == RouteKey(place, form)
    IN  IF key \in DOMAIN resolver.index THEN resolver.index[key] ELSE resolver.default

\* 400: a body that does not decode, a field missing, or an id that is no UUID.
Reject ==
    /\ Respond("invalid", 0)
    /\ UNCHANGED <<table, problems, resolver, producers, log>>

\* 400 without a route and a default, 503 without a producer.
TurnDown(place, form) ==
    /\ Target(place, form) \notin producers
    /\ Respond(IF Target(place, form) = None THEN "no route" ELSE "unavailable", 0)
    /\ UNCHANGED <<table, problems, resolver, producers, log>>

\* Each event has an id of its own, also a client's second try.
Event(place, form) ==
    [place |-> place, form |-> form, cluster |-> Target(place, form), id |-> Len(answers) + 1]

Publish(place, form) ==
    /\ Target(place, form) \in producers
    /\ log' = log \cup {Event(place, form)}
    /\ Respond("accepted", Len(answers) + 1)
    /\ UNCHANGED <<table, problems, resolver, producers>>

\* An error, with or without the event written.
PublishFails(place, form) ==
    /\ Target(place, form) \in producers
    /\ log' \in {log, log \cup {Event(place, form)}}
    /\ Respond("failed", 0)
    /\ UNCHANGED <<table, problems, resolver, producers>>

Next ==
    \/ Load \/ LoadFails
    \/ Serving /\ Reject
    \/ Serving /\ \E place \in Places, form \in Forms :
        TurnDown(place, form) \/ Publish(place, form) \/ PublishFails(place, form)

Spec == Init /\ [][Next]_vars

-----------------------------------------------------------------------------
(* Properties                                                              *)

TypeOK ==
    /\ table     \in Tables
    /\ problems  \subseteq {"routes"}
    /\ producers \subseteq Clusters
    /\ log       \subseteq [place : Places, form : Forms, cluster : Clusters, id : 1 .. MaxEvents]
    /\ Range(answers) \subseteq [status : {"invalid", "no route", "unavailable", "accepted", "failed"},
                                 id : 0 .. MaxEvents]

Spelled == {"plain", "case"}

\* All events of a place go to one cluster, however tenant and warehouse are
\* spelled in the event and in the table; and to the cluster of its route when
\* it has one.  Only another form of the tenant's UUID may miss the route.
OneClusterPerPlace ==
    \A e \in log : e.form \in Spelled =>
        /\ \A f \in log : f.form \in Spelled /\ f.place = e.place => f.cluster = e.cluster
        /\ \A r \in Range(table.routes) :
            r.form \in Spelled /\ r.place = e.place => r.cluster = e.cluster

\* A cluster an event is to be sent to has a producer, whatever the table says
\* and whether or not it was loaded: the 503 for a missing one is never sent.
TargetsAreReachable ==
    \A n \in DOMAIN answers : answers[n].status # "unavailable"
=============================================================================
