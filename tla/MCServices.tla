----------------------------- MODULE MCServices -----------------------------
(* Small instances, for TLC, of what the services keep and decide: the     *)
(* task lock and cache in Redis (TaskCache), the buckets, the breaker and  *)
(* the keys in the API's memory (ApiState), and the core's decisions, the  *)
(* gateway's routes and the settings (RequestPath).  They share no state   *)
(* with each other, so each behaviour explores one of them and the others  *)
(* rest.                                                                   *)
EXTENDS TaskCache, ApiState, RequestPath, FiniteSets, TLC

CONSTANTS w1, w2, w3, b1, b2

VARIABLE subject

\* Callers of one kind are alike; Requests, Calls and Verifiers are the same set.
Symmetry == Permutations(Calls)

Candidates == {<<>>, <<w1, w2>>, <<w2, Blank, w1>>, <<w3, w2>>, <<Blank>>}
Fleets     == {<<>>, <<b1>>, <<b2, b1>>, <<b1, Blank, b2>>, <<b1, b1, b2>>}

FewRaws     == [port |-> {9, 1}, max |-> {-1, 1}, min |-> {Junk, -1, 3}, ratio |-> {NaN, 2}]
FewDefaults == [port |-> 3, max |-> 2, min |-> 1, ratio |-> 1]

\* Only min and max have to do with each other: the environment gives at most two
\* settings, the file at most MaxEntries.
FewGiven == Cardinality({s \in Conf!Settings : env[s] # Absent})
              + Cardinality({t \in Conf!Texts : envTexts[t] # Absent}) <= 2

\* What the inputs of a component at rest are.
NoRequest == [kind |-> "global", complete |-> FALSE, tasks |-> <<>>, robots |-> <<>>]
NoTable   == [readable |-> FALSE, clusters |-> <<>>, default |-> None, routes |-> <<>>]
NoInputs  ==
    /\ env      = [s \in Conf!Settings |-> Absent]
    /\ envTexts = [t \in Conf!Texts |-> Absent]
    /\ envName  = Absent
    /\ explicit = FALSE
    /\ file     = [state |-> "missing", entries |-> <<>>]

MCInit ==
    /\ subject \in {"cache", "rate", "ai", "jwks", "core", "gateway", "config"}
    /\ Init /\ Rate!Init /\ Ai!Init /\ Jwks!Init
    /\ subject # "jwks" => ~python
    /\ Core!Start /\ IF subject = "core" THEN request \in Core!RequestSet ELSE request = NoRequest
    /\ Gate!Start /\ IF subject = "gateway" THEN table \in Gate!Tables ELSE table = NoTable
    /\ IF subject = "config" THEN Conf!Inputs /\ FewGiven ELSE NoInputs
    /\ Conf!Start

ApiNext ==
    \/ subject = "rate" /\ Rate!Next /\ UNCHANGED <<aiVars, jwksVars>>
    \/ subject = "ai"   /\ Ai!Next   /\ UNCHANGED <<rateVars, jwksVars>>
    \/ subject = "jwks" /\ Jwks!Next /\ UNCHANGED <<rateVars, aiVars>>

PathNext ==
    \/ subject = "core"    /\ Core!Next /\ UNCHANGED <<gateVars, confVars>>
    \/ subject = "gateway" /\ Gate!Next /\ UNCHANGED <<coreVars, confVars>>
    \/ subject = "config"  /\ Conf!Next /\ UNCHANGED <<coreVars, gateVars>>

apiVars  == <<rateVars, aiVars, jwksVars>>
pathVars == <<coreVars, gateVars, confVars>>

MCNext ==
    /\ UNCHANGED subject
    /\ \/ subject = "cache" /\ Next /\ UNCHANGED <<apiVars, pathVars>>
       \/ ApiNext /\ UNCHANGED <<vars, pathVars>>
       \/ PathNext /\ UNCHANGED <<vars, apiVars>>

MCSpec == MCInit /\ [][MCNext]_<<subject, vars, apiVars, pathVars>>
=============================================================================
