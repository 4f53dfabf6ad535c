------------------------------- MODULE MCRobot -------------------------------
(* Small instances of RobotReports for TLC.  The worker and the API share  *)
(* no state, so each behaviour explores one of them, the other one rests.  *)
EXTENDS RobotReports, TLC

VARIABLE subject  \* "worker" or "api"

TwoThreeFour == <<2, 3, 4>>

Symmetry == Permutations(Goroutines)

MCInit == /\ subject \in {"worker", "api"}
          /\ Init
          /\ Api!Init
          /\ subject = "worker" => name = Api!Nobody

MCNext == /\ UNCHANGED subject
          /\ \/ subject = "worker" /\ Next /\ UNCHANGED apiVars
             \/ subject = "api" /\ Api!Next /\ UNCHANGED vars

MCSpec == MCInit /\ [][MCNext]_<<subject, vars, apiVars>>
=============================================================================
