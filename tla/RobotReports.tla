---------------------------- MODULE RobotReports ----------------------------
(***************************************************************************)
(* What becomes of a robot's report: the API keeps and answers it          *)
(* (RobotStatus), and the congestion worker counts it (CongestionWorker).  *)
(* The two share no state; what is between them, the outbox and the topic, *)
(* is the subject of Outbox and of GroupConsumer.                          *)
(***************************************************************************)
EXTENDS CongestionWorker

CONSTANTS
    Requests, Stamps, CacheTTL, Deadline  \* RobotStatus

VARIABLES
    clock, name, lastPut, stored, storedAt, cache, req  \* RobotStatus

apiVars == <<clock, name, lastPut, stored, storedAt, cache, req>>

Api == INSTANCE RobotStatus WITH now <- clock

\* See RobotStatus.
ASSUME ApiAssumption == Api!StatusAssumption

\* The worker and the API each behave as their module says.
ReportsSpec == Spec /\ Api!Spec

-----------------------------------------------------------------------------
(* Properties                                                              *)

\* getStatus: some time after the last report came, a cached status is a newest
\* one.
CacheSettles == Api!CacheSettles

\* putRobot and reportStatus: a name given while no report was between its read
\* and its write of the row stays until the next PUT.
RenameSticks == Api!RenameSticks
=============================================================================
