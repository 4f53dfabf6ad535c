----------------------------- MODULE RequestPath -----------------------------
(***************************************************************************)
(* What a request meets outside the API: the core's decisions (Scheduler), *)
(* the gateway's routing (Gateway), and the settings every service starts  *)
(* with (Config).  The three share no state.                               *)
(***************************************************************************)
EXTENDS Integers

CONSTANTS
    Warehouses, Blank, CandidateLists, Robots, RobotLists, MaxTasks,  \* Scheduler
    Places, Clusters, None, MaxRoutes, MaxEvents,                     \* Gateway
    Raws, Defaults, PortLimit, Absent, Junk, NaN, MaxEntries          \* Config

VARIABLES
    request, assigned, loads, order, schedule, result,                       \* Scheduler
    table, problems, resolver, producers, log, answers,                      \* Gateway
    env, envTexts, envName, explicit, file, stage, applied, named,           \* Config
    cfg, texts, name, issues                                                 \* Config

coreVars == <<request, assigned, loads, order, schedule, result>>
gateVars == <<table, problems, resolver, producers, log, answers>>
confVars == <<<<env, envTexts, envName, explicit, file>>, stage, applied, named, cfg, texts, name, issues>>

Core == INSTANCE Scheduler
Gate == INSTANCE Gateway
Conf == INSTANCE Config WITH problems <- issues

\* See each component for why its assumption is justified.
ASSUME PathAssumption ==
    /\ Core!SchedulerAssumption
    /\ Gate!GatewayAssumption
    /\ Conf!ConfigAssumption

\* Each of the three behaves as its component says.
PathSpec == Core!Spec /\ Gate!Spec /\ Conf!Spec

-----------------------------------------------------------------------------
(* Properties                                                              *)

\* global-assign: moving the last chosen task of a warehouse to another of its
\* candidates would never make the fuller of the two less full.
NoMovePays == Core!NoMovePays

\* local-schedule: every task once, in the right order, and no robot two tasks
\* ahead of another.
ScheduleIsFair == Core!ScheduleIsFair

\* ResolveCluster: all events of a place go to one cluster, that of its route
\* when it has one, however the place is spelled.
OneClusterPerPlace == Gate!OneClusterPerPlace

\* handleIngest: the 503 for a cluster without a producer is never sent.
TargetsAreReachable == Gate!TargetsAreReachable

\* Load: a number is what the last source says, or it is reported, and the numbers
\* have passed every check at once; a text is the last usable one.
SettingsExplained == Conf!SettingsExplained

\* IMPLEMENTATION_PLAN.md:53: the environment takes precedence over the file.
EnvironmentWins == Conf!EnvironmentWins
=============================================================================
