------------------------------ MODULE MCOutbox ------------------------------
(* Small instances of Outbox for TLC.                                      *)
EXTENDS Outbox, TLC

CONSTANTS w1, w2, t1, t2, t3

OneEvent  == {1}
TwoEvents == {1, 2}

OneWorker  == {w1}
TwoWorkers == {w1, w2}

OneTask    == {t1}
TwoTasks   == {t1, t2}
ThreeTasks == {t1, t2, t3}

AllFaults == {"crash", "db", "kafka", "redis"}
NetFaults == {"kafka", "redis"}
CrashOnly == {"crash"}

\* Handlers are interchangeable, and so are task slots.
Symmetry == Permutations({w1, w2}) \cup Permutations({t1, t2, t3})
=============================================================================
