----------------------------- MODULE MCTaskStore -----------------------------
(* Small instances of TaskStore for TLC.                                   *)
EXTENDS TaskStore, TLC

CONSTANTS k1, g1, g2, p1

OneKey  == {k1}

NoRequest  == {}
TwoGo      == {g1, g2}
OnePython  == {p1}

\* Every status, and one the table does not know.
AllTargets == TaskStatuses \cup {Unknown}
\* Statuses no request for which can be rejected: a task is pending or running.
NeverRejected == {"running"}

Symmetry == Permutations({g1, g2})
=============================================================================
