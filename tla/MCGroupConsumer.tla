--------------------------- MODULE MCGroupConsumer ---------------------------
(* Small instances of GroupConsumer for TLC.                               *)
EXTENDS GroupConsumer

CONSTANTS p1, c1, c2, e1, e2

OnePartition == {p1}
TwoConsumers == {c1, c2}
TwoEvents    == {e1, e2}

AllFaults == {"handler", "commit", "crash", "rebalance"}
=============================================================================
