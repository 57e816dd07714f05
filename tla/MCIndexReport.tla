---------------------------- MODULE MCIndexReport ----------------------------
(* Instances of IndexReport: two executions, two host processes, two sockets. *)
EXTENDS IndexReport

CONSTANTS e1, e2, c1, c2

TwoExecutions == {e1, e2}
OnePrepared == {e1}
TwoConnections == {c1, c2}
=============================================================================
