--------------------------- MODULE MCDagScheduler ---------------------------
(* Small DAGs for TLC. *)
EXTENDS DagScheduler

\* A step, one that needs its success, and a finalizer that runs whatever becomes of it.
ThreeSteps == {"fetch", "build", "clean"}
ThreeNeeds == [fetch |-> {}, build |-> {"fetch"}, clean |-> {"fetch"}]
=============================================================================
