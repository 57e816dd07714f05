--------------------------- MODULE MCNodeExecutions ---------------------------
(***************************************************************************)
(* NodeExecutions on a host with one slot and two release runtimes.        *)
(***************************************************************************)
EXTENDS NodeExecutions, TLC

CONSTANTS e1, e2, e3, r1, r2

OneSlot == {1}
OneOwner == (e1 :> r1) @@ (e2 :> r1)
SharedOwners == (e1 :> r1) @@ (e2 :> r1) @@ (e3 :> r2)
TwoOwners == (e1 :> r1) @@ (e2 :> r2)
BothStops == {"cancel", "interrupt"}
OnlyCancel == {"cancel"}
===============================================================================
