---------------------------- MODULE MCHostCapacity ----------------------------
(***************************************************************************)
(* HostCapacity on a small host.                                           *)
(***************************************************************************)
EXTENDS HostCapacity, TLC

CapacityValues == {1, 2}
===============================================================================
