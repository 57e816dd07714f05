------------------------------ MODULE MCDispatch ------------------------------
(* Constants of the runs of Dispatch.                                       *)
EXTENDS Dispatch

CONSTANTS n1, n2, q1, q2, c1, c2

TwoNodes == {n1, n2}
TwoInputs == {q1, q2}
TwoCalls == {c1, c2}
===============================================================================
