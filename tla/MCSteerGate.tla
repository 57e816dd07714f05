----------------------------- MODULE MCSteerGate -----------------------------
(* Two requests that steer one subagent. *)
EXTENDS SteerGate

CONSTANTS s1, s2
TwoSteers == {s1, s2}
=============================================================================
