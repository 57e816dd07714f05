--------------------------- MODULE MCSessionDrain ---------------------------
(* Instances of SessionDrain for TLC: steers, queued prompts and queued commands as model values. *)
EXTENDS SessionDrain

CONSTANTS s1, s2, q1

OneSteer == {s1}
TwoSteers == {s1, s2}
OneQueued == {q1}
NoCommands == {}
OneCommandEach == {s2, q1}
=============================================================================
