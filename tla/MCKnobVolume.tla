-------------------------- MODULE MCKnobVolume --------------------------
(* A range of three levels and three clicks: turns reach both ends, and a   *)
(* turn can be sent, confirmed and reversed before the knob settles.       *)
EXTENDS KnobVolume
====
