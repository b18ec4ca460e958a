------------------------------ MODULE Detents ------------------------------
(***************************************************************************)
(* What the decoding of the rotary encoder promises: every detent that the *)
(* knob is turned by is heard as one click in its direction, before the    *)
(* next one is turned.                                                     *)
(***************************************************************************)
EXTENDS Integers

VARIABLES
    turned,  \* detents turned, per direction
    heard    \* clicks queued for the encoder's task, per direction

Directions == {"cw", "ccw"}

Init == turned = [d \in Directions |-> 0] /\ heard = turned

Turn(d) ==
    /\ heard = turned
    /\ turned' = [turned EXCEPT ![d] = @ + 1]
    /\ UNCHANGED heard

Hear(d) ==
    /\ heard[d] < turned[d]
    /\ heard' = [heard EXCEPT ![d] = @ + 1]
    /\ UNCHANGED turned

Next == \E d \in Directions : Turn(d) \/ Hear(d)

Spec == Init /\ [][Next]_<<turned, heard>>
=============================================================================
