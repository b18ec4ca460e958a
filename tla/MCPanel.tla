------------------------------- MODULE MCPanel -------------------------------
(* Three parts of the knob that share nothing: one runs in each behaviour. *)
EXTENDS NowPlaying, Battery, Encoder

CONSTANTS t1, silence

MCTracks == {t1, silence}
MCPositions == {<<15, 10>>, <<5, 0>>}
MCVoltages == {0, 3240, 3300, 3380, 3480, 3500, 3510, 3520, 4000, 4160}

VARIABLE part

PanelInit ==
    /\ part \in {"playing", "battery", "encoder"}
    /\ Init /\ BatteryInit /\ EncoderInit
    /\ part = "encoder" \/ \A c \in Channels : contact[c] = 1

PanelNext ==
    /\ part' = part
    /\ \/ part = "playing" /\ Next /\ UNCHANGED <<batteryVars, encoderVars>>
       \/ part = "battery" /\ BatteryNext /\ UNCHANGED <<vars, encoderVars>>
       \/ part = "encoder" /\ EncoderNext /\ UNCHANGED <<vars, batteryVars>>

PanelSpec == PanelInit /\ [][PanelNext]_<<part, vars, batteryVars, encoderVars>>
=============================================================================
