-------------------------- MODULE MCBridgeSync --------------------------
(* The ticker and one request at a time, one knob.  Volumes and tracks are *)
(* only compared, so that it does not matter with which the amplifier      *)
(* starts.  Each behaviour has one set of bounds.                          *)
EXTENDS BridgeSync

CONSTANTS v1, v2, a, b

MCVolume == {v1, v2}
MCTrack  == {a, b}

Bound(c, r, f, j) == [changes |-> c, reboots |-> r, failures |-> f, joins |-> j]

SyncBounds == {Bound(2, 0, 0, 1), Bound(1, 1, 1, 0)}
OneChange  == {Bound(1, 0, 0, 1)}
TwoChanges == {Bound(2, 0, 0, 1)}

MCInit   == Init /\ amp.vol = v1 /\ amp.track = a
MCSpec   == MCInit /\ [][Next]_vars /\ Fairness
MCSafety == MCInit /\ [][Next]_vars
====
