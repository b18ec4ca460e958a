----------------------------- MODULE Coalescer -----------------------------
(***************************************************************************)
(* What a throttle of values promises: of the values that come in, the     *)
(* latest one waits, and one that goes out does so an interval, at least,  *)
(* after the one before it.                                                *)
(***************************************************************************)
EXTENDS Integers

CONSTANTS Value, None, Interval

VARIABLES
    waiting,  \* the value that will go out next, or None
    last,     \* the value that came in last, or None
    count,    \* number of values that came in
    since     \* time since a value went out, up to Interval

coalescerVars == <<waiting, last, count, since>>

Init == waiting = None /\ last = None /\ count = 0 /\ since = Interval

Enter(v) == waiting' = v /\ last' = v /\ count' = count + 1 /\ UNCHANGED since

Leave ==
    /\ waiting # None /\ since = Interval
    /\ waiting' = None /\ since' = 0 /\ UNCHANGED <<last, count>>

TimePasses == since < Interval /\ since' = since + 1 /\ UNCHANGED <<waiting, last, count>>

Next == (\E v \in Value : Enter(v)) \/ Leave \/ TimePasses

Spec == Init /\ [][Next]_coalescerVars
=============================================================================
