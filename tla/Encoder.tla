------------------------------ MODULE Encoder ------------------------------
(***************************************************************************)
(* The decoding of the rotary encoder by polling: per channel a debounce   *)
(* counter and a level, and a click when a level falls. The contacts       *)
(* bounce for some polls after each change; one channel falls and rises    *)
(* per detent, A for clockwise and B for counter-clockwise.                *)
(***************************************************************************)
EXTENDS Integers

CONSTANTS
    kDebounceThreshold,  \* polls that a new level must last
    MaxBounce,           \* polls for which a contact bounces after it moved
    MaxTurns             \* bound on the detents turned

ASSUME EncoderAssumption ==
    /\ kDebounceThreshold \in Nat \ {0} /\ MaxTurns \in Nat
    /\ MaxBounce \in 0..(2 * kDebounceThreshold - 1)

VARIABLES
    contact,        \* where the contacts are, 1 when open
    bounce,         \* polls for which a contact may still read either level
    calm,           \* polls since a contact moved, as far as it matters
    level, count,   \* level_a, level_b; debounce_a, debounce_b
    prev,           \* prev_a, prev_b
    turned, heard   \* detents turned, and clicks sent to the queue

Channels == {"a", "b"}
Directions == {"cw", "ccw"}
Settled == MaxBounce + kDebounceThreshold
Of(c) == IF c = "a" THEN "cw" ELSE "ccw"

shaftVars == <<contact, bounce, calm, turned>>
stateVars == <<level, count, prev, heard>>
encoderVars == <<shaftVars, stateVars>>

\* encoder_init reads the levels of contacts at rest, one of them closed if
\* the knob rests between two detents.
EncoderInit ==
    /\ contact \in [Channels -> 0..1] /\ \E c \in Channels : contact[c] = 1
    /\ bounce = [c \in Channels |-> 0] /\ calm = Settled
    /\ level = contact /\ prev = contact
    /\ count = [c \in Channels |-> 0]
    /\ turned = [d \in Directions |-> 0] /\ heard = turned

-----------------------------------------------------------------------------
(* The shaft: slow enough for a contact to settle before the next moves *)

Moves(c, to) ==
    /\ calm = Settled
    /\ contact[c] # to /\ contact' = [contact EXCEPT ![c] = to]
    /\ bounce' = [bounce EXCEPT ![c] = MaxBounce]
    /\ calm' = 0
    /\ UNCHANGED stateVars

Closes(c) ==
    /\ \A o \in Channels : contact[o] = 1
    /\ turned[Of(c)] < MaxTurns
    /\ turned' = [turned EXCEPT ![Of(c)] = @ + 1]
    /\ Moves(c, 0)

Opens(c) == Moves(c, 1) /\ UNCHANGED turned

-----------------------------------------------------------------------------
(* poll_cb, every 3 ms *)

\* A plausible mistake: the counter is not reset when the level comes back.
DebouncedWithoutReset(c, raw) ==
    IF raw = level[c] THEN [level |-> level[c], count |-> count[c]]
    ELSE IF count[c] + 1 >= kDebounceThreshold THEN [level |-> raw, count |-> 0]
    ELSE [level |-> level[c], count |-> count[c] + 1]

\* The debounce of one channel for a raw reading
Debounced(c, raw) ==
    IF raw = level[c] THEN [level |-> level[c], count |-> 0]
    ELSE IF count[c] + 1 >= kDebounceThreshold THEN [level |-> raw, count |-> 0]
    ELSE [level |-> level[c], count |-> count[c] + 1]

Fell(c, new) == prev[c] = 1 /\ new[c].level = 0

Clicks(new) ==
    IF Fell("a", new) THEN (IF new["b"].level = 1 THEN {"cw"} ELSE {"ccw"})
    ELSE IF Fell("b", new) THEN (IF new["a"].level = 1 THEN {"ccw"} ELSE {"cw"})
    ELSE {}

Raw(c) == IF bounce[c] > 0 THEN 0..1 ELSE {contact[c]}

Poll ==
    \E a \in Raw("a"), b \in Raw("b") :
        LET new == [c \in Channels |-> Debounced(c, IF c = "a" THEN a ELSE b)] IN
        /\ level' = [c \in Channels |-> new[c].level]
        /\ count' = [c \in Channels |-> new[c].count]
        /\ prev' = level'
        /\ heard' = [d \in Directions |-> heard[d] + IF d \in Clicks(new) THEN 1 ELSE 0]
        /\ bounce' = [c \in Channels |-> IF bounce[c] > 0 THEN bounce[c] - 1 ELSE 0]
        /\ calm' = IF calm < Settled THEN calm + 1 ELSE calm
        /\ UNCHANGED <<contact, turned>>

EncoderNext == (\E c \in Channels : Closes(c) \/ Opens(c)) \/ Poll

EncoderSpec == EncoderInit /\ [][EncoderNext]_encoderVars

-----------------------------------------------------------------------------
D == INSTANCE Detents

\* The decoder implements Detents: however the contacts bounce, for fewer
\* polls than twice the threshold, every detent is heard as exactly one click
\* in its direction before the next one, and none is heard that was not turned.
CountsDetents == D!Spec
=============================================================================
