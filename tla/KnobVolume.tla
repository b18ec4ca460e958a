--------------------------- MODULE KnobVolume ---------------------------
(***************************************************************************)
(* The volume on the knob: the encoder's queue and encoder_task (main.cpp),*)
(* the two values of the volume arc and their settle timer                 *)
(* (progress_ui.cpp), and the throttled sending and the events received    *)
(* (bridge_discovery.cpp).  Four tasks of the firmware take part: the      *)
(* encoder's, the WebSocket client's, LVGL's and that of esp_timer.        *)
(*                                                                         *)
(* The bridge is external here, and better than the real one: it applies   *)
(* volume commands in order, may skip one that a later one follows, tells  *)
(* the knob what changed in the order in which it changed, and reads a     *)
(* snapshot and registers the knob at once.  VolumeThrottle and BridgeSync *)
(* look inside it and show in which races that is not so (LastTurnWins,    *)
(* KnobShowsCache): what is said of the volume here holds outside them.    *)
(* The animation of a snap (animate_arc_to, progress_ui.cpp:247) is not    *)
(* modelled: confirmed is s_confirmed, which the arc reaches when no       *)
(* animation that an earlier snap started is still running.                *)
(***************************************************************************)
EXTENDS Integers, Sequences, FiniteSets

CONSTANTS
    Top,          \* the range is 0..Top; 100 in the code
    QueueDepth,   \* kQueueDepth
    MaxDetents,   \* bound of the model: clicks of the knob
    MaxChanges,   \* bound of the model: volume changes made elsewhere
    MaxStates,    \* bound of the model: whole states sent for other reasons
    MaxFailures,  \* bound of the model: commands the bridge cannot carry out
    MaxDrops      \* bound of the model: connections lost

ASSUME KnobAssumption ==
    /\ Top \in Nat \ {0} /\ QueueDepth \in Nat \ {0}
    /\ {MaxDetents, MaxChanges, MaxStates, MaxFailures, MaxDrops} \subseteq Nat

Nothing == -1   \* s_pending_volume, s_pending

VARIABLES
    detents,    \* the encoder's queue
    pc,         \* control point of encoder_task
    delta,      \* its local: how far to turn
    actual,     \* its local: what progress_ui_adjust returned
    target,     \* s_target
    confirmed,  \* s_confirmed
    buffered,   \* s_pending of the UI
    active,     \* s_encoder_active
    settle,     \* s_settle_timer runs
    pending,    \* s_pending_volume of the throttle
    timer,      \* s_throttle_timer exists
    armed,      \* s_throttle_timer runs
    started,    \* history: s_throttle_timer was started at least once
    link,       \* the WebSocket is connected
    commands,   \* volumes sent and not handled by the bridge
    vol,        \* the bridge's volume
    events,     \* events sent and not handled by the knob
    failed,     \* history: a command failed and no whole state came since
    budget      \* what is left of the bounds

encoderVars == <<detents, pc, delta, actual>>
uiVars      == <<target, confirmed, buffered, active, settle>>
sendVars    == <<pending, timer, armed, started>>
wireVars    == <<link, commands, vol, events>>
vars        == <<encoderVars, uiVars, sendVars, wireVars, failed, budget>>

Level == 0..Top

TypeOK ==
    /\ detents \in Seq({-1, 1}) /\ Len(detents) <= QueueDepth
    /\ pc \in {"wait", "read", "adjust", "store", "arm"}
    /\ delta \in Int /\ actual \in Level
    /\ target \in Level /\ confirmed \in Level
    /\ buffered \in Level \cup {Nothing} /\ pending \in Level \cup {Nothing}
    /\ active \in BOOLEAN /\ settle \in BOOLEAN /\ link \in BOOLEAN
    /\ timer \in BOOLEAN /\ armed \in BOOLEAN /\ started \in BOOLEAN
    /\ commands \in Seq(Level) /\ vol \in Level
    /\ events \in Seq([kind : {"volume", "state"}, vol : Level])
    /\ failed \in BOOLEAN
    /\ budget \in [detents : 0..MaxDetents, changes : 0..MaxChanges, states : 0..MaxStates,
                   failures : 0..MaxFailures, drops : 0..MaxDrops]

Init ==
    /\ detents = <<>> /\ pc = "wait" /\ delta = 0 /\ actual = 0
    /\ target = 0 /\ confirmed = 0 /\ buffered = Nothing /\ active = FALSE /\ settle = FALSE
    /\ pending = Nothing /\ timer = FALSE /\ armed = FALSE /\ started = FALSE
    /\ link = FALSE /\ commands = <<>> /\ events = <<>> /\ vol \in Level
    /\ failed = FALSE
    /\ budget = [detents |-> MaxDetents, changes |-> MaxChanges, states |-> MaxStates,
                 failures |-> MaxFailures, drops |-> MaxDrops]

Spend(what) == budget[what] > 0 /\ budget' = [budget EXCEPT ![what] = @ - 1]

Clamp(x) == IF x < 0 THEN 0 ELSE IF x > Top THEN Top ELSE x

---------------------------------------------------------------------------
(* The encoder's timer and task                                            *)

\* poll_cb has seen a click; a full queue loses it.
Click(d) ==
    /\ Spend("detents")
    /\ detents' = IF Len(detents) < QueueDepth THEN Append(detents, d) ELSE detents
    /\ UNCHANGED <<pc, delta, actual, uiVars, sendVars, wireVars, failed>>

Number(d) == Cardinality({i \in DOMAIN detents : detents[i] = d})

\* encoder_task takes all there is and adds it up.
Drain ==
    /\ pc = "wait" /\ detents # <<>>
    /\ detents' = <<>>
    /\ delta' = Number(1) - Number(-1)
    /\ pc' = IF delta' = 0 THEN "wait" ELSE "read"
    /\ UNCHANGED <<actual, uiVars, sendVars, wireVars, failed, budget>>

\* It reads the target, without the lock, and shortens the turn to fit.
ReadTarget ==
    /\ pc = "read"
    /\ delta' = Clamp(target + delta) - target
    /\ pc' = IF delta' = 0 THEN "wait" ELSE "adjust"
    /\ UNCHANGED <<detents, actual, uiVars, sendVars, wireVars, failed, budget>>

\* progress_ui_adjust, under the LVGL lock
Turned(to) ==
    /\ pc = "adjust" /\ pc' = "store"
    /\ target' = to /\ actual' = to
    /\ active' = TRUE /\ settle' = TRUE
    /\ delta' = 0
    /\ UNCHANGED <<detents, confirmed, buffered, sendVars, wireVars, failed, budget>>

\* (defect) the turn was already clamped, before the lock was taken
AdjustUnclamped == Turned(target + delta)

Adjust == Turned(Clamp(target + delta))

\* bridge_send_volume: the value first, then the timer.
StorePending ==
    /\ pc = "store" /\ pc' = "arm"
    /\ pending' = actual
    /\ UNCHANGED <<detents, delta, actual, uiVars, timer, armed, started, wireVars, failed, budget>>

\* Before the timer exists, stopping and starting it fails and is not looked at.
Arm ==
    /\ pc = "arm" /\ pc' = "wait"
    /\ armed' = timer /\ started' = (started \/ timer) /\ actual' = 0
    /\ UNCHANGED <<detents, delta, uiVars, pending, timer, wireVars, failed, budget>>

---------------------------------------------------------------------------
(* bridge_discovery_init, and throttle_timer_cb                            *)

\* net_task has the network, or stopped waiting for it, and creates the
\* timer, then the task that connects.  The encoder may have turned before.
TimerCreated ==
    /\ ~timer /\ timer' = TRUE
    /\ UNCHANGED <<encoderVars, uiVars, pending, armed, started, wireVars, failed, budget>>

Fires(left) ==
    /\ armed /\ armed' = FALSE
    /\ pending' = left
    /\ commands' = IF pending # Nothing /\ link THEN Append(commands, pending) ELSE commands
    /\ UNCHANGED <<encoderVars, uiVars, timer, started, link, vol, events, failed, budget>>

\* (defect) a volume that cannot be sent is put back for later
ThrottleKeepsOffline == Fires(IF link THEN Nothing ELSE pending)

\* A volume that cannot be sent is dropped.
ThrottleFires == Fires(Nothing)

---------------------------------------------------------------------------
(* progress_ui.cpp                                                         *)

\* (defect) only the arc follows the confirmed value
SettleForgetsTarget ==
    /\ settle /\ settle' = FALSE
    /\ active' = FALSE /\ buffered' = Nothing
    /\ confirmed' = IF buffered # Nothing THEN buffered ELSE confirmed
    /\ UNCHANGED <<encoderVars, target, sendVars, wireVars, failed, budget>>

\* settle_timer_cb: no turn for 500ms.  What was buffered is applied; when
\* nothing was, the target stays where the knob left it.
SettleFires ==
    /\ settle /\ settle' = FALSE
    /\ active' = FALSE /\ buffered' = Nothing
    /\ IF buffered # Nothing THEN confirmed' = buffered /\ target' = buffered
                             ELSE UNCHANGED <<confirmed, target>>
    /\ UNCHANGED <<encoderVars, sendVars, wireVars, failed, budget>>

\* The next event, if the knob is connected.
Received(kind) == link /\ events # <<>> /\ Head(events).kind = kind /\ events' = Tail(events)

\* (defect) a confirmation that comes during a turn is dropped
SetConfirmedDrops ==
    /\ Received("volume")
    /\ LET v == Head(events).vol
       IN  IF active THEN UNCHANGED <<buffered, confirmed, target>>
                     ELSE confirmed' = v /\ target' = v /\ UNCHANGED buffered
    /\ UNCHANGED <<encoderVars, active, settle, sendVars, link, commands, vol, failed, budget>>

\* A volume event: progress_ui_set_confirmed
SetConfirmed ==
    /\ Received("volume")
    /\ LET v == Head(events).vol
       IN  IF active THEN buffered' = v /\ UNCHANGED <<confirmed, target>>
                     ELSE confirmed' = v /\ target' = v /\ UNCHANGED buffered
    /\ UNCHANGED <<encoderVars, active, settle, sendVars, link, commands, vol, failed, budget>>

\* A state event: progress_ui_set_target, the hard snap.  The settle timer
\* goes on and finds nothing to do.
SetTarget ==
    /\ Received("state")
    /\ LET v == Head(events).vol IN confirmed' = v /\ target' = v
    /\ buffered' = Nothing /\ active' = FALSE
    /\ failed' = FALSE
    /\ UNCHANGED <<encoderVars, settle, sendVars, link, commands, vol, budget>>

---------------------------------------------------------------------------
(* The bridge and the connection                                           *)

Send(kind, v) == IF link THEN Append(events, [kind |-> kind, vol |-> v]) ELSE events

Becomes(v) ==
    /\ vol' = v
    /\ events' = IF v = vol THEN events ELSE Send("volume", v)

BridgeApplies ==
    /\ commands # <<>> /\ commands' = Tail(commands)
    /\ Becomes(Head(commands))
    /\ UNCHANGED <<encoderVars, uiVars, sendVars, link, failed, budget>>

BridgeSkips ==
    /\ Len(commands) > 1 /\ commands' = Tail(commands)
    /\ UNCHANGED <<encoderVars, uiVars, sendVars, link, vol, events, failed, budget>>

BridgeFails ==
    /\ commands # <<>> /\ commands' = Tail(commands)
    /\ Spend("failures") /\ failed' = TRUE
    /\ UNCHANGED <<encoderVars, uiVars, sendVars, link, vol, events>>

\* Somebody else changes the volume.
ChangedElsewhere ==
    /\ Spend("changes")
    /\ \E v \in Level \ {vol} : Becomes(v)
    /\ UNCHANGED <<encoderVars, uiVars, sendVars, link, commands, failed>>

\* A poll found another field changed: a whole state.
StateSent ==
    /\ link /\ Spend("states")
    /\ events' = Send("state", vol)
    /\ UNCHANGED <<encoderVars, uiVars, sendVars, link, commands, vol, failed>>

\* What was on its way to the knob is lost.  The bridge may still read what
\* was on its way to it, or not.
Disconnect ==
    /\ link /\ Spend("drops")
    /\ link' = FALSE /\ events' = <<>>
    /\ commands' \in {commands, <<>>}
    /\ UNCHANGED <<encoderVars, uiVars, sendVars, vol, failed>>

\* The bridge sends its snapshot.
Connect ==
    /\ timer /\ ~link /\ link' = TRUE
    /\ events' = <<[kind |-> "state", vol |-> vol]>>
    /\ UNCHANGED <<encoderVars, uiVars, sendVars, commands, vol, failed, budget>>

---------------------------------------------------------------------------
EncoderStep == Drain \/ ReadTarget \/ Adjust \/ StorePending \/ Arm
EventStep   == SetConfirmed \/ SetTarget
BridgeStep  == BridgeApplies \/ BridgeSkips \/ BridgeFails

Next ==
    \/ \E d \in {-1, 1} : Click(d)
    \/ EncoderStep
    \/ TimerCreated
    \/ ThrottleFires
    \/ SettleFires
    \/ EventStep
    \/ BridgeStep
    \/ ChangedElsewhere
    \/ StateSent
    \/ Disconnect
    \/ Connect

Safety == Init /\ [][Next]_vars

\* The tasks and timers of the firmware run, the bridge handles what it is
\* sent, and the WebSocket client reconnects.  Nothing says that net_task
\* ever gets as far as the timer.
Fairness ==
    /\ WF_vars(EncoderStep)
    /\ WF_vars(ThrottleFires)
    /\ WF_vars(SettleFires)
    /\ WF_vars(EventStep)
    /\ WF_vars(BridgeStep)
    /\ WF_vars(Connect)

Spec == Safety /\ Fairness

---------------------------------------------------------------------------
(* Properties                                                              *)

\* bridge_discovery.cpp:123-132, 606-616 and 648-655: from the first turn
\* that found the timer created, a volume that waits to be sent has the timer
\* running, or is about to start it, though the callback may run between the
\* store and the start.  (A volume stored before that waits for nothing: the
\* next turn replaces it.)
NoVolumeStranded == started /\ pending # Nothing => armed \/ pc = "arm"

\* Nothing moves and nothing is on its way.  A volume may still be stored that
\* no timer will send.
Quiet ==
    /\ detents = <<>> /\ pc = "wait" /\ ~armed /\ ~settle
    /\ commands = <<>> /\ events = <<>>

\* progress_ui.cpp:122-137 and 224-279: when the knob rests and nothing is on
\* its way, the confirmed volume, the point the next turn starts from and the
\* bridge's volume are the same, unless a command failed since the last whole
\* state: through turns, turns made before there was a bridge to send them
\* to, confirmations buffered during turns, snaps by a state that was sent
\* before the turn, lost connections and changes made elsewhere.  It is said
\* of a bridge that keeps commands and events in order and joins a knob at
\* once; the bridge of this repository does not in the races that
\* LastTurnWins and KnobShowsCache find.
KnobAgrees == Quiet /\ link /\ ~failed => target = vol /\ confirmed = vol

\* The same as a promise, on the same terms: with the knob connected and no
\* command failed, it comes to rest in agreement with the bridge.
KnobComesToAgree ==
    <>[](link /\ ~failed) => <>[](target = vol /\ confirmed = vol)

====
