------------------------------ MODULE Battery ------------------------------
(***************************************************************************)
(* The knob's battery: monitor_task samples the voltage, derives percentage *)
(* and state with hysteresis, and on a change of state dims the backlight  *)
(* and leaves work for LVGL's thread: the icon and a warning over the      *)
(* whole screen, which a touch or a timer takes away.                      *)
(***************************************************************************)
EXTENDS Integers, Sequences

CONSTANTS
    Voltages,       \* what a sample may measure, in millivolts; 0 when it fails
    MaxTransitions  \* bound on the number of transitions of state

ASSUME VoltageAssumption == Voltages \subseteq Nat /\ MaxTransitions \in Nat

VARIABLES
    state, percentage,  \* s_state, s_percentage
    backlight,          \* duty of the backlight
    work,               \* lv_async_call: work waiting for LVGL's thread
    icon,               \* state that icon and percentage label are drawn for,
                        \* "unknown" while they show a full battery and --%
    overlay,            \* s_warn_container exists
    warned,             \* s_warning_shown
    timer,              \* s_dismiss_timer runs
    left,               \* ghost: state and percentage when kNormal was entered
    seen,               \* ghost: the warning was shown since the battery got low
    transitions         \* number of transitions of state so far

warningVars == <<icon, overlay, warned, timer>>
ghostVars == <<left, seen>>
batteryVars == <<state, percentage, backlight, work, warningVars, ghostVars, transitions>>

States == {"normal", "low", "critical", "charging"}
ThreshLow == 10
ThreshLowExit == 12
ThreshCritical == 5
ThreshCritExit == 7
ChargingVoltage == 4150

\* kDischargeCurve, in millivolts
Curve == << <<4200, 100>>, <<4150, 95>>, <<4100, 90>>, <<4000, 80>>, <<3900, 70>>,
            <<3800, 60>>, <<3750, 50>>, <<3700, 40>>, <<3650, 30>>, <<3600, 20>>,
            <<3500, 10>>, <<3300, 5>>, <<3000, 0>> >>

Segment(v) == CHOOSE i \in 1..(Len(Curve) - 1) : Curve[i + 1][1] <= v /\ v < Curve[i][1]
Between(v, hi, lo) == lo[2] + ((v - lo[1]) * (hi[2] - lo[2])) \div (hi[1] - lo[1])

\* voltage_to_percent: linear between two points, rounded down
Percent(v) ==
    IF v >= Curve[1][1] THEN 100
    ELSE IF v <= Curve[Len(Curve)][1] THEN 0
    ELSE Between(v, Curve[Segment(v)], Curve[Segment(v) + 1])

Fresh(p) == IF p <= ThreshCritical THEN "critical" ELSE IF p <= ThreshLow THEN "low" ELSE "normal"

\* A plausible mistake: the exit of kLow is the threshold of its entry.
ComputeStateNarrow(v, p, prev) ==
    IF v > ChargingVoltage THEN "charging"
    ELSE IF prev = "critical" /\ p < ThreshCritExit THEN "critical"
    ELSE Fresh(p)

\* compute_state: a sample that leaves kCritical, or kLow, is looked at afresh.
ComputeState(v, p, prev) ==
    IF v > ChargingVoltage THEN "charging"
    ELSE IF prev = "critical" /\ p < ThreshCritExit THEN "critical"
    ELSE IF prev = "low" /\ p > ThreshCritical /\ p < ThreshLowExit THEN "low"
    ELSE Fresh(p)

Brightness(s) == CASE s = "critical" -> 64 [] s = "low" -> 128 [] OTHER -> 255

BatteryInit ==
    /\ state = "normal" /\ percentage = 0 /\ backlight = 255
    /\ work = <<>> /\ icon = "unknown"
    /\ overlay = FALSE /\ warned = FALSE /\ timer = FALSE
    /\ left = [from |-> "normal", at |-> 100] /\ seen = FALSE /\ transitions = 0

\* A plausible mistake: a warning takes the place of the icon's update.
StateCallbackEither(s) ==
    /\ backlight' = Brightness(s)
    /\ work' = Append(work, IF s \in {"low", "critical"} THEN "warn" ELSE "update")

\* battery_state_cb, called by monitor_task when the state has changed
StateCallback(s) ==
    /\ backlight' = Brightness(s)
    /\ work' = work \o <<"update">> \o (IF s \in {"low", "critical"} THEN <<"warn">> ELSE <<>>)

\* One round of monitor_task
Sample(v) ==
    LET p == Percent(v)
        s == ComputeState(v, p, state)
    IN  /\ percentage' = p
        /\ state' = s
        /\ IF s = state
           THEN UNCHANGED <<backlight, work, ghostVars, transitions>>
           ELSE /\ transitions < MaxTransitions /\ transitions' = transitions + 1
                /\ StateCallback(s)
                /\ left' = IF s = "normal" THEN [from |-> state, at |-> p] ELSE left
                /\ seen' = (overlay \/ (seen /\ s \in {"low", "critical"}))
        /\ UNCHANGED warningVars

\* update_cb draws what s_pending holds now, the last state told, with the
\* percentage that went with it
UpdateIcon == icon' = state /\ UNCHANGED <<overlay, warned, timer>>

\* A plausible mistake: the timer is left to the next transition.
ShowWarningUntimed ==
    /\ overlay' = TRUE /\ warned' = TRUE
    /\ timer' = (timer \/ warned) /\ UNCHANGED icon

\* battery_ui_show_warning: s_warning_shown is never reset after the start
ShowWarning ==
    /\ IF overlay \/ warned
       THEN UNCHANGED <<overlay, warned, timer>>
       ELSE overlay' = TRUE /\ warned' = TRUE /\ timer' = TRUE
    /\ UNCHANGED icon

\* battery_ui_hide_warning
HideWarning ==
    /\ overlay' = FALSE
    /\ timer' = (timer /\ ~overlay)
    /\ UNCHANGED <<icon, warned>>

RunWork ==
    /\ work # <<>> /\ work' = Tail(work)
    /\ \/ Head(work) = "update" /\ UpdateIcon
       \/ Head(work) = "warn" /\ ShowWarning
       \/ Head(work) = "hide" /\ HideWarning
    /\ seen' = (seen \/ (Head(work) = "warn" /\ overlay'))
    /\ UNCHANGED <<state, percentage, backlight, left, transitions>>

\* warn_touch_cb, on LVGL's thread
Touch ==
    /\ overlay /\ HideWarning
    /\ UNCHANGED <<state, percentage, backlight, work, ghostVars, transitions>>

\* dismiss_timer_cb, after five seconds on the timer's task
DismissTimer ==
    /\ timer /\ timer' = FALSE
    /\ work' = Append(work, "hide")
    /\ UNCHANGED <<state, percentage, backlight, icon, overlay, warned, ghostVars, transitions>>

BatteryNext == (\E v \in Voltages : Sample(v)) \/ RunWork \/ Touch \/ DismissTimer

BatterySpec == BatteryInit /\ [][BatteryNext]_batteryVars

-----------------------------------------------------------------------------
(* Properties *)

\* Types, for the proofs.
BatteryTypeOK ==
    /\ state \in States /\ icon \in States \cup {"unknown"} /\ transitions \in Nat
    /\ work \in Seq({"update", "warn", "hide"})
    /\ overlay \in BOOLEAN /\ warned \in BOOLEAN /\ timer \in BOOLEAN

Waiting(c) == \E i \in DOMAIN work : work[i] = c

\* The warning never stays over the screen: while it is shown its timer runs
\* or its dismissal is queued, whatever touches, transitions and dismissals
\* of an earlier moment come in between; and no timer is left behind.
OverlayWillGo == (overlay => timer \/ Waiting("hide")) /\ (timer => overlay)

\* The backlight is dimmed for the state at once, and the icon drawn for it
\* when LVGL's thread has caught up; before the first transition (a battery
\* that is charged at start makes none) it stands for no state at all.
StateIsShown ==
    /\ backlight = Brightness(state)
    /\ work = <<>> => icon = IF transitions = 0 THEN "unknown" ELSE state

\* battery_ui.cpp:29: "warning already shown for current low state", and
\* main.cpp:134: once per transition. With LVGL's thread caught up, a battery
\* that is low or critical was warned of since it became so.
WarnedEachTime == work = <<>> /\ state \in {"low", "critical"} => seen

\* Hysteresis: a battery that recovered from low to normal is low again only
\* when it lost two points since, so a reading that wavers about a threshold
\* does not repeat the transition. (It does after kCritical, which a sample
\* of 11 leaves for kNormal at once.)
NoFlapping ==
    [][state = "normal" /\ state' = "low" /\ left.from = "low" => left.at - percentage' >= 2]_batteryVars
=============================================================================
