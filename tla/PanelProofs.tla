---------------------------- MODULE PanelProofs ----------------------------
(***************************************************************************)
(* For any voltages that a sample may measure, the battery's icon and      *)
(* backlight follow its state, its warning does not stay, and its          *)
(* hysteresis keeps low and normal apart.  For any debounce threshold, any *)
(* bounce shorter than twice it and any number of turns, the decoder hears *)
(* each detent once.                                                       *)
(***************************************************************************)
EXTENDS Battery, Encoder, SequenceTheorems, TLAPS

-----------------------------------------------------------------------------
(* The battery *)

\* What a state still owes to the screen is waiting for LVGL's thread, and a
\* state that was low was left for normal with the exit threshold reached.
BatteryInv ==
    /\ BatteryTypeOK
    /\ OverlayWillGo
    /\ backlight = Brightness(state)
    /\ IF transitions = 0 THEN icon = "unknown" /\ work = <<>> /\ ~timer /\ ~overlay
                          ELSE icon = state \/ Waiting("update")
    /\ left.at \in Int
    /\ left.from = "low" => left.at >= ThreshLowExit

USE VoltageAssumption

LEMMA CurveIsLinear ==
    ASSUME NEW i \in 1..12
    PROVE  /\ Curve[i][1] \in Nat /\ Curve[i][2] \in Nat /\ Curve[i + 1][1] \in Nat /\ Curve[i + 1][2] \in Nat
           /\ Curve[i][1] > Curve[i + 1][1]
<1>1. i = 1 \/ i = 2 \/ i = 3 \/ i = 4 \/ i = 5 \/ i = 6 \/ i = 7 \/ i = 8 \/ i = 9 \/ i = 10 \/ i = 11 \/ i = 12
  OBVIOUS
<1>2. QED
  BY <1>1 DEF Curve

LEMMA PercentIsInt ==
    ASSUME NEW v \in Nat
    PROVE  Percent(v) \in Int
<1>1. Len(Curve) = 13 /\ Curve[1][1] = 4200 /\ Curve[13][1] = 3000
  BY DEF Curve
<1>2. CASE v < 4200 /\ v > 3000
  <2>1. \E i \in 1..12 : Curve[i + 1][1] <= v /\ v < Curve[i][1]
    BY <1>2 DEF Curve
  <2>2. Segment(v) \in 1..12
    BY <1>1, <2>1 DEF Segment
  <2> DEFINE hi == Curve[Segment(v)]
             lo == Curve[Segment(v) + 1]
  <2>3. hi[1] \in Nat /\ hi[2] \in Nat /\ lo[1] \in Nat /\ lo[2] \in Nat /\ hi[1] > lo[1]
    BY <2>2, CurveIsLinear
  <2>4. Percent(v) = Between(v, hi, lo)
    BY <1>1, <1>2 DEF Percent
  <2> HIDE DEF hi, lo
  <2>5. Between(v, hi, lo) \in Int
    BY <2>3 DEF Between
  <2>6. QED
    BY <2>4, <2>5
<1>3. CASE v >= 4200
  BY <1>1, <1>3 DEF Percent
<1>4. CASE v <= 3000
  BY <1>1, <1>4 DEF Percent
<1>5. QED
  BY <1>2, <1>3, <1>4

\* What is appended keeps what waits.
LEMMA AppendKeeps ==
    ASSUME BatteryTypeOK, NEW s \in Seq({"update", "warn", "hide"}), work' = work \o s
    PROVE  /\ work' \in Seq({"update", "warn", "hide"})
           /\ \A c : Waiting(c) => Waiting(c)'
           /\ \A c : (\E i \in 1..Len(s) : s[i] = c) => Waiting(c)'
<1>1. work \in Seq({"update", "warn", "hide"})
  BY DEF BatteryTypeOK
<1>2. /\ work' \in Seq({"update", "warn", "hide"}) /\ Len(work') = Len(work) + Len(s)
      /\ \A i \in 1..Len(work) : work'[i] = work[i]
      /\ \A i \in 1..Len(s) : work'[Len(work) + i] = s[i]
  BY <1>1, ConcatProperties
<1>3. ASSUME NEW c, Waiting(c) PROVE Waiting(c)'
  BY <1>1, <1>2, <1>3 DEF Waiting
<1>4. ASSUME NEW c, NEW i \in 1..Len(s), s[i] = c PROVE Waiting(c)'
  BY <1>1, <1>2, <1>4 DEF Waiting
<1>5. QED
  BY <1>2, <1>3, <1>4

\* What LVGL's thread takes is the oldest; the rest keeps waiting.
LEMMA TailKeeps ==
    ASSUME BatteryTypeOK, work # <<>>, work' = Tail(work)
    PROVE  /\ work' \in Seq({"update", "warn", "hide"})
           /\ \A c : Waiting(c) => Waiting(c)' \/ Head(work) = c
<1>1. work \in Seq({"update", "warn", "hide"})
  BY DEF BatteryTypeOK
<1>2. /\ work' \in Seq({"update", "warn", "hide"}) /\ Len(work') = Len(work) - 1
      /\ \A i \in 1..Len(work') : work'[i] = work[i + 1]
  BY <1>1, HeadTailProperties
<1>3. ASSUME NEW c, NEW i \in DOMAIN work, work[i] = c PROVE Waiting(c)' \/ Head(work) = c
  <2>1. CASE i = 1
    BY <1>1, <1>3, <2>1
  <2>2. CASE i # 1
    <3>1. i - 1 \in 1..Len(work') /\ work'[i - 1] = c
      BY <1>1, <1>2, <1>3, <2>2
    <3>2. DOMAIN work' = 1..Len(work')
      BY <1>2
    <3>3. QED
      BY <3>1, <3>2 DEF Waiting
  <2>3. QED
    BY <2>1, <2>2
<1>4. QED
  BY <1>2, <1>3 DEF Waiting

LEMMA InitBatteryInv == BatteryInit => BatteryInv
<1> SUFFICES ASSUME BatteryInit
             PROVE  BatteryInv
  OBVIOUS
<1>1. Brightness("normal") = 255
  BY DEF Brightness
<1>2. BatteryTypeOK
  <2>1. work \in Seq({"update", "warn", "hide"})
    BY DEF BatteryInit
  <2>2. state \in States /\ icon \in States \cup {"unknown"} /\ transitions \in Nat
    BY DEF BatteryInit, States
  <2>3. QED
    BY <2>1, <2>2, Zenon DEF BatteryInit, BatteryTypeOK
<1>3. OverlayWillGo
  BY DEF BatteryInit, OverlayWillGo
<1>4. left.at \in Int /\ left.from # "low"
  BY DEF BatteryInit
<1>5. QED
  BY <1>1, <1>2, <1>3, <1>4 DEF BatteryInit, BatteryInv

\* A sample that changes the state leaves the work that shows it.
LEMMA SampleStep ==
    ASSUME BatteryInv, NEW v \in Voltages, Sample(v)
    PROVE  BatteryInv'
<1> DEFINE p == Percent(v)
           s == ComputeState(v, p, state)
           told == <<"update">> \o (IF s \in {"low", "critical"} THEN <<"warn">> ELSE <<>>)
<1>1. p \in Int
  BY PercentIsInt
<1>2. state' = s /\ UNCHANGED warningVars
  BY DEF Sample
<1>3. s \in States /\ (state = "low" /\ s = "normal" => p >= ThreshLowExit)
  <2> HIDE DEF p
  <2>1. QED
    BY <1>1 DEF ComputeState, Fresh, States, ThreshCritical, ThreshLow, ThreshLowExit
<1> HIDE DEF p, s
<1>4. CASE s = state
  <2>1. UNCHANGED <<backlight, work, left>>
    BY <1>4 DEF Sample, p, s, ghostVars
  <2>3. transitions' = transitions
    BY <1>4 DEF Sample, p, s
  <2>2. QED
    BY <1>2, <1>4, <2>1, <2>3 DEF BatteryInv, BatteryTypeOK, OverlayWillGo, Waiting, warningVars
<1>5. CASE s # state
  <2>1. /\ backlight' = Brightness(s)
        /\ work' = work \o told
        /\ left' = IF s = "normal" THEN [from |-> state, at |-> p] ELSE left
    <3>1. /\ StateCallback(s)
          /\ left' = IF s = "normal" THEN [from |-> state, at |-> p] ELSE left
      BY <1>5 DEF Sample, p, s
    <3>2. work \in Seq({"update", "warn", "hide"})
      BY DEF BatteryInv, BatteryTypeOK
    <3>3. QED
      BY <3>1, <3>2 DEF StateCallback
  <2>2. /\ told \in Seq({"update", "warn", "hide"})
        /\ told[1] = "update" /\ 1 \in 1..Len(told)
        /\ s \in {"low", "critical"} => told[2] = "warn" /\ 2 \in 1..Len(told)
    <3>1. CASE s \in {"low", "critical"}
      <4>1. told = <<"update">> \o <<"warn">>
        BY <3>1
      <4> HIDE DEF told
      <4>2. QED
        BY <3>1, <4>1
    <3>2. CASE s \notin {"low", "critical"}
      <4>1. told = <<"update">>
        BY <3>2
      <4>2. QED
        BY <3>2, <4>1
    <3>3. QED
      BY <3>1, <3>2
  <2> HIDE DEF told
  <2>3. /\ work' \in Seq({"update", "warn", "hide"})
        /\ Waiting("hide") => Waiting("hide")'
        /\ Waiting("update")'
        /\ s \in {"low", "critical"} => Waiting("warn")'
    BY <2>1, <2>2, AppendKeeps DEF BatteryInv
  <2>6. transitions' \in Nat /\ transitions' # 0
    BY <1>5 DEF Sample, p, s, BatteryInv, BatteryTypeOK
  <2>4. left'.at \in Int /\ (left'.from = "low" => left'.at >= ThreshLowExit)
    BY <1>1, <1>3, <2>1 DEF BatteryInv
  <2>5. QED
    BY <1>2, <1>3, <2>1, <2>3, <2>4, <2>6 DEF BatteryInv, BatteryTypeOK, OverlayWillGo, warningVars
<1>6. QED
  BY <1>4, <1>5

LEMMA WorkStep ==
    ASSUME BatteryInv, RunWork
    PROVE  BatteryInv'
<1>1. /\ work' \in Seq({"update", "warn", "hide"})
      /\ \A c : Waiting(c) => Waiting(c)' \/ Head(work) = c
      /\ UNCHANGED <<state, backlight, left, transitions>> /\ transitions # 0
  BY TailKeeps DEF RunWork, BatteryInv
<1>2. CASE Head(work) = "update" /\ UpdateIcon
  BY <1>1, <1>2 DEF UpdateIcon, BatteryInv, BatteryTypeOK, OverlayWillGo
<1>3. CASE Head(work) = "warn" /\ ShowWarning
  <2>1. CASE overlay \/ warned
    <3>1. UNCHANGED <<overlay, warned, timer, icon>>
      BY <1>3, <2>1 DEF ShowWarning
    <3>2. QED
      BY <1>1, <1>3, <3>1 DEF BatteryInv, BatteryTypeOK, OverlayWillGo
  <2>2. CASE ~(overlay \/ warned)
    BY <1>1, <1>3, <2>2 DEF ShowWarning, BatteryInv, BatteryTypeOK, OverlayWillGo
  <2>3. QED
    BY <2>1, <2>2
<1>4. CASE Head(work) = "hide" /\ HideWarning
  BY <1>1, <1>4 DEF HideWarning, BatteryInv, BatteryTypeOK, OverlayWillGo
<1>5. QED
  BY <1>2, <1>3, <1>4 DEF RunWork

LEMMA TouchStep ==
    ASSUME BatteryInv, Touch
    PROVE  BatteryInv'
BY DEF Touch, HideWarning, BatteryInv, BatteryTypeOK, OverlayWillGo, Waiting, ghostVars

LEMMA DismissStep ==
    ASSUME BatteryInv, DismissTimer
    PROVE  BatteryInv'
<1> DEFINE hide == <<"hide">>
<1>1. hide \in Seq({"update", "warn", "hide"}) /\ hide[1] = "hide" /\ 1 \in 1..Len(hide)
  OBVIOUS
<1>2. work' = work \o hide
  BY DEF DismissTimer, BatteryInv, BatteryTypeOK
<1> HIDE DEF hide
<1>3. /\ work' \in Seq({"update", "warn", "hide"}) /\ Waiting("hide")'
      /\ \A c : Waiting(c) => Waiting(c)'
  BY <1>1, <1>2, AppendKeeps DEF BatteryInv
<1>4. QED
  BY <1>3 DEF DismissTimer, BatteryInv, BatteryTypeOK, OverlayWillGo, ghostVars

LEMMA StepBatteryInv == BatteryInv /\ [BatteryNext]_batteryVars => BatteryInv'
<1>1. ASSUME BatteryInv, UNCHANGED batteryVars PROVE BatteryInv'
  BY <1>1 DEF batteryVars, warningVars, ghostVars, BatteryInv, BatteryTypeOK, OverlayWillGo, Waiting
<1>2. QED
  BY <1>1, SampleStep, WorkStep, TouchStep, DismissStep DEF BatteryNext

THEOREM BatteryInvariant == BatterySpec => []BatteryInv
<1>1. QED
  BY InitBatteryInv, StepBatteryInv, PTL DEF BatterySpec

\* battery_ui.cpp:64-93 and 139-202: a warning that is shown will be taken
\* away, whatever the battery and the user do in between.
THEOREM WarningGoesAway == BatterySpec => []OverlayWillGo
<1>1. BatteryInv => OverlayWillGo
  BY DEF BatteryInv
<1>2. QED
  BY <1>1, BatteryInvariant, PTL

\* main.cpp:124-152: the backlight is dimmed for the state at once, the icon
\* once LVGL's thread has caught up, if the state ever changed.
THEOREM BatteryIsShown == BatterySpec => []StateIsShown
<1>1. BatteryInv => StateIsShown
  BY DEF BatteryInv, StateIsShown, Waiting
<1>2. QED
  BY <1>1, BatteryInvariant, PTL

\* battery.cpp:133-164: from low over normal to low takes two points.
THEOREM LowDoesNotFlap == BatterySpec => NoFlapping
<1>1. ASSUME BatteryInv, [BatteryNext]_batteryVars
      PROVE  [state = "normal" /\ state' = "low" /\ left.from = "low"
                => left.at - percentage' >= 2]_batteryVars
  <2>1. SUFFICES ASSUME state = "normal", state' = "low", left.from = "low"
                 PROVE  left.at - percentage' >= 2
    OBVIOUS
  <2>2. PICK v \in Voltages : Sample(v)
    BY <1>1, <2>1 DEF BatteryNext, RunWork, Touch, DismissTimer, batteryVars
  <2>3. percentage' = Percent(v) /\ Percent(v) \in Int
    BY <2>2, PercentIsInt DEF Sample
  <2>4. state' = ComputeState(v, Percent(v), state)
    BY <2>2 DEF Sample
  <2>5. Percent(v) <= ThreshLow
    BY <2>1, <2>3, <2>4 DEF ComputeState, Fresh, ThreshLow
  <2>6. QED
    BY <1>1, <2>1, <2>3, <2>5 DEF BatteryInv, ThreshLow, ThreshLowExit
<1>2. QED
  BY <1>1, BatteryInvariant, PTL DEF BatterySpec, NoFlapping

-----------------------------------------------------------------------------
(* The encoder *)

HIDE VoltageAssumption

Types ==
    /\ contact \in [Channels -> 0..1] /\ level \in [Channels -> 0..1]
    /\ count \in [Channels -> Nat] /\ bounce \in [Channels -> Nat]
    /\ calm \in 0..Settled /\ prev = level
    /\ turned \in [Directions -> Nat] /\ heard \in [Directions -> Nat]

\* Polls of bounce left, k polls after a contact moved
Left(k) == IF k < MaxBounce THEN MaxBounce - k ELSE 0

\* A channel is at rest, or it moved and its new level is not taken yet, or
\* it is taken and too little bounce is left to take the old one back.
Quiet(c) == level[c] = contact[c] /\ count[c] = 0 /\ bounce[c] = 0
Waits(c) ==
    /\ level[c] # contact[c] /\ bounce[c] = Left(calm) /\ calm < Settled
    /\ count[c] < kDebounceThreshold /\ count[c] <= calm /\ count[c] >= calm - MaxBounce
Taken(c) ==
    /\ level[c] = contact[c] /\ bounce[c] = Left(calm)
    /\ calm >= kDebounceThreshold /\ count[c] <= calm - kDebounceThreshold
    /\ calm > MaxBounce => count[c] = 0

Phase(c) == Quiet(c) \/ Waits(c) \/ Taken(c)

\* The detent that a closing contact stands for is heard when its level falls.
Unheard(c) == IF contact[c] = 0 /\ level[c] = 1 THEN 1 ELSE 0

EncoderInv ==
    /\ Types
    /\ \A c \in Channels : Phase(c) /\ turned[Of(c)] = heard[Of(c)] + Unheard(c)
    /\ Quiet("a") \/ Quiet("b")
    /\ contact["a"] = 1 \/ contact["b"] = 1

USE EncoderAssumption DEF Channels, Directions

LEMMA InitEncoderInv == EncoderInit => EncoderInv
<1> SUFFICES ASSUME EncoderInit
             PROVE  EncoderInv
  OBVIOUS
<1>1. Types
  BY DEF EncoderInit, Types, Settled
<1>2. \A c \in Channels : Quiet(c) /\ Unheard(c) = 0
  BY DEF EncoderInit, Quiet, Unheard
<1>3. QED
  BY <1>1, <1>2 DEF EncoderInit, EncoderInv, Phase, Of

\* When the shaft is calm, every channel rests and every detent was heard.
LEMMA CalmIsQuiet ==
    ASSUME EncoderInv, calm = Settled
    PROVE  (\A c \in Channels : Quiet(c)) /\ heard = turned
<1>1. ASSUME NEW c \in Channels
      PROVE  Quiet(c)
  BY DEF EncoderInv, Phase, Quiet, Waits, Taken, Left, Settled
<1>2. \A c \in Channels : Unheard(c) = 0
  BY <1>1 DEF Quiet, Unheard
<1>3. heard["cw"] = turned["cw"] /\ heard["ccw"] = turned["ccw"]
  BY <1>2 DEF EncoderInv, Types, Of
<1>4. QED
  BY <1>1, <1>3 DEF EncoderInv, Types

\* A contact that moves starts to bounce.
LEMMA MoveStep ==
    ASSUME EncoderInv, NEW c \in Channels, Closes(c) \/ Opens(c)
    PROVE  EncoderInv'
<1>1. \A o \in Channels : Quiet(o)
  BY CalmIsQuiet DEF Closes, Opens, Moves
<1>2. heard = turned
  BY CalmIsQuiet DEF Closes, Opens, Moves
<1>3. PICK to \in 0..1 :
        /\ contact[c] # to /\ contact' = [contact EXCEPT ![c] = to]
        /\ bounce' = [bounce EXCEPT ![c] = MaxBounce]
        /\ calm' = 0 /\ UNCHANGED <<level, count, prev, heard>>
  BY DEF Closes, Opens, Moves, stateVars
<1>4. /\ to = 0 => turned' = [turned EXCEPT ![Of(c)] = @ + 1] /\ contact["a"] = 1 /\ contact["b"] = 1
      /\ to = 1 => turned' = turned
  BY <1>3 DEF Closes, Opens, Moves, EncoderInv, Types
<1>5. Types'
  BY <1>3, <1>4 DEF EncoderInv, Types, Settled, Of
<1>6. Waits(c)' /\ \A o \in Channels : o # c => Quiet(o)'
  BY <1>1, <1>3, <1>5 DEF EncoderInv, Types, Quiet, Waits, Left, Settled
<1>7. \A o \in Channels : turned'[Of(o)] = heard'[Of(o)] + Unheard(o)'
  BY <1>1, <1>2, <1>3, <1>4, <1>5 DEF EncoderInv, Types, Unheard, Quiet, Of
<1>8. contact'["a"] = 1 \/ contact'["b"] = 1
  BY <1>3, <1>4 DEF EncoderInv, Types
<1>9. QED
  BY <1>5, <1>6, <1>7, <1>8 DEF EncoderInv, Phase

\* What a poll does to one channel: it rests, waits, or takes its new level.
LEMMA ChannelStep ==
    ASSUME EncoderInv, NEW c \in Channels, NEW raw \in Raw(c), UNCHANGED contact,
           calm' = IF calm < Settled THEN calm + 1 ELSE calm,
           bounce'[c] = IF bounce[c] > 0 THEN bounce[c] - 1 ELSE 0,
           level'[c] = Debounced(c, raw).level, count'[c] = Debounced(c, raw).count
    PROVE  /\ Phase(c)' /\ count'[c] \in Nat /\ level'[c] \in 0..1
           /\ Quiet(c) => Quiet(c)'
           /\ level'[c] # level[c] => level'[c] = contact[c] /\ Waits(c)
<1>1. /\ contact[c] \in 0..1 /\ level[c] \in 0..1 /\ count[c] \in Nat /\ bounce[c] \in Nat
      /\ calm \in 0..Settled /\ contact'[c] = contact[c] /\ Phase(c)
  BY DEF EncoderInv, Types
<1>2. raw \in 0..1 /\ (bounce[c] = 0 => raw = contact[c])
  BY <1>1 DEF Raw
<1>3. CASE Quiet(c)
  BY <1>1, <1>2, <1>3 DEF Quiet, Phase, Debounced
<1>4. CASE Waits(c)
  BY <1>1, <1>2, <1>4 DEF Waits, Taken, Phase, Quiet, Debounced, Left, Settled
<1>5. CASE Taken(c) /\ ~Quiet(c)
  BY <1>1, <1>2, <1>5 DEF Taken, Waits, Phase, Quiet, Debounced, Left, Settled
<1>6. QED
  BY <1>1, <1>3, <1>4, <1>5 DEF Phase

\* A poll takes at most one new level, and hears a detent when it is a fall.
LEMMA PollStep ==
    ASSUME EncoderInv, Poll
    PROVE  /\ EncoderInv'
           /\ heard' = heard \/ \E d \in Directions :
                /\ heard[d] < turned[d] /\ heard' = [heard EXCEPT ![d] = @ + 1]
<1>1. PICK a \in Raw("a"), b \in Raw("b") :
        LET new == [c \in Channels |-> Debounced(c, IF c = "a" THEN a ELSE b)] IN
        /\ level' = [c \in Channels |-> new[c].level]
        /\ count' = [c \in Channels |-> new[c].count]
        /\ prev' = level'
        /\ heard' = [d \in Directions |-> heard[d] + IF d \in Clicks(new) THEN 1 ELSE 0]
        /\ bounce' = [c \in Channels |-> IF bounce[c] > 0 THEN bounce[c] - 1 ELSE 0]
        /\ calm' = IF calm < Settled THEN calm + 1 ELSE calm
        /\ UNCHANGED <<contact, turned>>
  BY DEF Poll
<1> DEFINE new == [c \in Channels |-> Debounced(c, IF c = "a" THEN a ELSE b)]
           raw == [c \in Channels |-> IF c = "a" THEN a ELSE b]
<1>2. \A c \in Channels : /\ Phase(c)' /\ count'[c] \in Nat /\ level'[c] \in 0..1
                          /\ Quiet(c) => Quiet(c)'
                          /\ level'[c] # level[c] => level'[c] = contact[c] /\ Waits(c)
  <2>1. /\ UNCHANGED contact
        /\ calm' = IF calm < Settled THEN calm + 1 ELSE calm
    BY <1>1
  <2> TAKE c \in Channels
  <2>2. /\ bounce'[c] = IF bounce[c] > 0 THEN bounce[c] - 1 ELSE 0
        /\ level'[c] = Debounced(c, raw[c]).level
        /\ count'[c] = Debounced(c, raw[c]).count
    BY <1>1
  <2>3. raw[c] \in Raw(c)
    OBVIOUS
  <2> HIDE DEF raw
  <2>4. QED
    BY <2>1, <2>2, <2>3, ChannelStep
<1>3. \A c \in Channels : new[c].level = level'[c]
  BY <1>1
<1>4. heard' = [d \in Directions |-> heard[d] + IF d \in Clicks(new) THEN 1 ELSE 0]
  BY <1>1
<1> HIDE DEF new
<1>5. /\ Types /\ UNCHANGED <<contact, turned>>
      /\ \A c \in Channels : turned[Of(c)] = heard[Of(c)] + Unheard(c)
      /\ Quiet("a") \/ Quiet("b")
      /\ contact["a"] = 1 \/ contact["b"] = 1
  BY <1>1 DEF EncoderInv
<1>6. Types'
  BY <1>1, <1>2, <1>4, <1>5 DEF Types, Settled
<1>7. \A c \in Channels : Quiet(c) => level'[c] = level[c]
  BY <1>2, <1>5 DEF Quiet
<1>8. ASSUME NEW c \in Channels, NEW o \in Channels, o # c, Quiet(o),
             level'[c] # level[c]
      PROVE  /\ level'[c] = contact[c] /\ level'[o] = level[o] /\ level[o] = contact[o]
             /\ contact[c] = 0 => /\ Clicks(new) = {Of(c)}
                                 /\ Unheard(c) = 1
             /\ contact[c] = 1 => Clicks(new) = {} /\ Unheard(c) = 0
             /\ Unheard(c)' = 0 /\ Unheard(o)' = 0 /\ Unheard(o) = 0
  <2>1. level'[c] = contact[c] /\ level'[o] = level[o] /\ level[o] = contact[o]
    BY <1>2, <1>7, <1>8 DEF Quiet
  <2>2. contact[c] = 0 => contact[o] = 1
    BY <1>5, <1>8
  <2>3. /\ contact[c] \in 0..1 /\ contact[o] \in 0..1 /\ level[c] \in 0..1 /\ prev = level
        /\ contact' = contact
    BY <1>5 DEF Types
  <2>4. QED
    BY <1>3, <1>8, <2>1, <2>2, <2>3 DEF Clicks, Fell, Unheard, Of
<1>9. CASE level' = level
  <2>1. Clicks(new) = {}
    BY <1>3, <1>5, <1>9 DEF Clicks, Fell, Types
  <2>2. heard' = heard
    BY <1>4, <1>5, <2>1 DEF Types
  <2>3. \A c \in Channels : turned'[Of(c)] = heard'[Of(c)] + Unheard(c)'
    BY <1>5, <1>9, <2>2 DEF Unheard
  <2>4. QED
    BY <1>2, <1>5, <1>6, <2>2, <2>3 DEF EncoderInv
<1>10. CASE level' # level
  <2>1. PICK c \in Channels : level'[c] # level[c]
    BY <1>5, <1>6, <1>10 DEF Types
  <2>2. PICK o \in Channels : o # c /\ Quiet(o)
    BY <1>5, <1>7, <2>1
  <2>3. CASE contact[c] = 0
    <3>1. heard' = [heard EXCEPT ![Of(c)] = @ + 1] /\ heard[Of(c)] < turned[Of(c)]
      <4>1. Clicks(new) = {Of(c)} /\ Unheard(c) = 1
        BY <1>8, <2>1, <2>2, <2>3
      <4>2. heard' = [d \in Directions |-> heard[d] + IF d = Of(c) THEN 1 ELSE 0]
        BY <1>4, <4>1
      <4>3. Of(c) \in Directions /\ heard \in [Directions -> Nat]
        BY <1>5 DEF Types, Of
      <4>4. heard' = [heard EXCEPT ![Of(c)] = @ + 1]
        <5>1. \A d \in Directions : heard[d] \in Nat
          BY <4>3
        <5>2. \A d \in Directions :
                heard[d] + (IF d = Of(c) THEN 1 ELSE 0) = IF d = Of(c) THEN heard[d] + 1 ELSE heard[d]
          BY <5>1
        <5>3. heard' = [d \in Directions |-> IF d = Of(c) THEN heard[d] + 1 ELSE heard[d]]
          BY <4>2, <5>2, Zenon
        <5>4. QED
          BY <4>3, <5>3
      <4>5. turned[Of(c)] = heard[Of(c)] + 1
        BY <1>5, <4>1
      <4>6. QED
        BY <4>3, <4>4, <4>5
    <3>2. \A x \in Channels : turned'[Of(x)] = heard'[Of(x)] + Unheard(x)'
      BY <1>5, <1>8, <2>1, <2>2, <2>3, <3>1 DEF Types, Of
    <3>3. QED
      BY <1>2, <1>5, <1>6, <3>1, <3>2 DEF EncoderInv, Of
  <2>4. CASE contact[c] = 1
    <3>1. heard' = heard
      BY <1>4, <1>5, <1>8, <2>1, <2>2, <2>4 DEF Types
    <3>2. \A x \in Channels : turned'[Of(x)] = heard'[Of(x)] + Unheard(x)'
      BY <1>5, <1>8, <2>1, <2>2, <2>4, <3>1
    <3>3. QED
      BY <1>2, <1>5, <1>6, <3>1, <3>2 DEF EncoderInv
  <2>5. QED
    BY <1>5, <2>3, <2>4 DEF Types
<1>11. QED
  BY <1>9, <1>10

LEMMA StepEncoderInv == EncoderInv /\ [EncoderNext]_encoderVars => EncoderInv'
<1> SUFFICES ASSUME EncoderInv, [EncoderNext]_encoderVars
             PROVE  EncoderInv'
  OBVIOUS
<1>1. CASE EncoderNext
  BY <1>1, MoveStep, PollStep DEF EncoderNext
<1>2. CASE UNCHANGED encoderVars
  BY <1>2 DEF encoderVars, shaftVars, stateVars, EncoderInv, Types, Phase, Quiet, Waits, Taken,
              Unheard, Settled, Left
<1>3. QED
  BY <1>1, <1>2

\* A detent is turned when all were heard; a poll hears one, or nothing.
LEMMA DetentStep ==
    ASSUME EncoderInv, [EncoderNext]_encoderVars
    PROVE  [D!Next]_<<turned, heard>>
<1>1. ASSUME NEW c \in Channels, Closes(c)
      PROVE  D!Turn(Of(c)) /\ Of(c) \in D!Directions
  <2>1. heard = turned
    BY <1>1, CalmIsQuiet DEF Closes, Moves
  <2>2. QED
    BY <1>1, <2>1 DEF Closes, Moves, stateVars, D!Turn, D!Directions, Of
<1>2. ASSUME NEW c \in Channels, Opens(c)
      PROVE  UNCHANGED <<turned, heard>>
  BY <1>2 DEF Opens, Moves, stateVars
<1>3. CASE Poll
  BY <1>3, PollStep DEF Poll, D!Next, D!Hear, D!Directions
<1>4. CASE UNCHANGED encoderVars
  BY <1>4 DEF encoderVars, shaftVars, stateVars
<1>5. QED
  BY <1>1, <1>2, <1>3, <1>4 DEF EncoderNext, D!Next

THEOREM EncoderInvariant == EncoderSpec => []EncoderInv
<1>1. QED
  BY InitEncoderInv, StepEncoderInv, PTL DEF EncoderSpec

\* encoder.cpp:39-97: for any threshold, and bounce for fewer polls than
\* twice that, each detent is heard once, in its direction, before the next.
THEOREM EncoderCountsDetents == EncoderSpec => CountsDetents
<1>1. EncoderInit => D!Init
  BY DEF EncoderInit, D!Init, D!Directions
<1>2. EncoderInv /\ [EncoderNext]_encoderVars => [D!Next]_<<turned, heard>>
  BY DetentStep
<1>3. QED
  BY <1>1, <1>2, EncoderInvariant, PTL DEF EncoderSpec, CountsDetents, D!Spec
=============================================================================
