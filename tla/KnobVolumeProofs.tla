-------------------------- MODULE KnobVolumeProofs --------------------------
(***************************************************************************)
(* For any range, queue and number of turns, changes and lost connections: *)
(* once the timer has been started no volume waits without it, and a knob  *)
(* at rest agrees with the bridge.                                         *)
(***************************************************************************)
EXTENDS KnobVolume, FiniteSetTheorems, SequenceTheorems, TLAPS

LastOf(s) == s[Len(s)]

\* A volume is stored and will be sent.
Waiting == pending # Nothing /\ (armed \/ pc = "arm")

\* What the knob has asked for and the bridge has not handled: the turn that
\* is about to be stored, the volume that waits for the timer, the commands.
Outstanding == pc = "store" \/ Waiting \/ commands # <<>>
LastAsked ==
    IF pc = "store" THEN actual ELSE IF Waiting THEN pending ELSE LastOf(commands)

\* Nothing is started or connected before the timer exists.
TimerFirst == (armed \/ started \/ link => timer) /\ (armed => started)

\* Confirmations are buffered only during a turn, which the timer ends.
Settles == (active => settle) /\ (buffered # Nothing => active)

\* The newest thing told to a connected knob is the bridge's volume, be it on
\* its way, buffered or shown.
Told ==
    link => IF events # <<>> THEN LastOf(events).vol = vol
            ELSE IF buffered # Nothing THEN buffered = vol
            ELSE confirmed = vol

\* A target that no event will correct is the bridge's volume or becomes it.
Aims ==
    link /\ ~failed /\ events = <<>> /\ buffered = Nothing =>
        target = vol \/ (Outstanding /\ target = LastAsked)

KnobInv == TypeOK /\ TimerFirst /\ NoVolumeStranded /\ Settles /\ Told /\ Aims

Events == [kind : {"volume", "state"}, vol : Level]
Budgets == [detents : 0..MaxDetents, changes : 0..MaxChanges, states : 0..MaxStates,
            failures : 0..MaxFailures, drops : 0..MaxDrops]

-----------------------------------------------------------------------------
(* Sequences, the budget, and the clamp *)

\* An element that is appended is the last.
LEMMA AppendIsLast ==
    ASSUME NEW S, NEW s \in Seq(S), NEW e \in S
    PROVE  Append(s, e) \in Seq(S) /\ Append(s, e) # <<>> /\ LastOf(Append(s, e)) = e
BY DEF LastOf

\* What is left when the first element is taken ends as before.
LEMMA TailKeepsLast ==
    ASSUME NEW S, NEW s \in Seq(S), s # <<>>
    PROVE  /\ Head(s) \in S /\ Tail(s) \in Seq(S)
           /\ Tail(s) # <<>> => LastOf(Tail(s)) = LastOf(s)
           /\ Tail(s) = <<>> => Head(s) = LastOf(s)
<1>1. Len(s) \in Nat \ {0} /\ Head(s) = s[1]
  BY EmptySeq
<1>2. /\ Head(s) \in S /\ Tail(s) \in Seq(S) /\ Len(Tail(s)) = Len(s) - 1
      /\ \A i \in 1..Len(Tail(s)) : Tail(s)[i] = s[i + 1]
  BY HeadTailProperties
<1>3. ASSUME Tail(s) # <<>> PROVE LastOf(Tail(s)) = LastOf(s)
  <2>1. Len(Tail(s)) \in Nat \ {0}
    BY <1>2, <1>3, EmptySeq
  <2>2. Tail(s)[Len(Tail(s))] = s[Len(s)]
    BY <1>1, <1>2, <2>1
  <2>3. QED
    BY <2>2 DEF LastOf
<1>4. ASSUME Tail(s) = <<>> PROVE Head(s) = LastOf(s)
  <2>1. ASSUME NEW t, t = <<>> PROVE Len(t) = 0
    BY <2>1
  <2>2. Len(Tail(s)) = 0
    BY <1>4, <2>1, Zenon
  <2>3. Len(s) = 1
    <3> DEFINE n == Len(s)
               m == Len(Tail(s))
    <3>1. n \in Nat /\ m = n - 1 /\ m = 0
      BY <1>1, <1>2, <2>2, Zenon
    <3> HIDE DEF n, m
    <3>2. n = 1
      BY <3>1
    <3>3. QED
      BY <3>2 DEF n
  <2>4. QED
    BY <1>1, <2>3 DEF LastOf
<1>5. QED
  BY <1>2, <1>3, <1>4

\* Spending keeps the bounds of the model in range.
LEMMA SpendKeepsBudget ==
    ASSUME TypeOK, NEW w \in {"detents", "changes", "states", "failures", "drops"}, Spend(w)
    PROVE  budget' \in Budgets
<1>1. budget \in Budgets /\ budget' = [budget EXCEPT ![w] = @ - 1] /\ budget[w] > 0
  BY DEF TypeOK, Spend, Budgets
<1>2. \A x, n \in Nat : x \in 0..n /\ x > 0 => x - 1 \in 0..n
  OBVIOUS
<1>3. QED
  BY <1>1, <1>2, KnobAssumption DEF KnobAssumption, Budgets

\* Clamp returns a level for any integer.
LEMMA ClampIsLevel == ASSUME NEW x \in Int PROVE Clamp(x) \in Level /\ Clamp(x) \in Int
BY KnobAssumption DEF KnobAssumption, Clamp, Level

\* The queue's clicks of one direction can be counted.
LEMMA NumberIsNat == ASSUME TypeOK, NEW d \in {-1, 1} PROVE Number(d) \in Nat
<1>1. DOMAIN detents = 1..Len(detents) /\ Len(detents) \in Nat
  BY DEF TypeOK
<1>2. IsFiniteSet(1..Len(detents))
  BY <1>1, FS_Interval
<1>3. IsFiniteSet({i \in DOMAIN detents : detents[i] = d})
  BY <1>1, <1>2, FS_Subset
<1>4. QED
  BY <1>3, FS_CardinalityType DEF Number

-----------------------------------------------------------------------------
(* The steps *)

\* A knob that has just started is not connected, and nothing waits.
LEMMA KnobStarts == Init => KnobInv
<1> SUFFICES ASSUME Init PROVE KnobInv
  OBVIOUS
<1>1. budget \in Budgets
  BY KnobAssumption DEF KnobAssumption, Init, Budgets
<1>2. TypeOK
  <2>1. <<>> \in Seq({-1, 1}) /\ <<>> \in Seq(Level) /\ <<>> \in Seq(Events) /\ Len(<<>>) = 0
    BY EmptySeq
  <2>2. 0 \in Level /\ 0 <= QueueDepth
    BY KnobAssumption DEF KnobAssumption, Level
  <2>3. detents \in Seq({-1, 1}) /\ Len(detents) <= QueueDepth /\ delta \in Int
    BY <2>1, <2>2 DEF Init
  <2>4. QED
    BY <1>1, <2>1, <2>2, <2>3 DEF Init, TypeOK, Budgets, Events
<1>3. QED
  BY <1>2 DEF Init, KnobInv, TimerFirst, NoVolumeStranded, Settles, Told, Aims

\* The clicks and the encoder's task: a turn moves the target and asks for
\* the same volume.
LEMMA EncoderKeepsInv ==
    ASSUME KnobInv, EncoderStep \/ \E d \in {-1, 1} : Click(d)
    PROVE  KnobInv'
<1> USE DEF KnobInv, TimerFirst, NoVolumeStranded, Settles, Told, Aims, Outstanding, Waiting,
        LastAsked, uiVars, sendVars, wireVars
<1>1. ASSUME NEW d \in {-1, 1}, Click(d) PROVE KnobInv'
  <2>1. budget' \in Budgets
    BY <1>1, SpendKeepsBudget DEF Click
  <2>2. detents' \in Seq({-1, 1}) /\ Len(detents') <= QueueDepth
    BY <1>1, KnobAssumption DEF KnobAssumption, Click, TypeOK
  <2>3. TypeOK'
    BY <1>1, <2>1, <2>2 DEF Click, TypeOK, Budgets, Level
  <2>4. QED
    BY <1>1, <2>3 DEF Click
<1>2. CASE Drain
  <2>1. delta' \in Int
    BY <1>2, NumberIsNat DEF Drain
  <2>2. detents' \in Seq({-1, 1}) /\ Len(detents') <= QueueDepth
    BY <1>2, KnobAssumption DEF KnobAssumption, Drain
  <2>3. TypeOK' /\ pc = "wait" /\ pc' \in {"wait", "read"}
    BY <1>2, <2>1, <2>2 DEF Drain, TypeOK
  <2>4. QED
    BY <1>2, <2>3 DEF Drain
<1>3. CASE ReadTarget
  <2>1. target \in Int /\ Clamp(target + delta) \in Int
    BY ClampIsLevel DEF TypeOK, Level
  <2>2. TypeOK' /\ pc = "read" /\ pc' \in {"wait", "adjust"}
    BY <1>3, <2>1 DEF ReadTarget, TypeOK
  <2>3. QED
    BY <1>3, <2>2 DEF ReadTarget
<1>4. CASE Adjust
  <2>1. target + delta \in Int
    BY DEF TypeOK, Level
  <2>2. Clamp(target + delta) \in Level
    BY <2>1, ClampIsLevel
  <2>3. TypeOK'
    BY <1>4, <2>2 DEF Adjust, Turned, TypeOK
  <2>4. QED
    BY <1>4, <2>3 DEF Adjust, Turned
<1>5. CASE StorePending
  <2>1. TypeOK'
    BY <1>5 DEF StorePending, TypeOK
  <2>2. pending' # Nothing
    BY <1>5, KnobAssumption DEF KnobAssumption, StorePending, TypeOK, Level, Nothing
  <2>3. QED
    BY <1>5, <2>1, <2>2 DEF StorePending
<1>6. CASE Arm
  <2>1. TypeOK'
    BY <1>6, KnobAssumption DEF KnobAssumption, Arm, TypeOK, Level
  <2>2. QED
    BY <1>6, <2>1 DEF Arm
<1>7. QED
  BY <1>1, <1>2, <1>3, <1>4, <1>5, <1>6 DEF EncoderStep

\* The timers: one is created, what fires becomes a command, what settles is applied.
LEMMA TimersKeepInv ==
    ASSUME KnobInv, TimerCreated \/ ThrottleFires \/ SettleFires
    PROVE  KnobInv'
<1> USE DEF KnobInv, TimerFirst, NoVolumeStranded, Settles, Told, Aims, Outstanding, Waiting,
        LastAsked, uiVars, encoderVars, sendVars, wireVars
<1>1. CASE ThrottleFires
  <2>1. pending # Nothing => pending \in Level
    BY DEF TypeOK
  <2>2. commands' \in Seq(Level)
    BY <1>1, <2>1 DEF ThrottleFires, Fires, TypeOK
  <2>3. TypeOK'
    BY <1>1, <2>2 DEF ThrottleFires, Fires, TypeOK
  <2>4. CASE pending # Nothing /\ link
    <3>1. commands' # <<>> /\ LastOf(commands') = pending
      BY <1>1, <2>1, <2>4, AppendIsLast DEF ThrottleFires, Fires, TypeOK
    <3>2. QED
      BY <1>1, <2>3, <2>4, <3>1 DEF ThrottleFires, Fires
  <2>5. CASE ~(pending # Nothing /\ link)
    BY <1>1, <2>3, <2>5 DEF ThrottleFires, Fires
  <2>6. QED
    BY <2>4, <2>5
<1>2. CASE SettleFires
  <2>1. TypeOK'
    BY <1>2 DEF SettleFires, TypeOK
  <2>2. QED
    BY <1>2, <2>1 DEF SettleFires
<1>3. CASE TimerCreated
  <2>1. TypeOK'
    BY <1>3 DEF TimerCreated, TypeOK
  <2>2. QED
    BY <1>3, <2>1 DEF TimerCreated
<1>4. QED
  BY <1>1, <1>2, <1>3

\* The events: the last one leaves the bridge's volume on the knob.
LEMMA EventsKeepInv ==
    ASSUME KnobInv, EventStep
    PROVE  KnobInv'
<1> USE DEF KnobInv, TimerFirst, NoVolumeStranded, Settles, Told, Aims, Outstanding, Waiting,
        LastAsked, uiVars, encoderVars, sendVars, wireVars
<1> DEFINE v == Head(events).vol
<1>1. SUFFICES ASSUME link, events # <<>>, events' = Tail(events)
               PROVE  KnobInv'
  BY DEF EventStep, SetConfirmed, SetTarget, Received
<1>2. events \in Seq(Events)
  BY DEF TypeOK, Events
<1>3. /\ Head(events) \in Events /\ events' \in Seq(Events)
      /\ events' # <<>> => LastOf(events') = LastOf(events)
      /\ events' = <<>> => v = vol
  BY <1>1, <1>2, TailKeepsLast
<1>4. v \in Level /\ v # Nothing
  BY <1>3, KnobAssumption DEF KnobAssumption, Events, Level, Nothing
<1> HIDE DEF v
<1>5. CASE SetConfirmed
  <2>1. IF active THEN buffered' = v /\ UNCHANGED <<confirmed, target>>
        ELSE confirmed' = v /\ target' = v /\ UNCHANGED buffered
    BY <1>5 DEF SetConfirmed, v
  <2>2. UNCHANGED <<encoderVars, active, settle, sendVars, link, commands, vol, failed, budget>>
    BY <1>5 DEF SetConfirmed
  <2>3. TypeOK'
    BY <2>1, <2>2, <1>3, <1>4 DEF TypeOK, Events
  <2>4. QED
    BY <1>1, <1>3, <1>4, <2>1, <2>2, <2>3
<1>6. CASE SetTarget
  <2>1. /\ confirmed' = v /\ target' = v /\ buffered' = Nothing /\ active' = FALSE /\ failed' = FALSE
        /\ UNCHANGED <<encoderVars, settle, sendVars, link, commands, vol, budget>>
    BY <1>6 DEF SetTarget, v
  <2>2. TypeOK'
    BY <2>1, <1>3, <1>4 DEF TypeOK, Events
  <2>3. QED
    BY <1>1, <1>3, <1>4, <2>1, <2>2
<1>7. QED
  BY <1>5, <1>6 DEF EventStep

\* What the bridge sends carries its volume.
LEMMA SendTellsVolume ==
    ASSUME TypeOK, NEW k \in {"volume", "state"}, NEW x \in Level
    PROVE  /\ Send(k, x) \in Seq(Events)
           /\ link => Send(k, x) # <<>> /\ LastOf(Send(k, x)).vol = x
<1>1. events \in Seq(Events) /\ [kind |-> k, vol |-> x] \in Events
  BY DEF TypeOK, Events
<1>2. QED
  BY <1>1, AppendIsLast DEF Send

\* A change of the bridge's volume is told, and the handling of a command
\* that changes nothing leaves a target that was right.
LEMMA BridgeKeepsInv ==
    ASSUME KnobInv, BridgeStep \/ ChangedElsewhere \/ StateSent
    PROVE  KnobInv'
<1> USE DEF KnobInv, TimerFirst, NoVolumeStranded, Settles, Told, Aims, Outstanding, Waiting,
        LastAsked, uiVars, encoderVars, sendVars
<1>1. commands # <<>> =>
        /\ Head(commands) \in Level /\ Tail(commands) \in Seq(Level)
        /\ Tail(commands) # <<>> => LastOf(Tail(commands)) = LastOf(commands)
        /\ Tail(commands) = <<>> => Head(commands) = LastOf(commands)
  BY TailKeepsLast DEF TypeOK
<1>2. ASSUME NEW x \in Level, Becomes(x)
      PROVE  /\ vol' = x /\ events' \in Seq(Events)
             /\ x = vol => events' = events
             /\ x # vol /\ link => events' # <<>> /\ LastOf(events').vol = x
  BY <1>2, SendTellsVolume DEF Becomes, TypeOK, Events
<1>3. CASE BridgeApplies
  <2>1. commands # <<>> /\ commands' = Tail(commands) /\ Becomes(Head(commands))
    BY <1>3 DEF BridgeApplies
  <2>2. UNCHANGED <<encoderVars, uiVars, sendVars, link, failed, budget>>
    BY <1>3 DEF BridgeApplies
  <2>3. TypeOK'
    BY <1>1, <1>2, <2>1, <2>2 DEF TypeOK, Events
  <2>4. CASE Head(commands) = vol
    BY <1>1, <1>2, <2>1, <2>2, <2>3, <2>4
  <2>5. CASE Head(commands) # vol
    BY <1>1, <1>2, <2>1, <2>2, <2>3, <2>5
  <2>6. QED
    BY <2>4, <2>5
<1>4. CASE BridgeSkips
  <2>1. commands # <<>> /\ commands' = Tail(commands) /\ commands' # <<>>
    <3>1. Len(commands) > 1 /\ commands' = Tail(commands) /\ commands \in Seq(Level)
      BY <1>4 DEF BridgeSkips, TypeOK
    <3>2. commands # <<>>
      BY <3>1, EmptySeq
    <3>3. Len(commands') = Len(commands) - 1
      BY <3>1, <3>2, HeadTailProperties
    <3>4. Len(commands') # 0
      BY <3>1, <3>3
    <3>5. QED
      BY <3>1, <3>2, <3>4
  <2>2. TypeOK'
    BY <1>1, <1>4, <2>1 DEF BridgeSkips, TypeOK
  <2>3. QED
    BY <1>1, <1>4, <2>1, <2>2 DEF BridgeSkips
<1>5. CASE BridgeFails
  <2>1. budget' \in Budgets
    BY <1>5, SpendKeepsBudget DEF BridgeFails
  <2>2. TypeOK'
    BY <1>1, <1>5, <2>1 DEF BridgeFails, TypeOK, Budgets
  <2>3. QED
    BY <1>5, <2>2 DEF BridgeFails
<1>6. CASE ChangedElsewhere
  <2>1. PICK x \in Level \ {vol} : Becomes(x)
    BY <1>6 DEF ChangedElsewhere
  <2>2. budget' \in Budgets
    BY <1>6, SpendKeepsBudget DEF ChangedElsewhere
  <2>3. UNCHANGED <<encoderVars, uiVars, sendVars, link, commands, failed>>
    BY <1>6 DEF ChangedElsewhere
  <2>4. TypeOK'
    BY <1>2, <2>1, <2>2, <2>3 DEF TypeOK, Events, Budgets
  <2>5. QED
    BY <1>2, <2>1, <2>3, <2>4
<1>7. CASE StateSent
  <2>1. budget' \in Budgets
    BY <1>7, SpendKeepsBudget DEF StateSent
  <2>2. events' \in Seq(Events) /\ events' # <<>> /\ LastOf(events').vol = vol
    BY <1>7, SendTellsVolume DEF StateSent, TypeOK
  <2>3. TypeOK'
    BY <1>7, <2>1, <2>2 DEF StateSent, TypeOK, Events, Budgets
  <2>4. QED
    BY <1>7, <2>2, <2>3 DEF StateSent
<1>8. QED
  BY <1>3, <1>4, <1>5, <1>6, <1>7 DEF BridgeStep

\* A new connection begins with the bridge's state.
LEMMA ConnectionKeepsInv ==
    ASSUME KnobInv, Disconnect \/ Connect
    PROVE  KnobInv'
<1> USE DEF KnobInv, TimerFirst, NoVolumeStranded, Settles, Told, Aims, Outstanding, Waiting,
        LastAsked, uiVars, encoderVars, sendVars
<1>1. CASE Disconnect
  <2>1. budget' \in Budgets
    BY <1>1, SpendKeepsBudget DEF Disconnect
  <2>2. commands' \in Seq(Level) /\ events' \in Seq(Events)
    BY <1>1, EmptySeq DEF Disconnect, TypeOK
  <2>3. TypeOK'
    BY <1>1, <2>1, <2>2 DEF Disconnect, TypeOK, Budgets, Events
  <2>4. QED
    BY <1>1, <2>3 DEF Disconnect
<1>2. CASE Connect
  <2>1. <<>> \in Seq(Events) /\ [kind |-> "state", vol |-> vol] \in Events
    BY DEF TypeOK, Events
  <2>2. events' \in Seq(Events) /\ events' # <<>> /\ LastOf(events').vol = vol
    BY <1>2, <2>1 DEF Connect, LastOf
  <2>3. TypeOK'
    BY <1>2, <2>2 DEF Connect, TypeOK, Events
  <2>4. QED
    BY <1>2, <2>2, <2>3 DEF Connect
<1>3. QED
  BY <1>1, <1>2

-----------------------------------------------------------------------------

\* All tasks, timers, events and losses, in any order, keep the invariant.
THEOREM KnobInvariant == Spec => []KnobInv
<1>1. KnobInv /\ [Next]_vars => KnobInv'
  <2>1. ASSUME KnobInv, Next PROVE KnobInv'
    BY <2>1, EncoderKeepsInv, TimersKeepInv, EventsKeepInv, BridgeKeepsInv, ConnectionKeepsInv
    DEF Next
  <2>2. ASSUME KnobInv, UNCHANGED vars PROVE KnobInv'
    BY <2>2 DEF KnobInv, TypeOK, TimerFirst, NoVolumeStranded, Settles, Told, Aims, Outstanding,
                Waiting, LastAsked,
                vars, encoderVars, uiVars, sendVars, wireVars
  <2>3. QED
    BY <2>1, <2>2
<1>2. QED
  BY <1>1, KnobStarts, PTL DEF Spec, Safety

\* All values stay in range, the turn clamped twice included.
THEOREM KnobTypeOK == Spec => []TypeOK
<1>1. KnobInv => TypeOK
  BY DEF KnobInv
<1>2. QED
  BY <1>1, KnobInvariant, PTL

\* From the first turn that found the timer created, a volume that waits has
\* the timer running or about to be started.
THEOREM NothingIsStranded == Spec => []NoVolumeStranded
<1>1. KnobInv => NoVolumeStranded
  BY DEF KnobInv
<1>2. QED
  BY <1>1, KnobInvariant, PTL

\* A connected knob at rest shows the bridge's volume and turns from it,
\* unless a command failed since the last whole state: for a bridge that keeps
\* commands and events in order and joins a knob at once (see KnobVolume).
THEOREM KnobAtRestAgrees == Spec => []KnobAgrees
<1>1. KnobInv => KnobAgrees
  BY DEF KnobInv, KnobAgrees, Quiet, Settles, Told, Aims, Outstanding, Waiting
<1>2. QED
  BY <1>1, KnobInvariant, PTL
=============================================================================
