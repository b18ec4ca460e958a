-------------------------- MODULE ProvisionProofs --------------------------
(***************************************************************************)
(* The manager's state tells the link, and icon and overlay tell the       *)
(* state, for any access points, any number of retries and any queue of    *)
(* events and calls.                                                       *)
(***************************************************************************)
EXTENDS Provision, SequenceTheorems, TLAPS

NoDropAfter(i) == \A j \in (i + 1)..Len(events) : events[j].ev # "disconnected"
TellsUp(i)     == events[i].ev = "ip" /\ NoDropAfter(i)

\* What the queue ends with tells the link, and a link that rests is told by
\* the state, or an event is left that dials or gives up.
LinkInv ==
    /\ \A i \in 1..Len(events) : TellsUp(i) => link = "up"
    /\ NoDropAfter(0) /\ state = "connected" => link = "up"
    /\ link = "up" =>
         \/ \E i \in 1..Len(events) : TellsUp(i)
         \/ NoDropAfter(0) /\ state \in {"connected", "provisioning"}
    /\ link = "idle" /\ config.cred # "none" =>
         \/ state \in {"disconnected", "provisioning"}
         \/ \E i \in 1..Len(events) : events[i].ev \in {"start", "disconnected"}

\* Nothing happens to a driver that has not been started.
StartInv ==
    /\ net \in {"connect", "dial"} => link = "off"
    /\ link = "off" => Len(events) = 0 /\ ~active /\ ~roaming /\ net # "waiting"

\* Between assignment and callback the event task is at the first event of
\* the queue, and only net_task may have assigned after it.
HandlingInv ==
    /\ handling \in WifiStates =>
         /\ Len(events) > 0 /\ state \in {handling, "provisioning"}
         /\ events[1].ev = IF handling = "connected" THEN "ip" ELSE "disconnected"
    /\ news => handling \in WifiStates

\* A working link that the page denies is told by an event that the portal
\* has yet to handle.
UpTold == \E i \in 1..Len(events) : TellsUp(i)
Unasked == {"connect", "dial", "waiting", "provision", "tell", "portal"}

FormInv ==
    /\ net \in Unasked => ~active /\ form = Blank
    /\ handling = "drop" /\ link = "up" => UpTold
    /\ active /\ form.fail /\ ~form.ok /\ link = "up" => UpTold \/ handling = "ip"

CallLeft(c) == \E i \in 1..Len(calls) : calls[i] = c

\* What was told last is drawn or will be, and it is the state unless one of
\* the named orders of events came between.
ScreenInv ==
    /\ ~ui => calls = <<>> /\ ~overlay /\ pending = icon
    /\ ui /\ ~news /\ net \notin {"dial", "tell"} /\ races \cap {"early", "crossed"} = {} => pending = state
    /\ pending = icon \/ CallLeft("icon")
    /\ overlay /\ state = "connected" /\ ~news =>
         "late" \in races \/ CallLeft("hide")

-----------------------------------------------------------------------------
(* Queues *)

EventRecord  == [ev : {"start", "disconnected", "connected", "ip"}, ap : APs \cup {None}]
ConfigRecord == [cred : Credentials, ap : APs \cup {None}]
NvsRecord    == [cred : Credentials \cup {"unreadable"}, ap : APs \cup {None}]
Call         == {"icon", "hide"}

LEMMA EventsAppended ==
    ASSUME events \in Seq(EventRecord), NEW e \in EventRecord, events' = Append(events, e)
    PROVE  /\ events' \in Seq(EventRecord) /\ Len(events) \in Nat
           /\ Len(events') = Len(events) + 1 /\ events'[Len(events) + 1] = e
           /\ \A i \in 1..Len(events) : events'[i] = events[i]
<1>1. events' \in Seq(EventRecord)
  BY AppendProperties
<1>2. QED
  BY <1>1, AppendProperties

LEMMA EventTaken ==
    ASSUME events \in Seq(EventRecord), events # <<>>, events' = Tail(events)
    PROVE  /\ events' \in Seq(EventRecord) /\ Head(events) = events[1]
           /\ Head(events) \in EventRecord
           /\ Len(events) \in Nat /\ Len(events) > 0 /\ Len(events') = Len(events) - 1
           /\ \A i \in 1..(Len(events) - 1) : events'[i] = events[i + 1]
<1>1. events' \in Seq(EventRecord) /\ Head(events) \in EventRecord
  BY HeadTailProperties
<1>2. QED
  BY <1>1

\* After an event is taken, positions move up by one.
LEMMA TakenTells ==
    ASSUME events \in Seq(EventRecord), events # <<>>, events' = Tail(events)
    PROVE  /\ NoDropAfter(0)' <=> NoDropAfter(1)
           /\ NoDropAfter(0) <=> NoDropAfter(1) /\ events[1].ev # "disconnected"
           /\ \A i \in 1..Len(events') : TellsUp(i)' <=> TellsUp(i + 1)
           /\ \A i \in 2..Len(events) : i - 1 \in 1..Len(events') /\ (TellsUp(i - 1)' <=> TellsUp(i))
<1> DEFINE n == Len(events)
<1>1. /\ n \in Nat /\ n > 0 /\ Len(events') = n - 1
      /\ \A i \in 1..(n - 1) : events'[i] = events[i + 1]
  BY EventTaken
<1> HIDE DEF n
<1>2. ASSUME NEW i \in 0..(n - 1) PROVE NoDropAfter(i)' <=> NoDropAfter(i + 1)
  <2>1. ASSUME NoDropAfter(i)', NEW j \in (i + 2)..n PROVE events[j].ev # "disconnected"
    <3>1. j - 1 \in (i + 1)..(n - 1) /\ j - 1 \in 1..(n - 1) /\ (j - 1) + 1 = j
      BY <1>1
    <3>2. QED
      BY <1>1, <2>1, <3>1 DEF NoDropAfter
  <2>2. ASSUME NoDropAfter(i + 1), NEW j \in (i + 1)..(n - 1) PROVE events'[j].ev # "disconnected"
    <3>1. j + 1 \in (i + 2)..n /\ j \in 1..(n - 1)
      BY <1>1
    <3>2. QED
      BY <1>1, <2>2, <3>1 DEF NoDropAfter, n
  <2>3. QED
    BY <1>1, <2>1, <2>2 DEF NoDropAfter, n
<1>3. NoDropAfter(0) <=> NoDropAfter(1) /\ events[1].ev # "disconnected"
  <2>1. 0..n = {0} \cup 1..n /\ 1..n = {1} \cup 2..n
    BY <1>1
  <2>2. QED
    BY <1>1, <2>1 DEF NoDropAfter, n
<1>4. ASSUME NEW i \in 1..(n - 1) PROVE TellsUp(i)' <=> TellsUp(i + 1)
  BY <1>1, <1>2 DEF TellsUp
<1>5. ASSUME NEW i \in 2..n PROVE i - 1 \in 1..(n - 1) /\ (TellsUp(i - 1)' <=> TellsUp(i))
  <2>1. i - 1 \in 1..(n - 1) /\ (i - 1) + 1 = i
    BY <1>1
  <2>2. QED
    BY <1>4, <2>1
<1>6. NoDropAfter(0)' <=> NoDropAfter(1)
  BY <1>1, <1>2
<1>7. QED
  BY <1>1, <1>3, <1>4, <1>5, <1>6 DEF n

-----------------------------------------------------------------------------
(* Types *)

UiType == /\ pending \in WifiStates /\ icon \in WifiStates /\ calls \in Seq(Call)
          /\ ui \in BOOLEAN /\ overlay \in BOOLEAN /\ races \subseteq {"early", "late", "crossed"}

DriverType == /\ config \in ConfigRecord /\ events \in Seq(EventRecord)
              /\ link \in {"off", "idle", "trying", "joined", "up"} /\ with \in APs \cup {None}

ManagerType == /\ state \in WifiStates /\ retry \in 0..kMaxRetries /\ fast \in BOOLEAN
               /\ bits \subseteq {"connected", "fail"}
               /\ nvs \in NvsRecord /\ ram \in Credentials
               /\ handling \in {"none", "connecting", "disconnected", "connected", "drop", "ip"}
               /\ news \in BOOLEAN /\ roamAt \in {"sleep", "found", "left"}
               /\ roam \in APs \cup {None} /\ aps \subseteq APs

PortalType ==
    /\ net \in {"connect", "dial", "waiting", "provision", "tell", "portal", "show", "provisioned",
                "discovery"}
    /\ active \in BOOLEAN /\ roaming \in BOOLEAN
    /\ form \in [connecting : BOOLEAN, ok : BOOLEAN, fail : BOOLEAN] /\ teardowns \in Nat

Types == UiType /\ DriverType /\ ManagerType /\ PortalType

ProvisionInv == Types /\ StartInv /\ HandlingInv /\ LinkInv /\ FormInv /\ ScreenInv

LEMMA TypesAreOK == Types => TypeOK
BY DEF Types, TypeOK, UiType, DriverType, ManagerType, PortalType, Call, ConfigRecord, NvsRecord, EventRecord

LEMMA EventTypes ==
    /\ \A ap \in APs \cup {None}, ev \in {"start", "disconnected", "connected", "ip"} :
         Event(ev, ap) \in EventRecord /\ Event(ev, ap).ev = ev
    /\ \A c \in Credentials, ap \in APs \cup {None} :
         Config(c, ap) \in ConfigRecord /\ Config(c, ap) \in NvsRecord /\ Config(c, ap).cred = c
    /\ Blank \in [connecting : BOOLEAN, ok : BOOLEAN, fail : BOOLEAN]
BY DEF Event, EventRecord, Config, ConfigRecord, NvsRecord, Blank

LEMMA CallbackType ==
    ASSUME UiType, NEW s \in WifiStates, NEW crossing \in SUBSET {"crossed"}, StateCallback(s, crossing)
    PROVE  UiType'
<1>1. CASE ~ui
  BY <1>1 DEF StateCallback, UiType, uiVars
<1>2. CASE ui
  <2> DEFINE more == IF s = "connected" /\ overlay THEN <<"hide">> ELSE <<>>
  <2>1. calls' = Append(calls, "icon") \o more
    BY <1>2 DEF StateCallback
  <2>2. Append(calls, "icon") \in Seq(Call) /\ more \in Seq(Call)
    <3>1. calls \in Seq(Call) /\ "icon" \in Call /\ "hide" \in Call
      BY DEF UiType, Call
    <3>2. QED
      BY <3>1, AppendProperties
  <2>3. calls' \in Seq(Call)
    BY <2>1, <2>2, ConcatProperties
  <2>4. QED
    BY <1>2, <2>3 DEF StateCallback, UiType
<1>3. QED
  BY <1>1, <1>2 DEF UiType

LEMMA SetConfigType ==
    ASSUME DriverType, NEW c \in ConfigRecord, SetConfig(c)
    PROVE  config' \in ConfigRecord
BY DEF SetConfig, DriverType

LEMMA DialType ==
    ASSUME DriverType, NEW c
    PROVE  Dial(link, c) \in {"off", "idle", "trying", "joined", "up"}
BY DEF Dial, DriverType

LEMMA DropType ==
    ASSUME DriverType, Drop, config' = config
    PROVE  DriverType'
BY EventTypes, EventsAppended DEF Drop, DriverType

LEMMA InitType == Init => Types
<1> SUFFICES ASSUME Init
             PROVE  Types
  OBVIOUS
<1>1. nvs \in NvsRecord
  <2>1. (CHOOSE a \in APs : TRUE) \in APs
    BY WifiAssumption
  <2>2. [cred : Credentials \cup {"unreadable"}, ap : {None}] \subseteq NvsRecord
    BY DEF NvsRecord
  <2>3. [cred : {"right"}, ap : {CHOOSE a \in APs : TRUE}] \subseteq NvsRecord
    BY <2>1 DEF NvsRecord, Credentials
  <2>4. QED
    BY <2>2, <2>3 DEF Init, WifiInit
<1>2. UiType
  <2>1. calls \in Seq(Call) /\ races = {}
    BY DEF Init, UiInit
  <2>2. QED
    BY <2>1 DEF Init, UiInit, UiType, WifiStates
<1>3. DriverType
  <2>1. config \in ConfigRecord
    BY EventTypes DEF Init, WifiInit, Credentials
  <2>2. events \in Seq(EventRecord)
    BY DEF Init, WifiInit
  <2>3. QED
    BY <2>1, <2>2 DEF Init, WifiInit, DriverType
<1>4. ManagerType
  <2>1. bits = {} /\ retry \in 0..kMaxRetries
    BY WifiAssumption DEF Init, WifiInit
  <2>2. QED
    BY <1>1, <2>1 DEF Init, WifiInit, ManagerType, WifiStates, Credentials
<1>5. PortalType
  BY EventTypes DEF Init, PortalType
<1>6. QED
  BY <1>2, <1>3, <1>4, <1>5 DEF Types

\* The event task: the manager's handler, then the portal's
LEMMA EventTaskType ==
    ASSUME Types, HandlingInv, EventTask
    PROVE  Types'
<1>1. UiType /\ DriverType /\ ManagerType /\ PortalType
  BY DEF Types
<1>2. CASE Manager
  <2>1. PortalType'
    BY <1>1, <1>2 DEF Manager, provVars, PortalType
  <2>2. CASE ManagerAssigns /\ UNCHANGED uiVars
    <3>1. /\ state' \in WifiStates /\ news' \in BOOLEAN
          /\ handling' \in {"connecting", "disconnected", "connected"}
      BY <2>2 DEF ManagerAssigns, Retry, GiveUp, Assigns, WifiStates
    <3>4. retry' \in 0..kMaxRetries
      <4>1. CASE MayRetry /\ Retry
        BY <1>1, <4>1, WifiAssumption DEF MayRetry, Retry, ManagerType
      <4>2. CASE retry' = 0 \/ retry' = retry
        BY <1>1, <4>2, WifiAssumption DEF ManagerType
      <4>3. QED
        BY <2>2, <4>1, <4>2 DEF ManagerAssigns, GiveUp
    <3>2. UNCHANGED <<uiVars, nvs, ram, roamVars, netVars, driverVars, fast, bits>>
      BY <2>2 DEF ManagerAssigns
    <3>3. QED
      BY <1>1, <2>1, <3>1, <3>2, <3>4 DEF Types, UiType, DriverType, ManagerType, uiVars, roamVars,
         netVars, driverVars
  <2>3. CASE ManagerFinishes
    <3>1. events' = Tail(events) /\ UNCHANGED <<nvs, ram, roamVars, netVars, with, state, retry>>
          /\ handling' \in {"drop", "ip"} /\ news' = FALSE
      BY <2>3 DEF ManagerFinishes, CallsBack
    <3>2. UiType'
      <4>1. CASE UNCHANGED uiVars
        BY <1>1, <4>1 DEF UiType, uiVars
      <4>2. CASE StateCallback(handling, IF state = handling THEN {} ELSE {"crossed"})
        BY <1>1, <2>3, <4>2, CallbackType DEF ManagerFinishes
      <4>3. QED
        BY <2>3, <4>1, <4>2 DEF ManagerFinishes, CallsBack
    <3>3. events' \in Seq(EventRecord)
      <4>1. events \in Seq(EventRecord) /\ events # <<>>
        BY <1>1, <2>3 DEF ManagerFinishes, HandlingInv, DriverType
      <4>2. QED
        BY <3>1, <4>1, EventTaken
    <3>4. Config(ram, None) \in ConfigRecord
      BY <1>1, EventTypes DEF ManagerType
    <3>5. /\ config' \in ConfigRecord /\ fast' \in BOOLEAN /\ bits' \subseteq {"connected", "fail"}
          /\ link' \in {"off", "idle", "trying", "joined", "up"}
      BY <1>1, <2>3, <3>4, SetConfigType, DialType DEF ManagerFinishes, Redial, SetsBit, DriverType,
         ManagerType
    <3>6. QED
      BY <1>1, <2>1, <3>1, <3>2, <3>3, <3>5 DEF Types, DriverType, ManagerType, roamVars, netVars
  <2>4. CASE ManagerPasses
    <3>1. /\ events \in Seq(EventRecord) /\ events # <<>> /\ events' = Tail(events)
          /\ UNCHANGED <<uiVars, ram, roamVars, netVars, config, with, managerVars, taskVars>>
      BY <1>1, <2>4 DEF ManagerPasses, DriverType
    <3>2. events' \in Seq(EventRecord) /\ Head(events) \in EventRecord
      BY <3>1, EventTaken
    <3>3. link' \in {"off", "idle", "trying", "joined", "up"}
      BY <1>1, <2>4, DialType DEF ManagerPasses, DriverType
    <3>4. nvs' \in NvsRecord
      <4>1. [nvs EXCEPT !.ap = Head(events).ap] \in NvsRecord
        BY <1>1, <3>2 DEF ManagerType, NvsRecord, EventRecord
      <4>2. QED
        BY <1>1, <2>4, <4>1 DEF ManagerPasses, ManagerType
    <3>5. QED
      BY <1>1, <2>1, <3>1, <3>2, <3>3, <3>4 DEF Types, UiType, DriverType, ManagerType, uiVars,
         roamVars, netVars, managerVars, taskVars
  <2>5. QED
    BY <1>2, <2>2, <2>3, <2>4 DEF Manager
<1>3. CASE PortalHandles
  <2> DEFINE Forms == [connecting : BOOLEAN, ok : BOOLEAN, fail : BOOLEAN]
  <2>1. form' \in Forms
    <3>1. [form EXCEPT !.ok = TRUE, !.connecting = FALSE] \in Forms
      BY <1>1 DEF PortalType
    <3>2. [form EXCEPT !.fail = TRUE, !.connecting = FALSE] \in Forms
      BY <1>1 DEF PortalType
    <3>3. QED
      BY <1>1, <1>3, <3>1, <3>2 DEF PortalHandles, PortalFails, PortalSucceeds, PortalType
  <2>2. teardowns' \in Nat
    BY <1>1, <1>3 DEF PortalHandles, PortalFails, PortalSucceeds, PortalType
  <2>3. PortalType'
    BY <1>1, <1>3, <2>1, <2>2 DEF PortalHandles, PortalType
  <2>4. QED
    BY <1>1, <1>3, <2>3 DEF Types, PortalHandles, UiType, DriverType, ManagerType, uiVars,
       driverVars, roamVars, netVars, managerVars
<1>4. QED
  BY <1>2, <1>3 DEF EventTask

\* net_task
LEMMA NetTaskType ==
    ASSUME Types, NetTask
    PROVE  Types'
<1>1. UiType /\ DriverType /\ ManagerType /\ PortalType
  BY DEF Types
<1> USE DEF Goto
<1>2. CASE NetConnects
  <2>1. PortalType' /\ UiType'
    BY <1>1, <1>2 DEF NetConnects, PortalType, provVars, UiType, uiVars
  <2>2. CASE Load
    <3>1. DriverType' /\ ManagerType'
      BY <1>1, <2>2, WifiAssumption DEF Load, DriverType, ManagerType, driverVars, roamVars, netVars,
         taskVars, WifiStates, Credentials
    <3>2. QED
      BY <2>1, <3>1 DEF Types
  <2>3. CASE UNCHANGED wifiVars
    BY <1>1, <2>1, <2>3 DEF Types, wifiVars, netVars, driverVars, managerVars, roamVars, taskVars,
       DriverType, ManagerType
  <2>4. QED
    BY <1>2, <2>2, <2>3 DEF NetConnects
<1>9. CASE NetStarts
  <2>1. Start /\ PortalType'
    BY <1>1, <1>9 DEF NetStarts, PortalType, provVars
  <2>2. UiType'
    BY <1>1, <2>1, CallbackType DEF Start, WifiStates
  <2>3. events' \in Seq(EventRecord)
    BY <1>1, <2>1, EventTypes, EventsAppended DEF Start, DriverType
  <2>4. Config(ram, nvs.ap) \in ConfigRecord
    BY <1>1, EventTypes DEF ManagerType, NvsRecord
  <2>5. DriverType'
    BY <1>1, <2>1, <2>3, <2>4 DEF Start, DriverType
  <2>6. ManagerType'
    BY <1>1, <2>1 DEF Start, ManagerType, netVars, roamVars, taskVars
  <2>7. QED
    BY <2>1, <2>2, <2>5, <2>6 DEF Types
<1>3. CASE WaitEnds
  <2>1. bits' = {} /\ PortalType'
    BY <1>1, <1>3 DEF WaitEnds, provVars, PortalType
  <2>2. QED
    BY <1>1, <1>3, <2>1 DEF Types, WaitEnds, uiVars, netVars, driverVars, roamVars, taskVars, UiType, DriverType, ManagerType
<1>4. CASE ProvisionState
  BY <1>1, <1>4 DEF Types, ProvisionState, uiVars, netVars, driverVars, roamVars, taskVars, provVars,
      UiType, DriverType, ManagerType, PortalType, WifiStates
<1>5. CASE Tell
  <2>1. UiType'
    BY <1>1, <1>5, CallbackType DEF Tell, WifiStates
  <2>2. QED
    BY <1>1, <1>5, <2>1 DEF Types, Tell, wifiVars, netVars, driverVars, managerVars, roamVars, taskVars,
        provVars,
        DriverType, ManagerType, PortalType
<1>6. CASE StartPortal
  <2>1. events' \in Seq(EventRecord)
    BY <1>1, <1>6, EventTypes, EventsAppended DEF StartPortal, DriverType
  <2>2. QED
    BY <1>1, <1>6, <2>1 DEF Types, StartPortal, uiVars, netVars, managerVars, roamVars, taskVars,
        UiType, DriverType, ManagerType, PortalType
<1>7. CASE Show
  BY <1>1, <1>7 DEF Types, Show, ShowProvision, wifiVars, netVars, driverVars, managerVars, roamVars, taskVars,
      provVars, UiType, DriverType, ManagerType, PortalType
<1>8. CASE Provisioned
  BY <1>1, <1>8 DEF Types, Provisioned, uiVars, wifiVars, netVars, driverVars, managerVars, roamVars, taskVars,
      provVars, UiType, DriverType, ManagerType, PortalType
<1>10. QED
  BY <1>2, <1>3, <1>4, <1>5, <1>6, <1>7, <1>8, <1>9 DEF NetTask

\* The form, the delayed teardown and the widgets
LEMMA PortalStepType ==
    ASSUME Types, Teardown \/ CreatesUi \/ Lvgl \/ \E cred \in Credentials : Submit(cred)
    PROVE  Types'
<1>1. UiType /\ DriverType /\ ManagerType /\ PortalType
  BY DEF Types
<1>2. CASE Teardown
  <2>1. PortalType'
    <3>1. teardowns' \in Nat
      BY <1>1, <1>2 DEF Teardown, PortalType
    <3>2. active' = FALSE /\ UNCHANGED <<net, roaming, form>>
      BY <1>2 DEF Teardown
    <3>3. QED
      BY <1>1, <3>1, <3>2 DEF PortalType
  <2>2. UiType' /\ DriverType' /\ ManagerType'
    BY <1>1, <1>2 DEF Teardown, uiVars, wifiVars, netVars, driverVars, managerVars, roamVars, taskVars,
       UiType, DriverType, ManagerType
  <2>3. QED
    BY <2>1, <2>2 DEF Types
<1>3. CASE CreatesUi
  <2>1. UiType'
    BY <1>1, <1>3 DEF CreatesUi, CreateUi, UiType
  <2>2. QED
    BY <1>1, <1>3, <2>1 DEF Types, CreatesUi, wifiVars, netVars, driverVars, managerVars, roamVars, taskVars, provVars,
       DriverType, ManagerType, PortalType
<1>4. CASE Lvgl
  <2>1. calls' \in Seq(Call)
    BY <1>1, <1>4, HeadTailProperties DEF Lvgl, RunCall, UiType
  <2>2. UiType'
    BY <1>1, <1>4, <2>1 DEF Lvgl, RunCall, UiType
  <2>3. QED
    BY <1>1, <1>4, <2>2 DEF Types, Lvgl, wifiVars, netVars, driverVars, managerVars, roamVars, taskVars, provVars,
       DriverType, ManagerType, PortalType
<1>5. CASE \E cred \in Credentials : Submit(cred)
  <2>1. PICK cred \in Credentials : Submit(cred)
    BY <1>5
  <2>2. Config(cred, None) \in ConfigRecord /\ Config(cred, None) \in NvsRecord
    BY EventTypes
  <2>3. DriverType'
    BY <1>1, <2>1, <2>2, DialType DEF Submit, DriverType
  <2>4. ManagerType'
    <3>1. nvs' \in NvsRecord
      BY <1>1, <2>1, <2>2 DEF Submit, ManagerType
    <3>2. QED
      BY <1>1, <2>1, <3>1 DEF Submit, ManagerType, managerVars, roamVars, taskVars
  <2>5. PortalType'
    <3>1. [Blank EXCEPT !.connecting = TRUE] \in [connecting : BOOLEAN, ok : BOOLEAN, fail : BOOLEAN]
      BY DEF Blank
    <3>2. QED
      BY <1>1, <2>1, <3>1 DEF Submit, PortalType
  <2>6. QED
    BY <1>1, <2>1, <2>3, <2>4, <2>5 DEF Types, Submit, uiVars, UiType
<1>6. QED
  BY <1>2, <1>3, <1>4, <1>5

\* The driver, the network and roaming_task
LEMMA DriverStepType ==
    ASSUME Types, Driver \/ Environment \/ RoamingTask
    PROVE  Types'
<1>1. UiType /\ DriverType /\ ManagerType /\ PortalType
  BY DEF Types
<1>2. UiType' /\ PortalType'
  BY <1>1 DEF Driver, Environment, RoamingTask, uiVars, provVars, UiType, PortalType
<1>3. DriverType'
  <2>1. CASE \E a \in aps : with' = a /\ events' = Append(events, Event("connected", a))
                            /\ link' = "joined" /\ config' = config
    BY <1>1, <2>1, EventTypes, EventsAppended DEF DriverType, ManagerType
  <2>2. CASE GetsIp
    BY <1>1, <2>2, EventTypes, EventsAppended DEF GetsIp, DriverType
  <2>3. CASE Drop /\ config' = config
    BY <1>1, <2>3, DropType
  <2>4. CASE UNCHANGED driverVars
    BY <1>1, <2>4 DEF DriverType, driverVars
  <2>5. CASE RoamConnects
    <3>1. Config(ram, roam) \in ConfigRecord
      BY <1>1, EventTypes DEF ManagerType
    <3>2. QED
      BY <1>1, <2>5, <3>1, SetConfigType, DialType DEF RoamConnects, DriverType
  <2>6. QED
    BY <2>1, <2>2, <2>3, <2>4, <2>5 DEF Driver, Environment, RoamingTask, Joins, Fails, Glitches,
       ApsMove, RoamFinds, RoamLeaves, driverVars
<1>4. ManagerType'
  BY <1>1 DEF Driver, Environment, RoamingTask, Joins, GetsIp, Fails, Glitches, ApsMove, RoamFinds,
     RoamLeaves, RoamConnects, managerVars, netVars, roamVars, taskVars, ManagerType
<1>5. QED
  BY <1>2, <1>3, <1>4 DEF Types

LEMMA StepType == Types /\ HandlingInv /\ [Next]_vars => Types'
<1> SUFFICES ASSUME Types, HandlingInv, [Next]_vars
             PROVE  Types'
  OBVIOUS
<1>1. CASE UNCHANGED vars
  BY <1>1 DEF vars, Types, uiVars, wifiVars, netVars, driverVars, managerVars, roamVars, taskVars,
     provVars, UiType, DriverType, ManagerType, PortalType
<1>2. QED
  BY <1>1, EventTaskType, NetTaskType, PortalStepType, DriverStepType DEF Next

-----------------------------------------------------------------------------
(* The driver before it is started, and the event task inside set_state *)

LEMMA StepStart ==
    ASSUME Types, StartInv, [Next]_vars
    PROVE  StartInv'
<1> USE DEF Goto
<1>1. CASE UNCHANGED <<net, driverVars, roaming>> /\ (UNCHANGED active \/ active' = FALSE)
  BY <1>1 DEF StartInv, driverVars
<1>2. ASSUME link # "off", link' # "off", UNCHANGED net
      PROVE  StartInv'
  BY <1>2 DEF StartInv
<1>3. CASE EventTask
  <2>1. CASE ManagerFinishes \/ ManagerPasses
    <3>1. Len(events) > 0 \/ handling \in WifiStates
      BY <2>1 DEF ManagerFinishes, ManagerPasses, Types, DriverType
    <3>2. UNCHANGED <<net, active, roaming>>
      BY <1>3 DEF EventTask, Manager, PortalHandles, provVars
    <3>3. link' = link \/ \E c : link' = Dial(link, c)
      BY <2>1 DEF ManagerFinishes, ManagerPasses, Redial, SetsBit
    <3>4. link' = "off" <=> link = "off"
      BY <3>3 DEF Dial
    <3>5. CASE link # "off"
      BY <1>2, <3>2, <3>4, <3>5
    <3>6. CASE link = "off"
      <4>1. events \in Seq(EventRecord) /\ Len(events) = 0
        BY <3>6 DEF StartInv, Types, DriverType
      <4>2. events = <<>>
        BY <4>1
      <4>3. events' = Tail(<<>>)
        BY <2>1, <4>2 DEF ManagerFinishes, ManagerPasses
      <4>4. Len(events') = 0
        BY <4>3
      <4>5. QED
        BY <3>2, <3>4, <3>6, <4>4 DEF StartInv
    <3>7. QED
      BY <3>5, <3>6
  <2>2. QED
    BY <1>1, <1>3, <2>1 DEF EventTask, Manager, ManagerAssigns, PortalHandles, provVars
<1>4. CASE NetTask
  <2>1. CASE NetConnects
    BY <2>1 DEF NetConnects, Load, StartInv, wifiVars, driverVars, provVars
  <2>2. CASE NetStarts
    BY <2>2 DEF NetStarts, Start, StartInv
  <2>3. CASE StartPortal
    BY <2>3 DEF StartPortal, StartInv
  <2>4. CASE WaitEnds \/ ProvisionState \/ Tell \/ Show \/ Provisioned
    BY <2>4 DEF WaitEnds, ProvisionState, Tell, Show, Provisioned, StartInv, wifiVars, driverVars,
       provVars
  <2>5. QED
    BY <1>4, <2>1, <2>2, <2>3, <2>4 DEF NetTask
<1>5. CASE \E cred \in Credentials : Submit(cred)
  <2>1. active /\ UNCHANGED net /\ \E c : link' = Dial(link, c)
    BY <1>5 DEF Submit
  <2>2. QED
    BY <1>2, <2>1 DEF StartInv, Dial
<1>6. CASE Driver \/ Environment \/ RoamingTask
  <2>1. UNCHANGED <<net, active, roaming>>
    BY <1>6 DEF Driver, Environment, RoamingTask, provVars
  <2>2. CASE UNCHANGED driverVars
    BY <1>1, <2>1, <2>2
  <2>3. CASE link \in {"trying", "joined", "up"} /\ link' \in {"idle", "joined", "up"}
    BY <1>2, <2>1, <2>3
  <2>4. CASE RoamConnects /\ roaming
    <3>1. \E c : link' = Dial(link, c)
      BY <2>4 DEF RoamConnects
    <3>2. QED
      BY <1>2, <2>1, <2>4, <3>1 DEF StartInv, Dial
  <2>5. CASE RoamLeaves
    BY <2>2, <2>3, <2>5 DEF RoamLeaves, Drop, driverVars
  <2>6. QED
    BY <1>6, <2>2, <2>3, <2>4, <2>5 DEF Driver, Environment, RoamingTask, Joins, GetsIp, Fails, Glitches,
       ApsMove, RoamFinds, Drop
<1>7. QED
  BY <1>1, <1>3, <1>4, <1>5, <1>6
  DEF Next, vars, wifiVars, Teardown, CreatesUi, Lvgl, provVars

\* A queue that grows keeps its first event.
LEMMA AppendHandling ==
    ASSUME events \in Seq(EventRecord), HandlingInv, NEW e \in EventRecord,
           events' = Append(events, e), UNCHANGED <<handling, news, state>>
    PROVE  HandlingInv'
<1>1. /\ Len(events) \in Nat /\ Len(events') = Len(events) + 1
      /\ \A i \in 1..Len(events) : events'[i] = events[i]
  BY EventsAppended
<1>2. Len(events) > 0 => Len(events') > 0 /\ events'[1] = events[1]
  BY <1>1
<1>3. QED
  BY <1>2 DEF HandlingInv

LEMMA StepHandling ==
    ASSUME Types, StartInv, HandlingInv, [Next]_vars
    PROVE  HandlingInv'
<1> USE DEF Goto
<1>1. events \in Seq(EventRecord) /\ aps \subseteq APs
  BY DEF Types, DriverType, ManagerType
<1>2. CASE UNCHANGED <<events, taskVars, state>>
  BY <1>2 DEF HandlingInv, taskVars
<1>3. ASSUME NEW e \in EventRecord, events' = Append(events, e), UNCHANGED <<taskVars, state>>
      PROVE  HandlingInv'
  BY <1>1, <1>3, AppendHandling DEF taskVars
<1>4. CASE EventTask
  <2>1. CASE ManagerAssigns
    <3>1. events # <<>> /\ events' = events /\ Head(events) = events[1] /\ Len(events) > 0
      BY <1>1, <2>1, EventTaken DEF ManagerAssigns, driverVars
    <3>2. \E s \in {"connecting", "disconnected", "connected"} :
            /\ state' = s /\ handling' = s
            /\ Head(events).ev = IF s = "connected" THEN "ip" ELSE "disconnected"
      BY <2>1 DEF ManagerAssigns, Retry, GiveUp, Assigns
    <3>3. QED
      BY <3>1, <3>2 DEF HandlingInv, WifiStates
  <2>2. CASE ManagerFinishes
    BY <2>2 DEF ManagerFinishes, CallsBack, HandlingInv, WifiStates
  <2>3. CASE ManagerPasses
    BY <2>3 DEF ManagerPasses, HandlingInv, WifiStates, taskVars
  <2>4. CASE PortalHandles
    BY <2>4 DEF PortalHandles, HandlingInv, WifiStates
  <2>5. QED
    BY <1>4, <2>1, <2>2, <2>3, <2>4 DEF EventTask, Manager
<1>5. CASE NetTask
  <2>1. CASE NetConnects
    <3>1. handling \notin WifiStates
      BY <2>1 DEF NetConnects, StartInv, HandlingInv
    <3>2. handling' = handling /\ news' = news
      BY <2>1 DEF NetConnects, Load, wifiVars, taskVars
    <3>3. QED
      BY <3>1, <3>2 DEF HandlingInv
  <2>2. CASE ProvisionState
    BY <2>2 DEF ProvisionState, HandlingInv, driverVars, taskVars
  <2>3. CASE NetStarts
    BY <1>3, <2>3, EventTypes DEF NetStarts, Start
  <2>4. CASE StartPortal
    BY <1>2, <1>3, <2>4, EventTypes DEF StartPortal, managerVars
  <2>5. CASE WaitEnds \/ Tell \/ Show \/ Provisioned
    BY <1>2, <2>5 DEF WaitEnds, Tell, Show, Provisioned, wifiVars, driverVars, managerVars
  <2>6. QED
    BY <1>5, <2>1, <2>2, <2>3, <2>4, <2>5 DEF NetTask
<1>6. CASE \E cred \in Credentials : Submit(cred)
  BY <1>2, <1>6 DEF Submit, managerVars
<1>7. CASE Driver \/ Environment \/ RoamingTask
  <2>1. UNCHANGED <<taskVars, state>>
    BY <1>7 DEF Driver, Environment, RoamingTask, Joins, GetsIp, Fails, Glitches, ApsMove, RoamFinds,
       RoamLeaves, RoamConnects, managerVars
  <2>2. events' = events \/ \E e \in EventRecord : events' = Append(events, e)
    BY <1>1, <1>7, EventTypes DEF Driver, Environment, RoamingTask, Joins, GetsIp, Fails, Glitches,
       ApsMove, RoamFinds, RoamLeaves, RoamConnects, Drop, driverVars
  <2>3. QED
    BY <1>2, <1>3, <2>1, <2>2
<1>8. QED
  BY <1>2, <1>4, <1>5, <1>6, <1>7
  DEF Next, vars, wifiVars, driverVars, managerVars, Teardown, CreatesUi, Lvgl

-----------------------------------------------------------------------------
(* The queue tells the link *)

\* What an event at the end of the queue adds
LEMMA AppendTells ==
    ASSUME events \in Seq(EventRecord), NEW e \in EventRecord, events' = Append(events, e)
    PROVE  /\ NoDropAfter(0)' => NoDropAfter(0) /\ e.ev # "disconnected"
           /\ \A i \in 1..Len(events') : TellsUp(i)' =>
                IF i = Len(events') THEN e.ev = "ip" ELSE i \in 1..Len(events) /\ TellsUp(i)
           /\ \E i \in 1..Len(events') : events'[i] = e /\ (e.ev = "ip" => TellsUp(i)')
           /\ e.ev = "disconnected" => \A i \in 1..Len(events') : ~TellsUp(i)'
<1> DEFINE n == Len(events)
<1>1. /\ n \in Nat /\ Len(events') = n + 1 /\ events'[n + 1] = e
      /\ \A i \in 1..n : events'[i] = events[i]
  BY EventsAppended
<1> HIDE DEF n
<1>2. 1..(n + 1) = 1..n \cup {n + 1}
  BY <1>1
<1>3. ASSUME NEW i \in 0..n
      PROVE  NoDropAfter(i)' <=> (NoDropAfter(i) /\ e.ev # "disconnected")
  <2>1. (i + 1)..(n + 1) = (i + 1)..n \cup {n + 1} /\ (i + 1)..n \subseteq 1..n
    BY <1>1
  <2>2. \A j \in (i + 1)..n : events'[j] = events[j]
    BY <1>1, <2>1
  <2>3. NoDropAfter(i)' <=> (\A j \in (i + 1)..(n + 1) : events'[j].ev # "disconnected")
    BY <1>1 DEF NoDropAfter
  <2>4. NoDropAfter(i) <=> (\A j \in (i + 1)..n : events[j].ev # "disconnected")
    BY DEF NoDropAfter, n
  <2>5. QED
    BY <1>1, <2>1, <2>2, <2>3, <2>4
<1>4. ASSUME NEW i \in 1..n
      PROVE  TellsUp(i)' <=> (TellsUp(i) /\ e.ev # "disconnected")
  BY <1>1, <1>3 DEF TellsUp
<1>5. ASSUME NEW i, i = n + 1
      PROVE  TellsUp(i)' <=> e.ev = "ip"
  <2>1. NoDropAfter(i)'
    BY <1>1, <1>5 DEF NoDropAfter
  <2>2. QED
    BY <1>1, <1>5, <2>1 DEF TellsUp
<1>6. ASSUME NEW i \in 1..Len(events'), TellsUp(i)'
      PROVE  IF i = Len(events') THEN e.ev = "ip" ELSE i \in 1..Len(events) /\ TellsUp(i)
  <2>1. i = n + 1 \/ i \in 1..n
    BY <1>1, <1>2
  <2>2. QED
    BY <1>1, <1>4, <1>5, <1>6, <2>1 DEF n
<1>7. ASSUME e.ev = "disconnected", NEW i \in 1..Len(events')
      PROVE  ~TellsUp(i)'
  <2>1. i = n + 1 \/ i \in 1..n
    BY <1>1, <1>2
  <2>2. QED
    BY <1>4, <1>5, <1>7, <2>1
<1>8. NoDropAfter(0)' => NoDropAfter(0) /\ e.ev # "disconnected"
  BY <1>1, <1>3
<1>9. \E i \in 1..Len(events') : events'[i] = e /\ (e.ev = "ip" => TellsUp(i)')
  <2>1. PICK i \in 1..Len(events') : i = n + 1
    BY <1>1
  <2>2. QED
    BY <1>1, <1>5, <2>1
<1>10. QED
  BY <1>6, <1>7, <1>8, <1>9

\* A link that drops says so.
LEMMA DropLink ==
    ASSUME events \in Seq(EventRecord), Drop
    PROVE  LinkInv'
<1>1. Event("disconnected", None) \in EventRecord /\ Event("disconnected", None).ev = "disconnected"
  BY EventTypes
<1>2. /\ events' = Append(events, Event("disconnected", None)) /\ link' = "idle"
  BY DEF Drop
<1>3. /\ ~NoDropAfter(0)' /\ \A i \in 1..Len(events') : ~TellsUp(i)'
      /\ \E i \in 1..Len(events') : events'[i].ev = "disconnected"
  BY <1>1, <1>2, AppendTells
<1>4. QED
  BY <1>2, <1>3 DEF LinkInv

\* Nothing that the queue tells changes when a link that rests is dialled.
LEMMA SameLink ==
    ASSUME LinkInv, UNCHANGED <<events, state>>, link' = "up" <=> link = "up",
           link' = "idle" /\ config'.cred # "none" => link = "idle" /\ config.cred # "none"
    PROVE  LinkInv'
<1>1. NoDropAfter(0)' <=> NoDropAfter(0)
  BY DEF NoDropAfter
<1>2. \A i \in 1..Len(events) : TellsUp(i)' <=> TellsUp(i)
  BY DEF TellsUp, NoDropAfter
<1>3. QED
  BY <1>1, <1>2 DEF LinkInv

\* The event task takes an event that the state tells already.
LEMMA TakenLink ==
    ASSUME Types, LinkInv, events # <<>>, events' = Tail(events), state' = state,
           link' = "up" <=> link = "up",
           events[1].ev = "ip" => state \in {"connected", "provisioning"},
           events[1].ev = "disconnected" => state # "connected",
           link' = "idle" /\ config'.cred # "none" =>
             \/ state \in {"disconnected", "provisioning"}
             \/ \E i \in 2..Len(events) : events[i].ev \in {"start", "disconnected"}
    PROVE  LinkInv'
<1>1. events \in Seq(EventRecord)
  BY DEF Types, DriverType
<1>2. /\ events[1] \in EventRecord /\ Len(events) \in Nat /\ Len(events) > 0
      /\ Len(events') = Len(events) - 1
      /\ \A i \in 1..(Len(events) - 1) : events'[i] = events[i + 1]
  BY <1>1, EventTaken
<1>3. /\ NoDropAfter(0)' <=> NoDropAfter(1)
      /\ NoDropAfter(0) <=> NoDropAfter(1) /\ events[1].ev # "disconnected"
      /\ TellsUp(1) <=> events[1].ev = "ip" /\ NoDropAfter(1)
  BY <1>1, TakenTells DEF TellsUp
<1>4. \A i \in 1..Len(events') : TellsUp(i)' <=> TellsUp(i + 1)
  BY <1>1, TakenTells
<1>5. \A i \in 2..Len(events) : i - 1 \in 1..Len(events') /\ (TellsUp(i - 1)' <=> TellsUp(i))
  BY <1>1, TakenTells
<1>6. \A i \in 1..Len(events') : TellsUp(i)' => link' = "up"
  <2>1. \A i \in 1..Len(events') : i + 1 \in 1..Len(events)
    BY <1>2
  <2>2. QED
    BY <1>4, <2>1 DEF LinkInv
<1>7. NoDropAfter(0)' /\ state' = "connected" => link' = "up"
  <2>1. TellsUp(1) => link = "up"
    BY <1>2 DEF LinkInv
  <2>2. QED
    BY <1>2, <1>3, <2>1 DEF LinkInv
<1>8. ASSUME link' = "up"
      PROVE  \/ \E i \in 1..Len(events') : TellsUp(i)'
             \/ NoDropAfter(0)' /\ state' \in {"connected", "provisioning"}
  <2>1. CASE \E i \in 1..Len(events) : TellsUp(i)
    <3>1. PICK i \in 1..Len(events) : TellsUp(i)
      BY <2>1
    <3>2. CASE i = 1
      BY <1>3, <3>1, <3>2
    <3>3. CASE i \in 2..Len(events)
      BY <1>5, <3>1, <3>3
    <3>4. QED
      BY <1>2, <3>2, <3>3
  <2>2. CASE NoDropAfter(0) /\ state \in {"connected", "provisioning"}
    BY <1>3, <2>2
  <2>3. QED
    BY <1>8, <2>1, <2>2 DEF LinkInv
<1>9. ASSUME link' = "idle", config'.cred # "none"
      PROVE  \/ state' \in {"disconnected", "provisioning"}
             \/ \E i \in 1..Len(events') : events'[i].ev \in {"start", "disconnected"}
  <2>1. \A i \in 2..Len(events) : i - 1 \in 1..Len(events') /\ events'[i - 1] = events[i]
    <3>1. \A i \in 2..Len(events) : i - 1 \in 1..(Len(events) - 1) /\ (i - 1) + 1 = i
      BY <1>2
    <3>2. QED
      BY <1>2, <3>1
  <2>2. QED
    BY <1>9, <2>1
<1>10. QED
  BY <1>6, <1>7, <1>8, <1>9 DEF LinkInv

\* No address is told last by a link that rests.
LEMMA DropFollows ==
    ASSUME Types, LinkInv, events # <<>>, events[1].ev = "ip", link = "idle"
    PROVE  \E i \in 2..Len(events) : events[i].ev = "disconnected"
<1>1. Len(events) \in Nat /\ Len(events) > 0
  BY DEF Types, DriverType
<1>2. ~NoDropAfter(1)
  BY <1>1 DEF LinkInv, TellsUp
<1>3. QED
  BY <1>2 DEF NoDropAfter

LEMMA ManagerAssignsLink ==
    ASSUME Types, LinkInv, ManagerAssigns
    PROVE  LinkInv'
<1>1. /\ events \in Seq(EventRecord) /\ events # <<>> /\ UNCHANGED <<events, link, config>>
  BY DEF Types, DriverType, ManagerAssigns, driverVars
<1>2. Len(events) \in Nat /\ Len(events) > 0 /\ Head(events) = events[1]
  BY <1>1
<1>3. NoDropAfter(0)' <=> NoDropAfter(0)
  BY <1>1 DEF NoDropAfter
<1>4. \A i \in 1..Len(events) : TellsUp(i)' <=> TellsUp(i)
  BY <1>1 DEF TellsUp, NoDropAfter
<1>5. CASE events[1].ev = "disconnected"
  <2>1. ~NoDropAfter(0)
    BY <1>2, <1>5 DEF NoDropAfter
  <2>2. QED
    BY <1>1, <1>2, <1>3, <1>4, <1>5, <2>1 DEF LinkInv
<1>6. CASE events[1].ev = "ip"
  <2>1. state' = "connected"
    BY <1>2, <1>6 DEF ManagerAssigns, Assigns
  <2>2. NoDropAfter(0) => TellsUp(1)
    BY <1>1, <1>2, <1>6 DEF NoDropAfter, TellsUp
  <2>3. link = "idle" => \E i \in 1..Len(events) : events[i].ev = "disconnected"
    BY <1>1, <1>2, <1>6, DropFollows
  <2>4. NoDropAfter(0) /\ state' = "connected" => link = "up"
    BY <1>2, <2>2 DEF LinkInv
  <2>5. QED
    BY <1>1, <1>3, <1>4, <2>1, <2>3, <2>4 DEF LinkInv
<1>7. QED
  BY <1>2, <1>5, <1>6 DEF ManagerAssigns

LEMMA ManagerFinishesLink ==
    ASSUME Types, HandlingInv, LinkInv, ManagerFinishes
    PROVE  LinkInv'
<1>1. /\ events \in Seq(EventRecord) /\ events' = Tail(events) /\ state' = state
      /\ handling \in {"connecting", "disconnected", "connected"}
  BY DEF ManagerFinishes, Types, DriverType
<1>2. /\ events # <<>> /\ state \in {handling, "provisioning"}
      /\ events[1].ev = IF handling = "connected" THEN "ip" ELSE "disconnected"
  BY <1>1 DEF HandlingInv, WifiStates
<1>3. CASE handling = "connecting"
  <2>1. link' = Dial(link, config')
    BY <1>3 DEF ManagerFinishes, Redial
  <2>2. /\ link' = "up" <=> link = "up"
        /\ ~(link' = "idle" /\ config'.cred # "none")
    BY <2>1 DEF Dial
  <2>3. QED
    BY <1>1, <1>2, <1>3, <2>2, TakenLink
<1>4. CASE handling = "disconnected"
  BY <1>1, <1>2, <1>4, TakenLink DEF ManagerFinishes, SetsBit
<1>5. CASE handling = "connected"
  <2>1. link' = link
    BY <1>5 DEF ManagerFinishes, SetsBit
  <2>2. link = "idle" => \E i \in 2..Len(events) : events[i].ev = "disconnected"
    BY <1>2, <1>5, DropFollows
  <2>3. QED
    BY <1>1, <1>2, <1>5, <2>1, <2>2, TakenLink
<1>6. QED
  BY <1>1, <1>3, <1>4, <1>5

LEMMA ManagerPassesLink ==
    ASSUME Types, LinkInv, ManagerPasses
    PROVE  LinkInv'
<1>1. /\ events \in Seq(EventRecord) /\ events # <<>> /\ events' = Tail(events)
      /\ state' = state /\ config' = config /\ Head(events) = events[1] /\ Len(events) \in Nat
  BY DEF ManagerPasses, Types, DriverType, managerVars
<1>2. CASE events[1].ev = "start"
  <2>1. link' = Dial(link, config)
    BY <1>1, <1>2 DEF ManagerPasses
  <2>2. /\ link' = "up" <=> link = "up"
        /\ ~(link' = "idle" /\ config'.cred # "none")
    BY <1>1, <2>1 DEF Dial
  <2>3. QED
    BY <1>1, <1>2, <2>2, TakenLink
<1>3. CASE events[1].ev = "connected"
  <2>1. link' = link
    BY <1>1, <1>3 DEF ManagerPasses
  <2>2. link = "idle" /\ config.cred # "none" =>
          \/ state \in {"disconnected", "provisioning"}
          \/ \E i \in 2..Len(events) : events[i].ev \in {"start", "disconnected"}
    <3>1. \A i \in 1..Len(events) : i = 1 \/ i \in 2..Len(events)
      BY <1>1
    <3>2. QED
      BY <1>3, <3>1 DEF LinkInv
  <2>3. QED
    BY <1>1, <1>3, <2>1, <2>2, TakenLink
<1>4. QED
  BY <1>1, <1>2, <1>3 DEF ManagerPasses

LEMMA EventTaskLink ==
    ASSUME Types, HandlingInv, LinkInv, EventTask
    PROVE  LinkInv'
<1>1. CASE PortalHandles
  BY <1>1, SameLink DEF PortalHandles, driverVars, managerVars
<1>2. QED
  BY <1>1, ManagerAssignsLink, ManagerFinishesLink, ManagerPassesLink DEF EventTask, Manager

\* The link gets its address, or dials before it does.
LEMMA DriverLink ==
    ASSUME Types, StartInv, LinkInv, Driver \/ Environment \/ RoamingTask
    PROVE  LinkInv'
<1>1. events \in Seq(EventRecord) /\ aps \subseteq APs /\ state' = state
  BY DEF Types, DriverType, ManagerType, Driver, Environment, RoamingTask, Joins, GetsIp, Fails,
     Glitches, ApsMove, RoamFinds, RoamLeaves, RoamConnects, managerVars
<1>2. CASE Joins
  <2>1. PICK a \in aps : events' = Append(events, Event("connected", a))
    BY <1>2 DEF Joins
  <2>2. Event("connected", a) \in EventRecord /\ Event("connected", a).ev = "connected"
    BY <1>1, EventTypes
  <2>3. link = "trying" /\ link' = "joined"
    BY <1>2 DEF Joins
  <2>4. \A i \in 1..Len(events') : ~TellsUp(i)'
    BY <1>1, <2>1, <2>2, <2>3, AppendTells DEF LinkInv
  <2>5. NoDropAfter(0)' => NoDropAfter(0)
    BY <1>1, <2>1, <2>2, AppendTells
  <2>6. QED
    BY <1>1, <2>3, <2>4, <2>5 DEF LinkInv
<1>3. CASE GetsIp
  <2>1. Event("ip", None) \in EventRecord /\ Event("ip", None).ev = "ip"
    BY EventTypes
  <2>2. link' = "up" /\ events' = Append(events, Event("ip", None))
    BY <1>3 DEF GetsIp
  <2>3. \E i \in 1..Len(events') : TellsUp(i)'
    BY <1>1, <2>1, <2>2, AppendTells
  <2>4. QED
    BY <2>2, <2>3 DEF LinkInv
<1>4. CASE Drop
  BY <1>1, <1>4, DropLink
<1>5. CASE UNCHANGED driverVars
  BY <1>1, <1>5, SameLink DEF driverVars
<1>6. CASE RoamConnects
  <2>1. link' = Dial(link, config') /\ events' = events
    BY <1>6 DEF RoamConnects
  <2>2. /\ link' = "up" <=> link = "up"
        /\ ~(link' = "idle" /\ config'.cred # "none")
    BY <2>1 DEF Dial
  <2>3. QED
    BY <1>1, <2>1, <2>2, SameLink
<1>7. QED
  BY <1>2, <1>3, <1>4, <1>5, <1>6 DEF Driver, Environment, RoamingTask, Fails, Glitches, ApsMove,
     RoamFinds, RoamLeaves, driverVars

LEMMA NetTaskLink ==
    ASSUME Types, StartInv, LinkInv, NetTask
    PROVE  LinkInv'
<1> USE DEF Goto
<1>0. events \in Seq(EventRecord)
  BY DEF Types, DriverType
<1>1. CASE UNCHANGED <<events, state, link, config>>
  BY <1>1, SameLink
\* A driver that is started has told nothing before.
<1>2. ASSUME link = "off", events' = Append(events, Event("start", None)), link' = "idle", state' = state
      PROVE  LinkInv'
  <2>1. Len(events) = 0 /\ events = <<>>
    BY <1>0, <1>2 DEF StartInv
  <2>2. state # "connected"
    BY <1>2, <2>1 DEF LinkInv, NoDropAfter
  <2>3. Len(events') = 1 /\ events'[1].ev = "start"
    BY <1>2, <2>1 DEF Event
  <2>4. \A i \in 1..Len(events') : ~TellsUp(i)'
    BY <2>3 DEF TellsUp
  <2>5. QED
    BY <1>2, <2>2, <2>3, <2>4 DEF LinkInv
<1>3. CASE NetConnects
  <2>1. CASE Load
    <3>1. Len(events') = 0 /\ link' = "off" /\ state' = "connecting"
      BY <1>3, <2>1 DEF NetConnects, Load, StartInv, driverVars
    <3>2. QED
      BY <3>1 DEF LinkInv
  <2>2. QED
    BY <1>1, <1>3, <2>1 DEF NetConnects, wifiVars, driverVars, managerVars
<1>4. CASE NetStarts
  BY <1>2, <1>4 DEF NetStarts, Start, StartInv
<1>5. CASE ProvisionState
  <2>1. NoDropAfter(0)' <=> NoDropAfter(0)
    BY <1>5 DEF ProvisionState, driverVars, NoDropAfter
  <2>2. \A i \in 1..Len(events) : TellsUp(i)' <=> TellsUp(i)
    BY <1>5 DEF ProvisionState, driverVars, TellsUp, NoDropAfter
  <2>3. QED
    BY <1>5, <2>1, <2>2 DEF ProvisionState, driverVars, LinkInv
<1>6. CASE StartPortal
  <2>1. CASE link = "off"
    BY <1>2, <1>6, <2>1 DEF StartPortal, managerVars
  <2>2. CASE link # "off"
    BY <1>1, <1>6, <2>2 DEF StartPortal, managerVars
  <2>3. QED
    BY <2>1, <2>2
<1>7. CASE WaitEnds \/ Tell \/ Show \/ Provisioned
  BY <1>1, <1>7 DEF WaitEnds, Tell, Show, Provisioned, wifiVars, driverVars, managerVars
<1>8. QED
  BY <1>3, <1>4, <1>5, <1>6, <1>7 DEF NetTask

LEMMA StepLink ==
    ASSUME Types, StartInv, HandlingInv, LinkInv, [Next]_vars
    PROVE  LinkInv'
<1>1. CASE UNCHANGED wifiVars
  BY <1>1, SameLink DEF wifiVars, driverVars, managerVars
<1>2. CASE \E cred \in Credentials : Submit(cred)
  <2>1. UNCHANGED <<events, state>> /\ link' = Dial(link, config')
    BY <1>2 DEF Submit, managerVars
  <2>2. /\ link' = "up" <=> link = "up"
        /\ ~(link' = "idle" /\ config'.cred # "none")
    BY <2>1 DEF Dial
  <2>3. QED
    BY <2>1, <2>2, SameLink
<1>3. QED
  BY <1>1, <1>2, EventTaskLink, DriverLink, NetTaskLink
  DEF Next, vars, Teardown, CreatesUi, Lvgl

-----------------------------------------------------------------------------
(* The page takes a failure back *)

\* Steps that leave form and event task alone: the queue stays, and the link
\* does not come up, or it tells the link, or there is none.
LEMMA SameForm ==
    ASSUME FormInv, UNCHANGED <<form, handling>>, net' \in Unasked => net \in Unasked /\ active' = active,
           active' => active,
           \/ events' = events /\ (link' = "up" => link = "up")
           \/ link' # "up" \/ UpTold'
    PROVE  FormInv'
<1>1. events' = events => (UpTold' <=> UpTold)
  BY DEF UpTold, TellsUp, NoDropAfter
<1>2. QED
  BY <1>1 DEF FormInv

\* An event other than an address is taken.
LEMMA TakenUp ==
    ASSUME events \in Seq(EventRecord), events # <<>>, events' = Tail(events),
           events[1].ev # "ip", UpTold
    PROVE  UpTold'
<1>1. Len(events) \in Nat
  BY EventTaken
<1>2. PICK i \in 1..Len(events) : TellsUp(i)
  BY DEF UpTold
<1>3. i # 1
  BY <1>2 DEF TellsUp
<1>4. i \in 2..Len(events)
  BY <1>1, <1>3
<1>5. i - 1 \in 1..Len(events') /\ TellsUp(i - 1)'
  <2>1. \A j \in 2..Len(events) : j - 1 \in 1..Len(events') /\ (TellsUp(j - 1)' <=> TellsUp(j))
    BY TakenTells
  <2>2. QED
    BY <1>2, <1>4, <2>1
<1>6. QED
  BY <1>5 DEF UpTold

LEMMA EventTaskForm ==
    ASSUME Types, HandlingInv, LinkInv, FormInv, EventTask
    PROVE  FormInv'
<1>1. events \in Seq(EventRecord) /\ UNCHANGED <<net, active>>
  BY DEF Types, DriverType, EventTask, Manager, PortalHandles, provVars
<1>2. CASE ManagerAssigns /\ UNCHANGED form
  <2>1. /\ UNCHANGED <<events, link, form>> /\ handling = "none"
        /\ handling' \in {"connecting", "disconnected", "connected"}
    BY <1>2 DEF ManagerAssigns, Retry, GiveUp, Assigns, driverVars
  <2>2. UpTold' <=> UpTold
    BY <2>1 DEF UpTold, TellsUp, NoDropAfter
  <2>3. QED
    BY <1>1, <2>1, <2>2 DEF FormInv
<1>3. CASE ManagerFinishes /\ UNCHANGED form
  <2>1. /\ events' = Tail(events) /\ handling \in {"connecting", "disconnected", "connected"}
        /\ link' = "up" => link = "up"
        /\ handling' = IF handling = "connected" THEN "ip" ELSE "drop"
    BY <1>3 DEF ManagerFinishes, Redial, SetsBit, Dial
  <2>2. /\ Len(events) \in Nat /\ Len(events) > 0 /\ events # <<>>
        /\ events[1].ev = IF handling = "connected" THEN "ip" ELSE "disconnected"
    BY <1>1, <2>1 DEF HandlingInv, WifiStates
  <2>3. CASE handling = "connected"
    BY <1>1, <1>3, <2>1, <2>3 DEF FormInv
  <2>4. CASE handling # "connected"
    <3>1. ~NoDropAfter(0)
      BY <2>2, <2>4 DEF NoDropAfter
    <3>2. link = "up" => UpTold
      BY <3>1 DEF LinkInv, UpTold
    <3>3. link = "up" => UpTold'
      BY <1>1, <2>1, <2>2, <2>4, <3>2, TakenUp
    <3>4. QED
      BY <1>1, <1>3, <2>1, <2>4, <3>3 DEF FormInv
  <2>5. QED
    BY <2>3, <2>4
<1>4. CASE ManagerPasses /\ UNCHANGED form
  <2>1. /\ events # <<>> /\ events' = Tail(events) /\ handling = "none" /\ handling' = "none"
        /\ Head(events).ev \in {"start", "connected"}
        /\ link' = "up" => link = "up"
    BY <1>4 DEF ManagerPasses, taskVars, Dial
  <2>2. events[1].ev # "ip"
    BY <1>1, <2>1, EventTaken
  <2>3. UpTold => UpTold'
    BY <1>1, <2>1, <2>2, TakenUp
  <2>4. QED
    BY <1>1, <1>4, <2>1, <2>3 DEF FormInv
<1>5. CASE PortalHandles
  <2>1. UNCHANGED <<events, link>> /\ handling \in {"drop", "ip"} /\ handling' = "none"
    BY <1>5 DEF PortalHandles, driverVars
  <2>2. UpTold' <=> UpTold
    BY <2>1 DEF UpTold, TellsUp, NoDropAfter
  <2>3. CASE ~active
    BY <1>1, <1>5, <2>1, <2>3 DEF PortalHandles, FormInv
  <2>4. CASE active /\ handling = "drop"
    BY <1>1, <1>5, <2>1, <2>2, <2>4 DEF PortalHandles, FormInv
  <2>5. CASE active /\ handling = "ip"
    <3>1. form'.ok
      BY <1>5, <2>5 DEF PortalHandles, PortalSucceeds, Types, PortalType
    <3>2. QED
      BY <1>1, <2>1, <2>5, <3>1 DEF FormInv
  <2>6. QED
    BY <2>1, <2>3, <2>4, <2>5
<1>6. QED
  BY <1>2, <1>3, <1>4, <1>5 DEF EventTask, Manager, provVars

LEMMA StepForm ==
    ASSUME Types, StartInv, HandlingInv, LinkInv, FormInv, [Next]_vars
    PROVE  FormInv'
<1> USE DEF Goto
<1>1. events \in Seq(EventRecord)
  BY DEF Types, DriverType
<1>2. CASE UNCHANGED <<net, provVars, driverVars, taskVars>>
  BY <1>2, SameForm DEF provVars, driverVars, taskVars
<1>3. CASE NetTask
  <2>1. CASE StartPortal
    <3>1. form = Blank /\ handling' = handling /\ net' = "show" /\ form' = form
      BY <2>1 DEF StartPortal, FormInv, Unasked, taskVars
    <3>2. link' = "up" => link = "up" /\ events' = events
      BY <2>1 DEF StartPortal
    <3>3. link' = "up" => (UpTold' <=> UpTold)
      BY <3>2 DEF UpTold, TellsUp, NoDropAfter
    <3>4. QED
      BY <3>1, <3>2, <3>3 DEF FormInv, Unasked, Blank
  <2>2. CASE NetStarts
    BY <2>2, SameForm DEF NetStarts, Start, Unasked, provVars, taskVars
  <2>3. CASE NetConnects \/ WaitEnds \/ ProvisionState \/ Tell \/ Show \/ Provisioned
    <3>1. UNCHANGED <<provVars, events, link, handling>>
      BY <2>3 DEF NetConnects, Load, WaitEnds, ProvisionState, Tell, Show, Provisioned, wifiVars,
         driverVars, taskVars
    <3>2. net' \in Unasked => net \in Unasked
      BY <2>3 DEF NetConnects, WaitEnds, ProvisionState, Tell, Show, Provisioned, Unasked
    <3>3. QED
      BY <3>1, <3>2, SameForm DEF provVars
  <2>4. QED
    BY <1>3, <2>1, <2>2, <2>3 DEF NetTask
<1>4. CASE \E cred \in Credentials : Submit(cred)
  <2>1. /\ active /\ UNCHANGED <<net, active, events, handling>> /\ ~form'.fail
        /\ link' = "up" => link = "up"
    BY <1>4 DEF Submit, Blank, Dial, taskVars
  <2>2. UpTold' <=> UpTold
    BY <2>1 DEF UpTold, TellsUp, NoDropAfter
  <2>3. QED
    BY <2>1, <2>2 DEF FormInv
<1>5. CASE Driver \/ Environment \/ RoamingTask
  <2>1. UNCHANGED <<net, provVars, handling>>
    BY <1>5 DEF Driver, Environment, RoamingTask, Joins, GetsIp, Fails, Glitches, ApsMove, RoamFinds,
       RoamLeaves, RoamConnects, taskVars
  <2>2. CASE GetsIp
    <3>1. Event("ip", None) \in EventRecord /\ Event("ip", None).ev = "ip"
      BY EventTypes
    <3>2. events' = Append(events, Event("ip", None))
      BY <2>2 DEF GetsIp
    <3>3. \E i \in 1..Len(events') : TellsUp(i)'
      BY <1>1, <3>1, <3>2, AppendTells
    <3>4. UpTold'
      BY <3>3 DEF UpTold
    <3>5. QED
      BY <2>1, <3>4, SameForm DEF provVars
  <2>3. CASE link' # "up" \/ (events' = events /\ (link' = "up" => link = "up"))
    BY <2>1, <2>3, SameForm DEF provVars
  <2>4. QED
    BY <1>5, <2>2, <2>3 DEF Driver, Environment, RoamingTask, Joins, Fails, Glitches, ApsMove, RoamFinds,
       RoamLeaves, RoamConnects, Drop, Dial, driverVars
<1>6. CASE Teardown
  BY <1>6, SameForm DEF Teardown, wifiVars, driverVars, taskVars, FormInv, Types, PortalType
<1>7. QED
  BY <1>2, <1>3, <1>4, <1>5, <1>6, EventTaskForm
  DEF Next, vars, wifiVars, CreatesUi, Lvgl

-----------------------------------------------------------------------------
(* What was told is drawn *)

\* A state that is told after it was assigned
LEMMA ToldScreen ==
    ASSUME UiType, ScreenInv, NEW s \in WifiStates, NEW crossing \in SUBSET {"crossed"},
           StateCallback(s, crossing), state' = state, state = s \/ "crossed" \in crossing,
           news' = news \/ (state = "connected" => s = "connected")
    PROVE  ScreenInv'
<1>1. CASE ~ui
  <2>1. UNCHANGED uiVars /\ ~overlay
    BY <1>1 DEF StateCallback, ScreenInv
  <2>2. QED
    BY <1>1, <2>1 DEF uiVars, ScreenInv
<1>2. CASE ui
  <2> DEFINE more == IF s = "connected" /\ overlay THEN <<"hide">> ELSE <<>>
             cs   == Append(calls, "icon")
  <2>1. calls' = cs \o more /\ pending' = s /\ UNCHANGED <<ui, icon, overlay>>
        /\ races' = (races \cap {"late"}) \cup crossing
    BY <1>2 DEF StateCallback
  <2>2. /\ cs \in Seq(Call) /\ more \in Seq(Call) /\ Len(calls) \in Nat
        /\ Len(cs) = Len(calls) + 1 /\ cs[Len(calls) + 1] = "icon"
    <3>1. calls \in Seq(Call) /\ "icon" \in Call /\ "hide" \in Call
      BY DEF UiType, Call
    <3>2. QED
      BY <3>1, AppendProperties
  <2>3. /\ Len(calls') = Len(cs) + Len(more) /\ Len(more) \in Nat
        /\ \A i \in 1..Len(cs) : calls'[i] = cs[i]
        /\ \A i \in 1..Len(more) : calls'[Len(cs) + i] = more[i]
    BY <2>1, <2>2, ConcatProperties
  <2>4. CallLeft("icon")'
    <3>1. Len(cs) \in 1..Len(calls') /\ calls'[Len(cs)] = "icon"
      BY <2>2, <2>3
    <3>2. QED
      BY <3>1 DEF CallLeft
  <2>5. s = "connected" /\ overlay => CallLeft("hide")'
    <3>1. s = "connected" /\ overlay => more[1] = "hide" /\ Len(more) = 1
      OBVIOUS
    <3>2. s = "connected" /\ overlay => calls'[Len(cs) + 1] = "hide" /\ Len(cs) + 1 \in 1..Len(calls')
      BY <2>2, <2>3, <3>1
    <3>3. QED
      BY <3>2 DEF CallLeft
  <2>6. CallLeft("hide") => CallLeft("hide")'
    <3>1. \A i \in 1..Len(calls) : i \in 1..Len(cs) /\ cs[i] = calls[i]
      BY <2>2, AppendProperties DEF UiType
    <3>2. 1..Len(cs) \subseteq 1..Len(calls')
      BY <2>2, <2>3
    <3>3. QED
      BY <2>3, <3>1, <3>2 DEF CallLeft
  <2> HIDE DEF cs, more
  <2>7. overlay' /\ state' = "connected" /\ ~news' => "late" \in races' \/ CallLeft("hide")'
    BY <2>1, <2>5, <2>6 DEF ScreenInv
  <2>8. QED
    BY <1>2, <2>1, <2>4, <2>7 DEF ScreenInv
<1>3. QED
  BY <1>1, <1>2 DEF UiType

LEMMA SameScreen ==
    ASSUME ScreenInv, UNCHANGED <<uiVars, state, news>>,
           net \in {"dial", "tell"} => net' \in {"dial", "tell"}
    PROVE  ScreenInv'
<1>1. UNCHANGED <<CallLeft("icon"), CallLeft("hide")>>
  BY DEF CallLeft, uiVars
<1>2. QED
  BY <1>1 DEF ScreenInv, uiVars

\* The event task between assignment and callback owes the screen the state.
LEMMA ManagerScreen ==
    ASSUME Types, HandlingInv, ScreenInv, Manager
    PROVE  ScreenInv'
<1>1. UiType /\ net' = net /\ handling \in {"none", "connecting", "disconnected", "connected", "drop", "ip"}
      /\ news \in BOOLEAN
  BY DEF Types, ManagerType, Manager
<1>2. CASE UNCHANGED <<uiVars, state, news>>
  BY <1>1, <1>2, SameScreen
<1>3. CASE ManagerAssigns /\ UNCHANGED uiVars
  <2>1. ~news
    BY <1>3 DEF ManagerAssigns, HandlingInv, WifiStates
  <2>2. \E s \in {"connecting", "disconnected", "connected"} : Assigns(s)
    BY <1>3 DEF ManagerAssigns, Retry, GiveUp
  <2>3. (state' = state /\ news' = FALSE) \/ news' = TRUE
    BY <2>2 DEF Assigns
  <2>4. CASE news' = TRUE
    <3>1. UNCHANGED <<CallLeft("icon"), CallLeft("hide")>>
      BY <1>3 DEF CallLeft, uiVars
    <3>2. QED
      BY <1>3, <2>4, <3>1 DEF ScreenInv, uiVars
  <2>5. QED
    BY <1>1, <1>2, <1>3, <2>1, <2>3, <2>4
<1>4. CASE ManagerFinishes
  <2>1. handling \in WifiStates /\ CallsBack /\ state' = state /\ news' = FALSE
        /\ state \in {handling, "provisioning"}
    BY <1>4 DEF ManagerFinishes, CallsBack, HandlingInv
  <2>2. CASE news
    <3>1. PICK crossing \in SUBSET {"crossed"} :
            StateCallback(handling, crossing) /\ (state = handling \/ "crossed" \in crossing)
      BY <2>1, <2>2 DEF CallsBack
    <3>2. state = "connected" => handling = "connected"
      BY <2>1
    <3>3. QED
      BY <1>1, <2>1, <3>1, <3>2, ToldScreen
  <2>3. CASE ~news
    BY <1>1, <1>2, <2>1, <2>3 DEF CallsBack
  <2>4. QED
    BY <2>2, <2>3
<1>5. CASE ManagerPasses
  BY <1>2, <1>5 DEF ManagerPasses, managerVars, taskVars
<1>6. QED
  BY <1>3, <1>4, <1>5 DEF Manager

LEMMA RunCallScreen ==
    ASSUME UiType, ScreenInv, RunCall, UNCHANGED <<net, state, news>>
    PROVE  ScreenInv'
<1>1. /\ calls \in Seq(Call) /\ calls # <<>> /\ calls' = Tail(calls) /\ UNCHANGED <<ui, pending>>
  BY DEF RunCall, UiType
<1>2. /\ Len(calls) \in Nat /\ Len(calls) > 0 /\ Len(calls') = Len(calls) - 1 /\ Head(calls) = calls[1]
      /\ \A i \in 1..(Len(calls) - 1) : calls'[i] = calls[i + 1]
  BY <1>1, HeadTailProperties
<1>3. ASSUME NEW c, CallLeft(c), Head(calls) # c
      PROVE  CallLeft(c)'
  <2>1. PICK i \in 1..Len(calls) : calls[i] = c
    BY <1>3 DEF CallLeft
  <2>2. i - 1 \in 1..(Len(calls) - 1) /\ (i - 1) + 1 = i
    BY <1>2, <1>3, <2>1
  <2>3. i - 1 \in 1..Len(calls') /\ calls'[i - 1] = c
    BY <1>2, <2>1, <2>2
  <2>4. QED
    BY <2>3 DEF CallLeft
<1>4. CASE Head(calls) = "icon"
  <2>1. icon' = pending /\ UNCHANGED <<overlay, races>>
    BY <1>4 DEF RunCall
  <2>2. CallLeft("hide") => CallLeft("hide")'
    BY <1>3, <1>4
  <2>3. QED
    BY <1>1, <2>1, <2>2 DEF ScreenInv
<1>5. CASE Head(calls) = "hide"
  <2>1. overlay' = FALSE /\ races' = races \ {"late"} /\ icon' = icon
    BY <1>5 DEF RunCall
  <2>2. CallLeft("icon") => CallLeft("icon")'
    BY <1>3, <1>5
  <2>3. races' \cap {"early", "crossed"} = races \cap {"early", "crossed"}
    BY <2>1
  <2>4. QED
    BY <1>1, <2>1, <2>2, <2>3 DEF ScreenInv
<1>6. QED
  BY <1>4, <1>5 DEF RunCall

LEMMA NetTaskScreen ==
    ASSUME Types, ScreenInv, NetTask
    PROVE  ScreenInv'
<1>1. UiType /\ state \in WifiStates
  BY DEF Types, ManagerType
<1> USE DEF Goto
<1>2. CASE UNCHANGED <<uiVars, state, news>> /\ net \notin {"dial", "tell"}
  BY <1>2, SameScreen
<1>3. CASE NetConnects
  <2>1. CASE Load
    <3>1. net' = "dial" /\ UNCHANGED <<uiVars, news>> /\ state' = "connecting"
      BY <1>3, <2>1 DEF NetConnects, Load, taskVars, wifiVars, managerVars
    <3>2. UNCHANGED <<CallLeft("icon"), CallLeft("hide"), uiVars>>
      BY <3>1 DEF CallLeft, uiVars
    <3>3. QED
      BY <3>1, <3>2 DEF ScreenInv, uiVars
  <2>2. QED
    BY <1>2, <1>3, <2>1 DEF NetConnects, wifiVars, managerVars, taskVars
<1>9. CASE NetStarts
  <2>1. PICK crossing \in SUBSET {"crossed"} :
          /\ StateCallback("connecting", crossing) /\ UNCHANGED <<state, news>>
          /\ state = "connecting" \/ "crossed" \in crossing
    BY <1>9 DEF NetStarts, Start, taskVars
  <2>2. QED
    BY <1>1, <2>1, ToldScreen DEF WifiStates
<1>4. CASE ProvisionState
  <2>1. UNCHANGED <<CallLeft("icon"), CallLeft("hide")>>
    BY <1>4 DEF ProvisionState, CallLeft, uiVars
  <2>2. /\ net = "provision" /\ state' = "provisioning" /\ UNCHANGED <<uiVars, news>>
        /\ net' # "tell" => state = "provisioning"
    BY <1>4 DEF ProvisionState, taskVars
  <2>3. QED
    BY <2>1, <2>2 DEF ScreenInv, uiVars
<1>5. CASE Tell
  <2>1. PICK crossing \in SUBSET {"crossed"} :
          /\ StateCallback("provisioning", crossing) /\ UNCHANGED <<state, news>>
          /\ state = "provisioning" \/ "crossed" \in crossing
    BY <1>5 DEF Tell, wifiVars, managerVars, taskVars
  <2>2. QED
    BY <1>1, <2>1, ToldScreen DEF WifiStates
<1>6. CASE Show
  <2>1. UNCHANGED <<CallLeft("icon"), CallLeft("hide")>>
    BY <1>6 DEF Show, ShowProvision, CallLeft
  <2>2. /\ net = "show" /\ ui /\ UNCHANGED <<ui, pending, calls, icon, state, news>>
        /\ overlay' = TRUE /\ races' = IF state = "connected" THEN races \cup {"late"} ELSE races
    BY <1>6 DEF Show, ShowProvision, wifiVars, managerVars, taskVars
  <2>3. races' \cap {"early", "crossed"} = races \cap {"early", "crossed"}
    BY <2>2
  <2>4. state' = "connected" => "late" \in races'
    BY <2>2
  <2>5. QED
    BY <2>1, <2>2, <2>3, <2>4 DEF ScreenInv
<1>7. CASE WaitEnds \/ StartPortal \/ Provisioned
  BY <1>2, <1>7 DEF WaitEnds, StartPortal, Provisioned, wifiVars, managerVars, taskVars
<1>8. QED
  BY <1>3, <1>4, <1>5, <1>6, <1>7, <1>9 DEF NetTask

LEMMA StepScreen ==
    ASSUME Types, HandlingInv, ScreenInv, [Next]_vars
    PROVE  ScreenInv'
<1>1. UiType
  BY DEF Types
<1>2. CASE UNCHANGED <<uiVars, state, news, net>>
  BY <1>2, SameScreen
<1>3. CASE EventTask
  BY <1>2, <1>3, ManagerScreen DEF EventTask, PortalHandles, managerVars
<1>4. CASE CreatesUi
  <2>1. UNCHANGED <<CallLeft("icon"), CallLeft("hide")>>
    BY <1>4 DEF CreatesUi, CreateUi, CallLeft
  <2>2. QED
    BY <1>4, <2>1 DEF CreatesUi, CreateUi, ScreenInv, wifiVars, managerVars, taskVars
<1>5. CASE Lvgl
  BY <1>1, <1>5, RunCallScreen DEF Lvgl, wifiVars, managerVars, taskVars
<1>6. CASE Driver \/ Environment \/ RoamingTask
  BY <1>2, <1>6 DEF Driver, Environment, RoamingTask, Joins, GetsIp, Fails, Glitches, ApsMove,
     RoamFinds, RoamLeaves, RoamConnects, managerVars, taskVars
<1>7. CASE Teardown \/ \E cred \in Credentials : Submit(cred)
  BY <1>2, <1>7 DEF Teardown, Submit, wifiVars, managerVars, taskVars
<1>8. QED
  BY <1>2, <1>3, <1>4, <1>5, <1>6, <1>7, NetTaskScreen DEF Next, vars, wifiVars, managerVars, taskVars

-----------------------------------------------------------------------------

LEMMA InitProvisionInv == Init => ProvisionInv
<1> SUFFICES ASSUME Init
             PROVE  ProvisionInv
  OBVIOUS
<1>1. StartInv
  BY DEF Init, WifiInit, StartInv
<1>2. LinkInv
  <2>1. link = "off" /\ state = "disconnected" /\ Len(events) = 0
    BY DEF Init, WifiInit
  <2>2. QED
    BY <2>1 DEF LinkInv
<1>3. ScreenInv
  BY DEF Init, UiInit, WifiInit, ScreenInv
<1>4. HandlingInv
  BY DEF Init, WifiInit, HandlingInv, WifiStates
<1>5. FormInv
  BY DEF Init, WifiInit, FormInv
<1>6. QED
  BY <1>1, <1>2, <1>3, <1>4, <1>5, InitType DEF ProvisionInv

\* The inductive invariant of the knob's network: whatever the order of the
\* driver's events, the portal, roaming and net_task, queue and state
\* together tell the link, what the portal has yet to handle corrects its
\* page, and calls and races tell what the screen shows.
THEOREM ProvisionInvariant == Spec => []ProvisionInv
<1>1. ProvisionInv /\ [Next]_vars => ProvisionInv'
  BY StepType, StepStart, StepHandling, StepLink, StepForm, StepScreen DEF ProvisionInv
<1>2. QED
  BY InitProvisionInv, <1>1, PTL DEF Spec

\* Every variable of the manager, the portal and the icon keeps its range:
\* no more than kMaxRetries retries are counted, whatever comes between.
THEOREM ProvisionTypeOK == Spec => []TypeOK
BY ProvisionInvariant, TypesAreOK, PTL DEF ProvisionInv

\* With no event left, wifi_manager's state is that of the link: connected
\* only when it is up, never connecting when nobody dials, unless an empty
\* name was submitted.
THEOREM StateIsOfLink == Spec => []StateTellsLink
<1>1. ProvisionInv => StateTellsLink
  <2>1. ASSUME LinkInv, events = <<>> PROVE NoDropAfter(0) /\ Len(events) = 0
    BY <2>1 DEF NoDropAfter
  <2>2. QED
    BY <2>1 DEF ProvisionInv, LinkInv, StateTellsLink
<1>2. QED
  BY ProvisionInvariant, <1>1, PTL

\* With no call left for LVGL, and no task between the assignment and the
\* callback of set_state, icon and overlay are those of the manager's state,
\* unless the orders named early, crossed or late came about.
THEOREM ScreenIsTrue == Spec => []ScreenTellsTruth
<1>1. ProvisionInv => ScreenTellsTruth
  <2>1. ASSUME calls = <<>>, NEW c PROVE ~CallLeft(c)
    BY <2>1 DEF CallLeft
  <2>2. QED
    BY <2>1 DEF ProvisionInv, ScreenInv, ScreenTellsTruth
<1>2. QED
  BY ProvisionInvariant, <1>1, PTL

\* With every event handled, the portal's page does not tell a failure on a
\* connected knob, whatever attempts, of the form or not, failed before.
THEOREM PageFailureIsTrue == Spec => []FailureIsCorrected
<1>1. ProvisionInv => FailureIsCorrected
  <2>1. ASSUME events = <<>> PROVE ~UpTold
    BY <2>1 DEF UpTold
  <2>2. PageShows = "failed" => form.fail /\ ~form.ok
    BY DEF PageShows
  <2>3. QED
    BY <2>1, <2>2 DEF ProvisionInv, FormInv, FailureIsCorrected
<1>2. QED
  BY ProvisionInvariant, <1>1, PTL
=============================================================================
