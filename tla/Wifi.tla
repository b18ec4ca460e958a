-------------------------------- MODULE Wifi --------------------------------
(***************************************************************************)
(* The knob's WiFi manager (wifi_manager.cpp): the first connection, by    *)
(* the stored access point or by a scan, the event handler with its        *)
(* retries, and roaming; and the driver and network as it uses them.       *)
(* set_state assigns and then calls back, without a lock, on the event     *)
(* task and on net_task: two steps on each.                                *)
(***************************************************************************)
EXTENDS WifiStatus, FiniteSets

CONSTANTS
    APs,          \* access points of the user's network
    None,         \* no access point
    kMaxRetries,
    MaxTroubles   \* bound on all that happens to the knob from outside

ASSUME WifiAssumption ==
    /\ APs # {} /\ None \notin APs
    /\ kMaxRetries \in Nat /\ MaxTroubles \in Nat

VARIABLES
    nvs,       \* stored credentials and access point
    ram,       \* s_ssid and s_pass
    config,    \* the driver's station configuration
    link,      \* the driver's connection
    with,      \* the access point it is joined to
    events,    \* events that the event task has not handled
    state, retry, fast,  \* s_state, s_retry_count, s_fast_connect
    bits,      \* s_event_group
    handling,  \* what the event task is at: the state that set_state has
               \* assigned, or the event that is left to the portal
    news,      \* set_state has changed the state and not called back
    roamAt,    \* where roaming_task is
    roam,      \* access point that it is about to connect to
    aps,       \* access points within reach
    troubles   \* kinds of trouble so far, one of each

netVars == <<aps, troubles>>
driverVars == <<config, link, with, events>>
managerVars == <<state, retry, fast, bits>>
taskVars == <<handling, news>>
roamVars == <<roamAt, roam>>
wifiVars == <<nvs, ram, roamVars, netVars, driverVars, managerVars, taskVars>>

\* "none" is an empty name, or nothing stored
Credentials == {"none", "wrong", "right"}
Event(e, ap) == [ev |-> e, ap |-> ap]
Config(c, ap) == [cred |-> c, ap |-> ap]

\* A link that fails for no lasting reason, access points that come and go,
\* roaming, and the user's form
Troubles == {"glitch", "move", "roam", "submit"}
Trouble(kind) ==
    /\ kind \notin troubles /\ Cardinality(troubles) < MaxTroubles
    /\ troubles' = troubles \cup {kind}

\* Any flash that an earlier run may have left, and any surroundings; the
\* access points differ in nothing, so one stands for all that may be stored.
WifiInit ==
    /\ nvs \in [cred : Credentials \cup {"unreadable"}, ap : {None}] \cup 
              [cred : {"right"}, ap : {CHOOSE a \in APs : TRUE}]
    /\ ram = "none" /\ config = Config("none", None)
    /\ link = "off" /\ with = None /\ events = <<>>
    /\ state = "disconnected" /\ retry = 0 /\ fast = FALSE /\ bits = {}
    /\ handling = "none" /\ news = FALSE
    /\ roamAt = "sleep" /\ roam = None /\ aps \in SUBSET APs /\ troubles = {}

-----------------------------------------------------------------------------
(* The driver and the network, as the code uses them *)

Reachable == config.cred = "right" /\ (IF config.ap = None THEN aps # {} ELSE config.ap \in aps)

Drop == link' = "idle" /\ with' = None /\ events' = Append(events, Event("disconnected", None))

Joins ==
    /\ link = "trying" /\ Reachable
    /\ \E a \in aps :
         /\ config.ap \in {None, a} /\ with' = a
         /\ events' = Append(events, Event("connected", a))
    /\ link' = "joined"
    /\ UNCHANGED <<nvs, ram, roamVars, config, managerVars, taskVars, netVars>>

GetsIp ==
    /\ link = "joined" /\ link' = "up"
    /\ events' = Append(events, Event("ip", None))
    /\ UNCHANGED <<nvs, ram, roamVars, config, with, managerVars, taskVars, netVars>>

\* An attempt with no chance, and a link to an access point that has gone
Fails ==
    /\ \/ link = "trying" /\ ~Reachable
       \/ link \in {"joined", "up"} /\ with \notin aps
    /\ Drop
    /\ UNCHANGED <<nvs, ram, roamVars, config, managerVars, taskVars, netVars>>

Glitches ==
    /\ link \in {"trying", "joined", "up"} /\ Trouble("glitch")
    /\ Drop
    /\ UNCHANGED <<nvs, ram, roamVars, config, managerVars, taskVars, aps>>

ApsMove ==
    /\ Trouble("move")
    /\ aps' \in SUBSET APs \ {aps}
    /\ UNCHANGED <<nvs, ram, roamVars, driverVars, managerVars, taskVars>>

\* esp_wifi_set_config: refused, perhaps, in the middle of an attempt
SetConfig(c) == config' = c \/ (link = "trying" /\ config' = config)

\* esp_wifi_connect, after a configuration c: no effect on a busy link
Dial(l, c) == IF l = "idle" /\ c.cred # "none" THEN "trying" ELSE l

-----------------------------------------------------------------------------
(* wifi_event_handler, on the event task: up to the assignment of set_state *)

Assigns(s) == state' = s /\ handling' = s /\ news' = (s # state)

Retry == retry' = retry + 1 /\ Assigns("connecting")

\* A plausible mistake: one retry more.
MayRetryTooOften == retry <= kMaxRetries

MayRetry == retry < kMaxRetries

\* A plausible mistake: the state is left to those who wait for the bit.
GiveUpSilently == handling' = "disconnected" /\ UNCHANGED <<retry, state, news>>

GiveUp == Assigns("disconnected") /\ UNCHANGED retry

ManagerAssigns ==
    /\ events # <<>> /\ handling = "none"
    /\ LET ev == Head(events).ev IN
         \/ ev = "disconnected" /\ MayRetry /\ Retry
         \/ ev = "disconnected" /\ ~MayRetry /\ GiveUp
         \/ ev = "ip" /\ retry' = 0 /\ Assigns("connected")
    /\ UNCHANGED <<nvs, ram, roamVars, netVars, driverVars, fast, bits>>

-----------------------------------------------------------------------------
(* ... and from the callback on, and the events that set no state *)

\* set_state calls back, though another task may have set the state since.
CallsBack ==
    /\ IF news THEN StateCallback(handling, IF state = handling THEN {} ELSE {"crossed"})
               ELSE UNCHANGED uiVars
    /\ news' = FALSE

\* A plausible mistake: the retry keeps the stored access point.
RedialPinned ==
    /\ UNCHANGED <<fast, config>>
    /\ link' = Dial(link, config)

\* The first failure of a fast connect falls back to a scan.
Redial ==
    /\ IF fast /\ retry = 1 THEN fast' = FALSE /\ SetConfig(Config(ram, None))
                            ELSE UNCHANGED <<fast, config>>
    /\ link' = Dial(link, config')

SetsBit(bit) == bits' = bits \cup {bit} /\ UNCHANGED <<fast, config, link>>

\* A drop and an address are left to the portal's handler.
ManagerFinishes ==
    /\ handling \in WifiStates /\ CallsBack
    /\ \/ handling = "connecting" /\ Redial /\ UNCHANGED bits /\ handling' = "drop"
       \/ handling = "disconnected" /\ SetsBit("fail") /\ handling' = "drop"
       \/ handling = "connected" /\ SetsBit("connected") /\ handling' = "ip"
    /\ events' = Tail(events)
    /\ UNCHANGED <<nvs, ram, roamVars, netVars, with, state, retry>>

ManagerPasses ==
    /\ events # <<>> /\ handling = "none" /\ events' = Tail(events)
    /\ \/ Head(events).ev = "start" /\ link' = Dial(link, config) /\ UNCHANGED nvs
       \/ Head(events).ev = "connected" /\ nvs' = [nvs EXCEPT !.ap = Head(events).ap]
          /\ UNCHANGED link
    /\ UNCHANGED <<uiVars, ram, roamVars, netVars, config, with, managerVars, taskVars>>

-----------------------------------------------------------------------------
(* wifi_connect, up to its wait *)

\* It has read credentials: set_state assigns. The state was another before.
Load ==
    /\ nvs.cred \in {"wrong", "right"} /\ ram' = nvs.cred
    /\ retry' = 0 /\ state' = "connecting"
    /\ UNCHANGED <<nvs, roamVars, netVars, driverVars, fast, bits, taskVars>>

\* It calls back, configures the driver and starts it.
Start ==
    /\ StateCallback("connecting", IF state = "connecting" THEN {} ELSE {"crossed"})
    /\ fast' = (nvs.ap # None) /\ config' = Config(ram, nvs.ap)
    /\ link' = "idle" /\ events' = Append(events, Event("start", None))
    /\ UNCHANGED <<nvs, ram, roamVars, netVars, with, state, retry, bits, taskVars>>

-----------------------------------------------------------------------------
(* roaming_task *)

\* Connected, it scans, and finds a stronger access point of the network.
RoamFinds ==
    /\ roamAt = "sleep" /\ state = "connected" /\ link \in {"joined", "up"}
    /\ Trouble("roam")
    /\ roam' \in aps \ {with} /\ roamAt' = "found"
    /\ UNCHANGED <<nvs, ram, aps, driverVars, managerVars, taskVars>>

\* It disconnects what is connected, or trying again, after the scan ...
RoamLeaves ==
    /\ roamAt = "found" /\ roamAt' = "left"
    /\ IF link \in {"trying", "joined", "up"} THEN Drop ELSE UNCHANGED <<link, with, events>>
    /\ UNCHANGED <<nvs, ram, roam, netVars, config, managerVars, taskVars>>

\* ... and connects.
RoamConnects ==
    /\ roamAt = "left" /\ roamAt' = "sleep" /\ roam' = None
    /\ SetConfig(Config(ram, roam)) /\ link' = Dial(link, config')
    /\ UNCHANGED <<nvs, ram, with, events, netVars, managerVars, taskVars>>
=============================================================================
