----------------------------- MODULE Provision -----------------------------
(***************************************************************************)
(* The start of the knob's network: net_task with wifi_connect and its     *)
(* time limit, the captive portal of wifi_provision.cpp, which handles the *)
(* same driver events as the manager, and the creation of the UI, which    *)
(* runs at the same time.                                                  *)
(***************************************************************************)
EXTENDS Wifi

VARIABLES
    net,         \* where net_task is
    roaming,     \* roaming_task was started
    active,      \* s_active: access point, DNS and HTTP server are up
    form,        \* s_connecting, s_connect_ok, s_connect_fail
    teardowns    \* prov_teardown_task's that sleep

provVars == <<active, form, teardowns>>
vars == <<uiVars, wifiVars, net, roaming, provVars>>

Blank == [connecting |-> FALSE, ok |-> FALSE, fail |-> FALSE]

Init ==
    /\ UiInit /\ WifiInit
    /\ net = "connect" /\ roaming = FALSE
    /\ active = FALSE /\ form = Blank /\ teardowns = 0

Goto(to) == net' = to

-----------------------------------------------------------------------------
(* net_task *)

\* Without credentials it goes to the portal; when the flash cannot be read
\* for another reason, on to the bridge, with a driver never started.
NetConnects ==
    /\ net = "connect"
    /\ \/ Load /\ Goto("dial")
       \/ /\ nvs.cred = "none" /\ Goto("provision")
          /\ UNCHANGED wifiVars
       \/ /\ nvs.cred = "unreadable" /\ Goto("discovery")
          /\ UNCHANGED wifiVars
    /\ UNCHANGED <<uiVars, roaming, provVars>>

NetStarts == net = "dial" /\ Start /\ Goto("waiting") /\ UNCHANGED <<roaming, provVars>>

\* xEventGroupWaitBits returns a bit, and clears both, or times out.
WaitEnds ==
    /\ net = "waiting"
    /\ IF "connected" \in bits
       THEN Goto("discovery") /\ roaming' = TRUE
       ELSE Goto("provision") /\ UNCHANGED roaming
    /\ bits' = {}
    /\ UNCHANGED <<uiVars, nvs, ram, roamVars, netVars, driverVars, state, retry, fast, taskVars, provVars>>

\* provision_start: wifi_set_state assigns and calls back ...
ProvisionState ==
    /\ net = "provision"
    /\ Goto(IF state = "provisioning" THEN "portal" ELSE "tell")
    /\ state' = "provisioning"
    /\ UNCHANGED <<uiVars, nvs, ram, roamVars, netVars, driverVars, retry, fast, bits, taskVars, roaming, provVars>>

Tell ==
    /\ net = "tell" /\ Goto("portal")
    /\ StateCallback("provisioning", IF state = "provisioning" THEN {} ELSE {"crossed"})
    /\ UNCHANGED <<wifiVars, roaming, provVars>>

\* ... then access point, event handlers, DNS and HTTP server come up. A
\* driver that was not started before sends its start event now.
StartPortal ==
    /\ net = "portal" /\ Goto("show")
    /\ active' = TRUE
    /\ IF link = "off"
       THEN link' = "idle" /\ events' = Append(events, Event("start", None))
       ELSE UNCHANGED <<link, events>>
    /\ UNCHANGED <<uiVars, nvs, ram, roamVars, netVars, config, with, managerVars, taskVars, roaming, form, teardowns>>

\* It waits for the UI, then shows the overlay.
Show ==
    /\ net = "show" /\ ui /\ Goto("provisioned")
    /\ ShowProvision(state)
    /\ UNCHANGED <<wifiVars, roaming, provVars>>

\* wifi_wait_connected returns, at the latest after two minutes.
Provisioned ==
    /\ net = "provisioned" /\ Goto("discovery")
    /\ UNCHANGED <<uiVars, wifiVars, roaming, provVars>>

NetTask ==
    \/ NetConnects \/ NetStarts \/ WaitEnds \/ ProvisionState \/ Tell \/ StartPortal
    \/ Show \/ Provisioned

-----------------------------------------------------------------------------
(* The portal: form, event handler and delayed teardown *)

\* handler_connect: stores the credentials, forgets the access point, sets
\* the flags and lets the driver connect; the manager's s_ssid stays. Whether
\* anything was stored, configured or connected it does not look at: an empty
\* name is not stored, and the driver makes no attempt with it.
Submit(cred) ==
    /\ active /\ Trouble("submit")
    /\ nvs' \in {nvs} \cup (IF cred = "none" THEN {} ELSE {Config(cred, None)})
    /\ form' = [Blank EXCEPT !.connecting = TRUE]
    /\ config' \in {config, Config(cred, None)}
    /\ link' = Dial(link, config')
    /\ UNCHANGED <<uiVars, ram, roamVars, aps, with, events, managerVars, taskVars, net, roaming, active, teardowns>>


PortalFails ==
    /\ form' = IF form.connecting THEN [form EXCEPT !.fail = TRUE, !.connecting = FALSE] ELSE form
    /\ UNCHANGED teardowns

\* A plausible mistake: an address counts only while the form waits for one.
PortalSucceedsIfAsked ==
    IF form.connecting
    THEN /\ form' = [form EXCEPT !.ok = TRUE, !.connecting = FALSE]
         /\ teardowns' = teardowns + 1
    ELSE UNCHANGED <<form, teardowns>>

PortalSucceeds ==
    /\ form' = [form EXCEPT !.ok = TRUE, !.connecting = FALSE]
    /\ teardowns' = teardowns + 1

\* prov_wifi_event_handler, registered while the portal is up, runs after the
\* manager's handler.
PortalHandles ==
    /\ handling \in {"drop", "ip"} /\ handling' = "none"
    /\ \/ active /\ handling = "drop" /\ PortalFails
       \/ active /\ handling = "ip" /\ PortalSucceeds
       \/ ~active /\ UNCHANGED <<form, teardowns>>
    /\ UNCHANGED <<uiVars, nvs, ram, roamVars, netVars, driverVars, managerVars, news, net, roaming, active>>

\* handler_status, that the page polls
PageShows == IF form.ok THEN "connected" ELSE IF form.fail THEN "failed" ELSE "connecting"

Manager ==
    /\ \/ ManagerAssigns /\ UNCHANGED uiVars
       \/ ManagerFinishes
       \/ ManagerPasses
    /\ UNCHANGED <<net, roaming, provVars>>

EventTask == Manager \/ PortalHandles

\* prov_teardown_task wakes up: provision_stop, if nobody did it before
Teardown ==
    /\ teardowns > 0 /\ teardowns' = teardowns - 1
    /\ active' = FALSE
    /\ UNCHANGED <<uiVars, wifiVars, net, roaming, form>>

-----------------------------------------------------------------------------

Driver == (Joins \/ GetsIp \/ Fails) /\ UNCHANGED <<uiVars, net, roaming, provVars>>
Environment == (Glitches \/ ApsMove) /\ UNCHANGED <<uiVars, net, roaming, provVars>>
RoamingTask ==
    /\ roaming /\ (RoamFinds \/ RoamLeaves \/ RoamConnects)
    /\ UNCHANGED <<uiVars, net, roaming, provVars>>
CreatesUi == CreateUi(state) /\ UNCHANGED <<wifiVars, net, roaming, provVars>>
Lvgl == RunCall /\ UNCHANGED <<wifiVars, net, roaming, provVars>>

Next ==
    \/ NetTask \/ EventTask \/ Teardown \/ Driver \/ Environment
    \/ RoamingTask \/ CreatesUi \/ Lvgl
    \/ \E cred \in Credentials : Submit(cred)

\* The tasks run, an attempt ends and an address is given or not. Nothing
\* owes a glitch, a move, a stronger access point or a user; and what follows
\* needs no screen.
Fairness ==
    /\ WF_vars(NetTask) /\ WF_vars(EventTask) /\ WF_vars(Driver)
    /\ WF_vars(roamAt # "sleep" /\ RoamingTask)

Spec == Init /\ [][Next]_vars /\ Fairness
-----------------------------------------------------------------------------
(* Properties *)

\* Type invariant of the manager, the portal and the icon.
TypeOK ==
    /\ nvs \in [cred : Credentials \cup {"unreadable"}, ap : APs \cup {None}]
    /\ config \in [cred : Credentials, ap : APs \cup {None}] /\ ram \in Credentials
    /\ link \in {"off", "idle", "trying", "joined", "up"} /\ with \in APs \cup {None}
    /\ events \in Seq([ev : {"start", "disconnected", "connected", "ip"}, ap : APs \cup {None}])
    /\ {state, pending, icon} \subseteq WifiStates
    /\ retry \in 0..kMaxRetries /\ fast \in BOOLEAN /\ bits \subseteq {"connected", "fail"}
    /\ handling \in {"none", "connecting", "disconnected", "connected", "drop", "ip"}
    /\ roamAt \in {"sleep", "found", "left"} /\ roam \in APs \cup {None} /\ aps \subseteq APs
    /\ net \in {"connect", "dial", "waiting", "provision", "tell", "portal", "show", "provisioned",
                "discovery"}
    /\ calls \in Seq({"icon", "hide"}) /\ {ui, overlay, active, roaming, news} \subseteq BOOLEAN
    /\ races \subseteq {"early", "late", "crossed"}
    /\ form \in [connecting : BOOLEAN, ok : BOOLEAN, fail : BOOLEAN]
    /\ teardowns \in Nat

\* Between a driver that reports later, a retry handler, roaming, the portal
\* and net_task, the state never claims a link that is not there, and never
\* an attempt that nobody makes: a link that rests is told as disconnected
\* (or the portal is up), a working one as connected, unless net_task, late,
\* has written kProvisioning over it. Only an empty name, submitted in the
\* portal, leaves the driver with nothing to attempt and the state connecting.
StateTellsLink == events = <<>> =>
    /\ state = "connected" => link = "up"
    /\ link = "up" => state \in {"connected", "provisioning"}
    /\ link = "idle" /\ config.cred # "none" => state \in {"disconnected", "provisioning"}

\* When no task is between assignment and callback (set_state takes no lock)
\* and LVGL's thread has caught up, the icon shows the manager's state and no
\* setup overlay covers a connected knob. Three orders of events break this:
\* a change of state before the callback was registered (early), a callback,
\* of net_task or of the event task, with a state that the other has set anew
\* since (crossed), and an overlay shown when the state was connected already
\* (late). A later callback mends the first two, a later connection the third.
ScreenTellsTruth == ui /\ calls = <<>> /\ ~news /\ net \notin {"dial", "tell"} =>
    /\ races \cap {"early", "crossed"} = {} => icon = state
    /\ overlay /\ state = "connected" => "late" \in races


\* The page takes any drop for the answer to the form, the drop of an attempt
\* made before included, but it does not go on telling a failure: with all
\* events handled and the portal up, a knob that is connected shows so.
FailureIsCorrected ==
    events = <<>> /\ handling = "none" /\ active /\ PageShows = "failed" => link # "up"

\* With the right credentials stored and the network within reach, a knob
\* connects for good although its stored access point has gone and as many
\* attempts as kMaxRetries leaves fail by chance, the portal and its
\* handlers coming up or not. (Nobody submits meanwhile, no access point
\* moves: roaming ties the knob to one that may go later, without fallback.)
Steady ==
    nvs.cred = "right" /\ aps # {} /\ troubles \subseteq {"glitch"}
FallbackConnects == []Steady => <>[](link = "up")
=============================================================================
