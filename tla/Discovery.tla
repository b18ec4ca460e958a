---------------------------- MODULE Discovery ----------------------------
(***************************************************************************)
(* How the knob finds the bridge and keeps its WebSocket connection        *)
(* (idf_app/main/bridge_discovery.cpp): discovery_task with the address    *)
(* cached in flash, mDNS and connect_ws; the task of the WebSocket client, *)
(* which reconnects by itself and reports to ws_event_handler; and the     *)
(* state both of them set and show.                                        *)
(*                                                                         *)
(* External: the bridge, mDNS, and the WebSocket client of ESP-IDF, whose  *)
(* task changes its link and then calls the handler.                       *)
(*                                                                         *)
(* Assumed: the flash can be opened and its entries written and erased     *)
(* (nvs_save_bridge and nvs_clear_bridge return early or go on without a   *)
(* word when they cannot).                                                 *)
(***************************************************************************)
EXTENDS Integers, FiniteSets

CONSTANTS
    Host, Port,   \* what an address is made of
    Place,        \* the addresses the bridge is ever found at
    None,         \* no address, no client, nothing to tell
    MaxMoves,     \* bound of the model: times the bridge starts, stops or moves
    MaxDrops,     \* bound of the model: connections lost for no other reason
    MaxMisses,    \* bound of the model: mDNS queries unanswered or stale
    MaxFailures,  \* bound of the model: clients that cannot be started
    MaxReboots    \* bound of the model: power cycles of the knob

ASSUME DiscoveryAssumption ==
    /\ Place \subseteq Host \X Port
    /\ None \notin Host /\ None \notin Port /\ None \notin Place
    /\ {MaxMoves, MaxDrops, MaxMisses, MaxFailures, MaxReboots} \subseteq Nat

VARIABLES
    bridge,     \* where the bridge listens
    nvs,        \* the cached address: host and port are two entries
    pc,         \* control point of discovery_task
    dest,       \* the address connect_ws is given
    cached,     \* connect_ws waits: the address came from the cache
    found,      \* results of the query not tried yet
    client,     \* s_ws_client: its address and its link
    event,      \* what the client's task is about to report
    state,      \* s_state
    telling,    \* the state each task has set and not yet called s_cb with
    shown,      \* the state s_cb was last called with
    budget      \* what is left of the bounds

knobVars == <<pc, dest, cached, found>>
wsVars   == <<client, event>>
uiVars   == <<state, telling, shown>>
vars     == <<bridge, nvs, knobVars, wsVars, uiVars, budget>>

BridgeState == {"disconnected", "searching", "connecting", "connected"}
Address     == Host \X Port
NoClient    == [at |-> None, link |-> "off"]

PC == {"boot", "init", "start", "wait", "eraseHost", "erasePort", "check", "search",
       "query", "pick", "saveHost", "savePort", "sleep"}

TypeOK ==
    /\ bridge \in Place \cup {None}
    /\ nvs \in [host : Host \cup {None}, port : Port \cup {None}]
    /\ pc \in PC
    /\ dest \in Address \cup {None}
    /\ cached \in BOOLEAN
    /\ found \in SUBSET Place
    /\ client \in [at : Address \cup {None}, link : {"off", "down", "up"}]
    /\ event \in {None, "connected", "disconnected"}
    /\ state \in BridgeState
    /\ telling \in [{"task", "ws"} -> BridgeState \cup {None}]
    /\ shown \in BridgeState
    /\ budget \in [moves : 0..MaxMoves, drops : 0..MaxDrops, misses : 0..MaxMisses,
                   failures : 0..MaxFailures, reboots : 0..MaxReboots]

\* A new knob: nothing in flash.
Init ==
    /\ bridge \in Place \cup {None}
    /\ nvs = [host |-> None, port |-> None]
    /\ pc = "boot" /\ dest = None /\ cached = FALSE /\ found = {}
    /\ client = NoClient /\ event = None
    /\ state = "disconnected"
    /\ telling = [t \in {"task", "ws"} |-> None]
    /\ shown = "disconnected"
    /\ budget = [moves |-> MaxMoves, drops |-> MaxDrops, misses |-> MaxMisses,
                 failures |-> MaxFailures, reboots |-> MaxReboots]

Spend(what) == budget[what] > 0 /\ budget' = [budget EXCEPT ![what] = @ - 1]

---------------------------------------------------------------------------
(* set_state, from two tasks                                               *)

\* set_state compares and assigns; the call of s_cb comes after that.
SetState(t, s) ==
    /\ state' = s
    /\ telling' = IF s = state THEN telling ELSE [telling EXCEPT ![t] = s]
    /\ UNCHANGED shown

\* s_cb
Callback(t) ==
    /\ telling[t] # None
    /\ shown' = telling[t]
    /\ telling' = [telling EXCEPT ![t] = None]
    /\ UNCHANGED <<bridge, nvs, knobVars, wsVars, state, budget>>

---------------------------------------------------------------------------
(* The WebSocket client's task                                             *)

WsIdle == event = None /\ telling["ws"] = None

Link(to, report) ==
    /\ WsIdle
    /\ client' = [client EXCEPT !.link = to]
    /\ event' = report
    /\ UNCHANGED <<bridge, nvs, knobVars, uiVars>>

CanLink == client.link = "down" /\ client.at = bridge

LinkUp ==
    /\ CanLink
    /\ Link("up", "connected")
    /\ UNCHANGED budget

\* An attempt to reconnect fails.
LinkFails ==
    /\ client.link = "down" /\ client.at # bridge
    /\ Link("down", "disconnected")
    /\ UNCHANGED budget

LinkDrops ==
    /\ client.link = "up"
    /\ Link("down", "disconnected")
    /\ IF client.at = bridge THEN Spend("drops") ELSE UNCHANGED budget

\* (defect) a lost connection is not reported
HandleConnectedOnly ==
    /\ event # None
    /\ IF event = "connected" THEN SetState("ws", event) ELSE UNCHANGED uiVars
    /\ event' = None
    /\ UNCHANGED <<bridge, nvs, knobVars, client, budget>>

\* ws_event_handler
HandleEvent ==
    /\ event # None
    /\ SetState("ws", event)
    /\ event' = None
    /\ UNCHANGED <<bridge, nvs, knobVars, client, budget>>

---------------------------------------------------------------------------
(* connect_ws                                                              *)

TaskAt(p) == pc = p /\ telling["task"] = None

\* What the caller of connect_ws does when it returns false.
AfterFailure == pc' = IF cached THEN "eraseHost" ELSE "pick"

\* The previous client is stopped, which waits for its task, and destroyed.
ConnectInit ==
    /\ TaskAt("init") /\ WsIdle
    /\ client' = NoClient
    /\ \/ pc' = "start" /\ SetState("task", "connecting") /\ UNCHANGED budget
       \/ Spend("failures") /\ AfterFailure /\ UNCHANGED uiVars
    /\ UNCHANGED <<bridge, nvs, dest, cached, found, event>>

\* Without a timeout, connect_ws returns true as soon as the client runs.
ConnectStart ==
    /\ TaskAt("start")
    /\ \/ /\ client' = [at |-> dest, link |-> "down"]
          /\ pc' = IF cached THEN "wait" ELSE "saveHost"
          /\ UNCHANGED budget
       \/ Spend("failures") /\ AfterFailure /\ UNCHANGED client
    /\ UNCHANGED <<bridge, nvs, dest, cached, found, event, uiVars>>

CachedConnected ==
    /\ TaskAt("wait") /\ client.link = "up"
    /\ pc' = "check"
    /\ UNCHANGED <<bridge, nvs, dest, cached, found, wsVars, uiVars, budget>>

\* The 2s are over; the link may have come up since it was last looked at.
CachedTimeout ==
    /\ TaskAt("wait") /\ WsIdle
    /\ client' = NoClient
    /\ AfterFailure
    /\ UNCHANGED <<bridge, nvs, dest, cached, found, event, uiVars, budget>>

---------------------------------------------------------------------------
(* discovery_task                                                          *)

BootWith(cacheIsUsable) ==
    /\ TaskAt("boot")
    /\ IF cacheIsUsable
       THEN pc' = "init" /\ dest' = <<nvs.host, nvs.port>> /\ cached' = TRUE
       ELSE pc' = "check" /\ UNCHANGED <<dest, cached>>
    /\ UNCHANGED <<bridge, nvs, found, wsVars, uiVars, budget>>

\* (defect) the second entry is not looked at
BootOnHost == BootWith(nvs.host # None)

\* nvs_load_bridge succeeds only when both entries are there.
Boot == BootWith(nvs.host # None /\ nvs.port # None)

\* nvs_clear_bridge and nvs_save_bridge write one entry after the other.
Write(from, entry, value, to) ==
    /\ TaskAt(from)
    /\ nvs' = [nvs EXCEPT ![entry] = value]
    /\ pc' = to
    /\ UNCHANGED <<bridge, dest, cached, found, wsVars, uiVars, budget>>

\* (defect) only the host is saved
SaveHostOnly == Write("saveHost", "host", dest[1], "sleep")

EraseHost == Write("eraseHost", "host", None, "erasePort")
ErasePort == Write("erasePort", "port", None, "check")
SaveHost  == Write("saveHost", "host", dest[1], "savePort")
SavePort  == Write("savePort", "port", dest[2], "sleep")

\* (defect) the task leaves a client that exists to reconnect by itself
LookForClient ==
    /\ TaskAt("check") /\ client.link = "off"
    /\ pc' = "search" /\ cached' = FALSE
    /\ UNCHANGED <<bridge, nvs, dest, found, wsVars, uiVars, budget>>

\* Not connected.  While it is connected, the task just looks every 5s.
Look ==
    /\ TaskAt("check") /\ client.link # "up"
    /\ pc' = "search" /\ cached' = FALSE
    /\ UNCHANGED <<bridge, nvs, dest, found, wsVars, uiVars, budget>>

Search ==
    /\ TaskAt("search")
    /\ SetState("task", "searching")
    /\ pc' = "query"
    /\ UNCHANGED <<bridge, nvs, dest, cached, found, wsVars, budget>>

\* mDNS answers with the bridge, or with addresses it is no longer at, or
\* with nothing.
Query ==
    /\ TaskAt("query")
    /\ \/ bridge # None /\ found' = {bridge} /\ pc' = "pick" /\ UNCHANGED budget
       \/ Spend("misses") /\ found' \in (SUBSET Place) \ {{}} /\ pc' = "pick"
       \/ Spend("misses") /\ pc' = "check" /\ UNCHANGED found
       \/ bridge = None /\ pc' = "check" /\ UNCHANGED <<found, budget>>
    /\ UNCHANGED <<bridge, nvs, dest, cached, wsVars, uiVars>>

\* The next result, or none of them could be tried.
Pick ==
    /\ TaskAt("pick")
    /\ \/ \E a \in found :
            dest' = a /\ found' = found \ {a} /\ pc' = "init" /\ UNCHANGED uiVars
       \/ found = {} /\ SetState("task", "disconnected") /\ pc' = "check"
            /\ UNCHANGED <<dest, found>>
    /\ UNCHANGED <<bridge, nvs, cached, wsVars, budget>>

\* The 5s after a connect are long enough for a bridge that is there.
Wake ==
    /\ TaskAt("sleep") /\ ~CanLink
    /\ pc' = "check" /\ found' = {}
    /\ UNCHANGED <<bridge, nvs, dest, cached, wsVars, uiVars, budget>>

---------------------------------------------------------------------------
(* The surroundings                                                        *)

BridgeMoves ==
    /\ Spend("moves")
    /\ bridge' \in (Place \cup {None}) \ {bridge}
    /\ UNCHANGED <<nvs, knobVars, wsVars, uiVars>>

\* Only the flash survives.
Reboot ==
    /\ Spend("reboots")
    /\ pc' = "boot" /\ dest' = None /\ cached' = FALSE /\ found' = {}
    /\ client' = NoClient /\ event' = None
    /\ state' = "disconnected" /\ shown' = "disconnected"
    /\ telling' = [t \in {"task", "ws"} |-> None]
    /\ UNCHANGED <<bridge, nvs>>

---------------------------------------------------------------------------
TaskStep ==
    \/ Boot \/ ConnectInit \/ ConnectStart \/ CachedConnected \/ CachedTimeout
    \/ EraseHost \/ ErasePort \/ Look \/ Search \/ Query \/ Pick \/ SaveHost
    \/ SavePort \/ Wake

WsStep == LinkUp \/ LinkFails \/ LinkDrops \/ HandleEvent

Next ==
    \/ TaskStep
    \/ WsStep
    \/ \E t \in {"task", "ws"} : Callback(t)
    \/ BridgeMoves
    \/ Reboot

Safety == Init /\ [][Next]_vars

\* The tasks run; stopping a client waits for a moment between two reports of
\* its task, which the stop itself brings about.  The client tries again
\* whenever it is not connected and notices, by its pings, a bridge that left.
Fairness ==
    /\ SF_vars(TaskStep)
    /\ WF_vars(HandleEvent)
    /\ \A t \in {"task", "ws"} : WF_vars(Callback(t))
    /\ WF_vars(LinkUp)
    /\ WF_vars(LinkDrops /\ client.at # bridge)

Spec == Safety /\ Fairness

---------------------------------------------------------------------------
(* Properties                                                              *)

\* bridge_discovery.cpp:529-583: whenever the task has nothing to do but wait
\* for its client, the flash holds that client's address: the next boot can
\* take the fast path, whatever was lost, moved, erased or interrupted before.
\* It takes a flash that can be written: a save that fails leaves the old
\* address, and nothing but the next failed fast path corrects it.
FastPathIsCurrent ==
    pc \in {"sleep", "check", "search", "query"} /\ client.link # "off" =>
        <<nvs.host, nvs.port>> = client.at

\* bridge_discovery.cpp:540-598: once the bridge stays where it is, the knob
\* ends up connected, from any cache, stale mDNS records and power cycles.
FindsBridge == <>[](bridge # None) => <>[](client.link = "up")

\* bridge_discovery.cpp:421-424: the UI does not go on showing a connection
\* that is lost, although two tasks set the state and call s_cb unordered.
LossIsShown == client.link # "up" ~> (client.link = "up" \/ shown # "connected")

\* bridge_discovery.h:30: bridge_is_connected tells whether the WebSocket
\* is connected.  discovery_task looks at the client first and sets the state
\* to searching later, and nothing sets it back when the client reconnected
\* in between.
ConnectedIsShown == <>[](client.link = "up") => <>[](state = "connected")

====
