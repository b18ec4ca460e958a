--------------------------- MODULE BridgeSync ---------------------------
(***************************************************************************)
(* How the amplifier's state reaches the knobs: the cache                  *)
(* (state/cache.go), everything that writes it - the poll of main.go, the  *)
(* notification listener, the volume flush and the mute command of the     *)
(* WebSocket handler - and the events and snapshots that tell the knobs.   *)
(*                                                                         *)
(* A task is a goroutine of the bridge.  The ticker's only polls; the      *)
(* others serve a notification, a command or a throttled volume each.      *)
(* The cache locks one assignment; the event that announces it is computed *)
(* and broadcast after the lock is released, so tasks interleave there.    *)
(*                                                                         *)
(* Artwork, position and connected events are left out: they travel the    *)
(* same way and carry none of the state compared here.  The bridge knows   *)
(* its own address; without one it never registers.                        *)
(***************************************************************************)
EXTENDS Integers, Sequences

CONSTANTS
    Volume,       \* the volumes in play
    Track,        \* what get_current_state returns, apart from the position
    Request,      \* goroutines serving a request
    Knob,         \* WebSocket clients
    QueueCap,     \* capacity of Hub.broadcast
    Bounds        \* bounds of the model: for a behaviour, how often the amplifier's
                  \* state changes and it restarts, requests fail and knobs join

Budget == [changes : Nat, reboots : Nat, failures : Nat, joins : Nat]

ASSUME SyncAssumption ==
    /\ QueueCap \in Nat \ {0}
    /\ Bounds \subseteq Budget
    /\ "ticker" \notin Request /\ "" \notin Track

Task == Request \cup {"ticker"}

VARIABLES
    amp,        \* the amplifier's state
    registered, \* the amplifier sends this bridge its notifications
    noti,       \* notifications on their way
    cache,      \* Cache.state
    task,       \* where each goroutine is, and the values it holds
    queue,      \* Hub.broadcast
    knob,       \* where ServeHTTP is with each connection
    view,       \* what a knob shows once it has read all it was sent;
                \* the snapshot it is going to be sent, while it joins
    budget,     \* what is left of the bounds
    joinRaced,  \* history: an event overtook the knob's snapshot
    torn,       \* history: an event may have overtaken a newer one
    alone       \* history: the last store, if nothing overlapped its event

ampVars     == <<amp, registered, noti>>
hubVars     == <<queue, knob, view, joinRaced>>
historyVars == <<torn, alone>>
vars        == <<ampVars, cache, task, hubVars, budget, historyVars>>

State == [vol : Volume \cup {0}, mute : BOOLEAN, track : Track \cup {""}]
Zero  == [vol |-> 0, mute |-> FALSE, track |-> ""]   \* NewCache

Notification == [kind : {"volume"}, vol : Volume]
           \cup [kind : {"mute"}, mute : BOOLEAN]
           \cup [kind : {"play"}]

Event == [kind : {"volume"}, vol : Volume \cup {0}] \cup [kind : {"state"}, s : State]

\* The poll goes poll, control, current, update; the mute command toggle,
\* getMute, setMute; a volume, setVolume.  All that changed the cache go on
\* to changed and telling, or to tellVolume.
PC == {"idle", "poll", "control", "current", "update", "toggle", "getMute", "setMute",
       "setVolume", "changed", "telling", "tellVolume"}

TypeOK ==
    /\ amp \in [vol : Volume, mute : BOOLEAN, track : Track]
    /\ registered \in BOOLEAN
    /\ noti \in SUBSET Notification
    /\ cache \in State
    /\ task \in [Task -> [pc : PC, s : State, flips : 0..2, attempt : 0..1]]
    /\ queue \in Seq(Event) /\ Len(queue) <= QueueCap
    /\ knob \in [Knob -> {"off", "registered", "snapped", "online"}]
    /\ view \in [Knob -> State]
    /\ budget \in Budget
    /\ joinRaced \in [Knob -> BOOLEAN]
    /\ torn \in BOOLEAN
    /\ alone \in SUBSET Task

Doing(pc, s) == [pc |-> pc, s |-> s, flips |-> 0, attempt |-> 0]
Idle         == Doing("idle", Zero)

\* The initial poll of main is over; each of its requests may have failed.
Init ==
    /\ amp \in [vol : Volume, mute : {FALSE}, track : Track]
    /\ noti = {}
    /\ cache \in {amp, Zero}
    /\ registered \in BOOLEAN
    /\ task = [t \in Task |-> Idle]
    /\ queue = <<>>
    /\ knob = [k \in Knob |-> "off"]
    /\ view = [k \in Knob |-> Zero]
    /\ budget \in Bounds
    /\ joinRaced = [k \in Knob |-> FALSE]
    /\ torn = FALSE
    /\ alone = {}

Spend(what) == budget[what] > 0 /\ budget' = [budget EXCEPT ![what] = @ - 1]
At(t, pc)   == task[t].pc = pc
Goto(t, pc) == task' = [task EXCEPT ![t].pc = pc]
Stop(t)     == task' = [task EXCEPT ![t] = Idle]

---------------------------------------------------------------------------
(* The amplifier                                                           *)

\* Its state changes and, if the bridge is registered, it sends a
\* notification.  One that nobody answers is gone.
AmpBecomes(new, n) ==
    /\ new # amp
    /\ Spend("changes")
    /\ amp' = new
    /\ noti' \in {noti} \cup {noti \cup {m} : m \in IF registered THEN {n} ELSE {}}

VolumeBecomes(v) == AmpBecomes([amp EXCEPT !.vol = v], [kind |-> "volume", vol |-> v])
MuteFlips        == AmpBecomes([amp EXCEPT !.mute = ~@], [kind |-> "mute", mute |-> ~amp.mute])
TrackBecomes(tr) == AmpBecomes([amp EXCEPT !.track = tr], [kind |-> "play"])

\* Someone uses the amplifier itself.
AmpUsed ==
    /\ (\E v \in Volume : VolumeBecomes(v)) \/ MuteFlips \/ (\E tr \in Track : TrackBecomes(tr))
    /\ UNCHANGED <<registered, cache, task, hubVars, historyVars>>

\* It restarts and forgets its controllers.
AmpReboots ==
    /\ Spend("reboots")
    /\ registered' = FALSE
    /\ UNCHANGED <<amp, noti, cache, task, hubVars, historyVars>>

---------------------------------------------------------------------------
(* Reading the amplifier: pollDeviceState                                  *)

\* (defect) the bridge registers only at start
PollStartOnly(t) ==
    /\ At(t, "poll") \/ (t = "ticker" /\ At(t, "idle"))
    /\ Goto(t, "control")
    /\ UNCHANGED <<ampVars, cache, hubVars, budget, historyVars>>

\* DeviceConnected; when it fails the poll goes on all the same.
PollStart(t) ==
    /\ At(t, "poll") \/ (t = "ticker" /\ At(t, "idle"))
    /\ Goto(t, "control")
    /\ \/ registered' = TRUE /\ UNCHANGED budget
       \/ Spend("failures") /\ UNCHANGED registered
    /\ UNCHANGED <<amp, noti, cache, hubVars, historyVars>>

GetControlInfo(t) ==
    /\ At(t, "control")
    /\ LET s == [vol |-> amp.vol, mute |-> amp.mute, track |-> Zero.track]
       IN  task' = [task EXCEPT ![t] = Doing("current", s)]
    /\ UNCHANGED <<ampVars, cache, hubVars, budget, historyVars>>

GetCurrentState(t) ==
    /\ At(t, "current")
    /\ task' = [task EXCEPT ![t] = Doing("update", [task[t].s EXCEPT !.track = amp.track])]
    /\ UNCHANGED <<ampVars, cache, hubVars, budget, historyVars>>

\* Any of the requests a task waits for may fail, and ends it.
RequestFails(t) ==
    /\ task[t].pc \in {"control", "current", "toggle", "getMute"}
    /\ Spend("failures")
    /\ Stop(t)
    /\ UNCHANGED <<ampVars, cache, hubVars, historyVars>>

---------------------------------------------------------------------------
(* Writing the cache, under its lock                                       *)

Telling == {"changed", "telling", "tellVolume"}   \* changed, not yet broadcast

\* The cache becomes `new`.  If that is a change the task goes on to tell it,
\* as a volume or, once it has taken a snapshot, as a whole state.
Stored(t, new, changed, next) ==
    LET told   == IF next = "tellVolume" THEN new.vol ELSE Zero.vol
        others == \E u \in Task \ {t} : task[u].pc \in Telling
    IN  /\ cache' = new
        /\ IF changed
           THEN /\ task' = [task EXCEPT ![t] = Doing(next, [Zero EXCEPT !.vol = told])]
                /\ torn' = (torn \/ others)
                /\ alone' = IF others THEN {} ELSE {t}
           ELSE Stop(t) /\ UNCHANGED historyVars
        /\ UNCHANGED <<ampVars, hubVars, budget>>

\* (defect) a field is missing from the comparison
UpdateForgetsTrack(t) ==
    LET s == task[t].s
    IN  At(t, "update") /\ Stored(t, s, [cache EXCEPT !.track = s.track] # s, "changed")

\* (defect) a poll leaves the volume to the notifications
UpdateKeepsVolume(t) ==
    LET s == [task[t].s EXCEPT !.vol = cache.vol]
    IN  At(t, "update") /\ Stored(t, s, s # cache, "changed")

\* Cache.Update
Update(t) == At(t, "update") /\ Stored(t, task[t].s, task[t].s # cache, "changed")

SetVolume(t) ==
    /\ At(t, "setVolume")
    /\ LET v == task[t].s.vol
       IN  Stored(t, [cache EXCEPT !.vol = v], cache.vol # v, "tellVolume")

\* (defect) a mute that changed is not announced
SetMuteSilently(t) ==
    /\ At(t, "setMute")
    /\ Stored(t, [cache EXCEPT !.mute = task[t].s.mute], FALSE, "changed")

SetMute(t) ==
    /\ At(t, "setMute")
    /\ LET m == task[t].s.mute
       IN  Stored(t, [cache EXCEPT !.mute = m], cache.mute # m, "changed")

---------------------------------------------------------------------------
(* Telling the knobs                                                       *)

\* s := cache.Snapshot(), under the lock again
Snapshot(t) ==
    /\ At(t, "changed")
    /\ task' = [task EXCEPT ![t] = Doing("telling", cache)]
    /\ UNCHANGED <<ampVars, cache, hubVars, budget, historyVars>>

\* (defect) the channel has no limit
BroadcastUnbounded(t, e) ==
    /\ queue' = Append(queue, e)
    /\ Stop(t)
    /\ UNCHANGED <<ampVars, cache, knob, view, joinRaced, budget>>

\* Hub.Broadcast, which blocks while the channel is full; the task ends.
Broadcast(t, e) ==
    /\ Len(queue) < QueueCap
    /\ queue' = Append(queue, e)
    /\ Stop(t)
    /\ UNCHANGED <<ampVars, cache, knob, view, joinRaced, budget>>

\* A whole state that nothing overlapped puts right what earlier ones tore.
BroadcastState(t) ==
    /\ At(t, "telling")
    /\ Broadcast(t, [kind |-> "state", s |-> task[t].s])
    /\ torn' = (torn /\ t \notin alone)
    /\ alone' = alone \ {t}

BroadcastVolume(t) ==
    /\ At(t, "tellVolume")
    /\ Broadcast(t, [kind |-> "volume", vol |-> task[t].s.vol])
    /\ alone' = alone \ {t}
    /\ UNCHANGED torn

---------------------------------------------------------------------------
(* Requests served                                                         *)

\* handleNotification
Notified(t, n) ==
    /\ t \in Request /\ At(t, "idle")
    /\ noti' = noti \ {n}
    /\ task' = [task EXCEPT ![t] =
         CASE n.kind = "volume" -> Doing("setVolume", [Zero EXCEPT !.vol = n.vol])
           [] n.kind = "mute"   -> Doing("setMute", [Zero EXCEPT !.mute = n.mute])
           [] n.kind = "play"   -> Doing("poll", Zero)]
    /\ UNCHANGED <<amp, registered, cache, hubVars, budget, historyVars>>

\* flushVolume's POST is answered: the amplifier has the volume.
VolumeCommand(t, v) ==
    /\ t \in Request /\ At(t, "idle")
    /\ \/ VolumeBecomes(v)
       \/ v = amp.vol /\ UNCHANGED <<amp, noti, budget>>
    /\ task' = [task EXCEPT ![t] = Doing("setVolume", [Zero EXCEPT !.vol = v])]
    /\ UNCHANGED <<registered, cache, hubVars, historyVars>>

\* play_pause, next and prev: the POST is answered, a poll follows.
TrackCommand(t) ==
    /\ t \in Request /\ At(t, "idle")
    /\ \E tr \in Track : TrackBecomes(tr)
    /\ Goto(t, "poll")
    /\ UNCHANGED <<registered, cache, hubVars, historyVars>>

MuteCommand(t) ==
    /\ t \in Request /\ At(t, "idle")
    /\ budget.changes > 0
    /\ Goto(t, "toggle")
    /\ UNCHANGED <<ampVars, cache, hubVars, budget, historyVars>>

\* ToggleMute: the amplifier flips its mute and the answer arrives, or the
\* connection ends with an EOF before or after that, and post tries once more.
ToggleMute(t) ==
    /\ At(t, "toggle")
    /\ \/ /\ MuteFlips
          /\ \/ task' = [task EXCEPT ![t].pc = "getMute", ![t].flips = @ + 1]
             \/ /\ task[t].attempt = 0
                /\ task' = [task EXCEPT ![t].attempt = 1, ![t].flips = @ + 1]
       \/ /\ task[t].attempt = 0 /\ Spend("failures")
          /\ task' = [task EXCEPT ![t].attempt = 1]
          /\ UNCHANGED <<amp, noti>>
    /\ UNCHANGED <<registered, cache, hubVars, historyVars>>

GetMuteState(t) ==
    /\ At(t, "getMute")
    /\ task' = [task EXCEPT ![t] = Doing("setMute", [Zero EXCEPT !.mute = amp.mute])]
    /\ UNCHANGED <<ampVars, cache, hubVars, budget, historyVars>>

---------------------------------------------------------------------------
(* The knobs                                                               *)

\* ServeHTTP: Register has returned; the next event goes to this knob too.
Join(k) ==
    /\ knob[k] = "off"
    /\ Spend("joins")
    /\ knob' = [knob EXCEPT ![k] = "registered"]
    /\ UNCHANGED <<ampVars, cache, task, queue, view, joinRaced, historyVars>>

TakeSnapshot(k) ==
    /\ knob[k] = "registered"
    /\ knob' = [knob EXCEPT ![k] = "snapped"]
    /\ view' = [view EXCEPT ![k] = cache]
    /\ UNCHANGED <<ampVars, cache, task, queue, joinRaced, budget, historyVars>>

\* client.send <- data: the snapshot follows whatever the hub sent before it.
SendSnapshot(k) ==
    /\ knob[k] = "snapped"
    /\ knob' = [knob EXCEPT ![k] = "online"]
    /\ UNCHANGED <<ampVars, cache, task, queue, view, joinRaced, budget, historyVars>>

\* The connection ends, on either side, or the hub cuts it.
Leave(k) ==
    /\ knob[k] = "online"
    /\ knob' = [knob EXCEPT ![k] = "off"]
    /\ view' = [view EXCEPT ![k] = Zero]
    /\ joinRaced' = [joinRaced EXCEPT ![k] = FALSE]
    /\ UNCHANGED <<ampVars, cache, task, queue, budget, historyVars>>

\* Hub.Run sends one event to every registered client.
HubDelivers ==
    /\ queue # <<>>
    /\ LET e == Head(queue)
       IN  /\ queue' = Tail(queue)
           /\ view' = [k \in Knob |->
                IF knob[k] # "online" THEN view[k]
                ELSE IF e.kind = "state" THEN e.s ELSE [view[k] EXCEPT !.vol = e.vol]]
           /\ joinRaced' = [k \in Knob |->
                CASE knob[k] = "snapped"                     -> TRUE
                  [] knob[k] = "online" /\ e.kind = "state"  -> FALSE
                  [] OTHER                                   -> joinRaced[k]]
    /\ UNCHANGED <<ampVars, cache, task, knob, budget, historyVars>>

---------------------------------------------------------------------------
Progress(t) ==
    \/ (At(t, "poll") /\ PollStart(t)) \/ GetControlInfo(t) \/ GetCurrentState(t)
    \/ Update(t) \/ SetVolume(t) \/ SetMute(t)
    \/ Snapshot(t) \/ BroadcastState(t) \/ BroadcastVolume(t)
    \/ GetMuteState(t)

TaskStep(t) ==
    \/ PollStart(t) \/ GetControlInfo(t) \/ GetCurrentState(t) \/ RequestFails(t)
    \/ Update(t) \/ SetVolume(t) \/ SetMute(t)
    \/ Snapshot(t) \/ BroadcastState(t) \/ BroadcastVolume(t)
    \/ \E n \in noti : Notified(t, n)
    \/ \E v \in Volume : VolumeCommand(t, v)
    \/ TrackCommand(t)
    \/ MuteCommand(t) \/ ToggleMute(t) \/ GetMuteState(t)

KnobStep(k) == Join(k) \/ TakeSnapshot(k) \/ SendSnapshot(k) \/ Leave(k)

Next ==
    \/ AmpUsed \/ AmpReboots
    \/ \E t \in Task : TaskStep(t)
    \/ \E k \in Knob : KnobStep(k)
    \/ HubDelivers

Safety == Init /\ [][Next]_vars

\* Goroutines run, the ticker ticks, the hub's loop and the handlers of
\* connections go on.  Nothing is assumed of notifications or requests.
Fairness ==
    /\ \A t \in Task : WF_vars(Progress(t))
    /\ WF_vars(PollStart("ticker"))
    /\ WF_vars(HubDelivers)
    /\ \A k \in Knob : WF_vars(TakeSnapshot(k) \/ SendSnapshot(k))

Spec == Safety /\ Fairness

---------------------------------------------------------------------------
(* Properties                                                              *)

\* No event is being prepared and none is queued.
Quiet == queue = <<>> /\ \A t \in Task : task[t].pc \notin Telling

\* cache.go:51-119, handler.go:64-71: what a knob has been told adds up to
\* the cache, across joins, whole states and volume events, unless an event
\* overtook its snapshot or the event of a store overtook that of another.
\* A whole state that nothing overlaps makes up for either.
KnobIsCurrent ==
    \A k \in Knob :
        Quiet /\ knob[k] = "online" /\ ~torn /\ ~joinRaced[k] => view[k] = cache

\* main.go:198-243: stale reads, lost and late notifications and failed
\* requests notwithstanding, polling makes the cache agree with the amplifier
\* once that changes no more.
CacheCatchesUp == <>[](cache = amp)

\* main.go:199-207: notifications resume after the amplifier has restarted.
ReRegisters == <>[]registered

\* handler.go:151-166, main.go:243-246: a knob whose events did not overtake
\* each other ends up showing the amplifier's state.
KnobCatchesUp ==
    \A k \in Knob :
        <>[](knob[k] = "online" /\ ~torn /\ ~joinRaced[k]) => <>[](view[k] = amp)

\* PROJECT_AIMS.md:53: the bridge "caches state, pushes diffs via WS": with
\* nothing left to tell, a connected knob has been told the cached state.
\* The event is broadcast after the cache is unlocked, and the snapshot is
\* queued after the registration: the code does not keep this promise.
KnobShowsCache == \A k \in Knob : Quiet /\ knob[k] = "online" => view[k] = cache

\* DEVELOPMENT.md:223: the mute command "toggles mute".  post sends it a
\* second time on an EOF, even when the amplifier has handled the first.
MuteTogglesOnce == \A t \in Task : task[t].pc = "getMute" => task[t].flips = 1

====
