-------------------------- MODULE BridgeSyncProofs --------------------------
(***************************************************************************)
(* What a connected knob has been told adds up to the bridge's cache, for  *)
(* any number of goroutines, knobs, volumes, tracks and any queue.         *)
(***************************************************************************)
EXTENDS BridgeSync, SequenceTheorems, TLAPS

\* A task that changed the cache and is going to tell the whole state
TellsWhole == {"changed", "telling"}

NoneTells      == \A t \in Task : task[t].pc \notin Telling
NoneTellsWhole == \A t \in Task : task[t].pc \notin TellsWhole

EventVol(e)   == IF e.kind = "state" THEN e.s.vol ELSE e.vol
LastState(i)  == /\ i \in 1..Len(queue) /\ queue[i].kind = "state"
                 /\ \A j \in (i + 1)..Len(queue) : queue[j].kind # "state"
NoState       == \A i \in 1..Len(queue) : queue[i].kind # "state"
SameRest(s, u) == s.mute = u.mute /\ s.track = u.track

\* A goroutine at rest holds nothing; the second request of a mute command
\* is its last.
TasksInv == \A t \in Task :
    /\ At(t, "idle") => task[t] = Idle
    /\ At(t, "toggle") => task[t].flips <= task[t].attempt

\* A store that overlaps no other tells alone, and what it tells is cached.
\* Unless torn, every store on its way to the knobs is such a store.
AloneInv ==
    /\ \A t \in alone :
         /\ task[t].pc \in Telling
         /\ \A u \in Task : task[u].pc \in Telling => u = t
         /\ At(t, "telling") => task[t].s = cache
         /\ At(t, "tellVolume") => task[t].s.vol = cache.vol
    /\ ~torn => \A t \in Task : task[t].pc \in Telling => t \in alone

\* Unless torn, the newest event in the queue has the cached volume and the
\* newest whole state the rest, or a task is about to tell what is newer.
QueueInv == ~torn =>
    /\ NoneTells /\ queue # <<>> => EventVol(queue[Len(queue)]) = cache.vol
    /\ NoneTellsWhole => \A i \in 1..Len(queue) : LastState(i) => SameRest(queue[i].s, cache)

\* Likewise a knob's view, its snapshot included, once the queue holds
\* nothing that will replace it.
ViewInv == ~torn => \A k \in Knob :
    knob[k] \in {"snapped", "online"} /\ ~joinRaced[k] =>
        /\ NoneTells /\ queue = <<>> => view[k].vol = cache.vol
        /\ NoneTellsWhole /\ NoState => SameRest(view[k], cache)

SyncInv == TypeOK /\ TasksInv /\ AloneInv /\ QueueInv /\ ViewInv

-----------------------------------------------------------------------------
(* Types, and what a goroutine holds *)

Record == [pc : PC, s : State, flips : 0..2, attempt : 0..1]

LEMMA ConstantTypes ==
    /\ Zero \in State /\ Idle \in Record
    /\ [vol : Volume, mute : BOOLEAN, track : Track] \subseteq State
    /\ Bounds \subseteq Budget
    /\ QueueCap \in Nat /\ QueueCap > 0
<1>1. Zero \in State
  <2>1. 0 \in Volume \cup {0} /\ FALSE \in BOOLEAN /\ "" \in Track \cup {""}
    OBVIOUS
  <2>2. QED
    BY <2>1 DEF Zero, State
<1>2. Idle \in Record
  BY <1>1 DEF Idle, Doing, Record, PC
<1>3. [vol : Volume, mute : BOOLEAN, track : Track] \subseteq State
  BY DEF State
<1>4. Bounds \subseteq Budget /\ QueueCap \in Nat \ {0}
  BY SyncAssumption
<1>5. QED
  BY <1>1, <1>2, <1>3, <1>4

LEMMA SpendType ==
    ASSUME TypeOK, NEW what \in {"changes", "reboots", "failures", "joins"}, Spend(what)
    PROVE  budget' \in Budget
BY DEF TypeOK, Spend, Budget

LEMMA AmpBecomesType ==
    ASSUME TypeOK, NEW new \in [vol : Volume, mute : BOOLEAN, track : Track],
           NEW n \in Notification, AmpBecomes(new, n)
    PROVE  /\ amp' \in [vol : Volume, mute : BOOLEAN, track : Track]
           /\ noti' \in SUBSET Notification
           /\ budget' \in Budget
BY SpendType DEF TypeOK, AmpBecomes

\* One goroutine goes on to hold r.
LEMMA TaskBecomes ==
    ASSUME TypeOK, TasksInv, NEW t \in Task, NEW r \in Record,
           r.pc = "idle" => r = Idle, r.pc = "toggle" => r.flips <= r.attempt,
           task' = [task EXCEPT ![t] = r]
    PROVE  task' \in [Task -> Record] /\ TasksInv'
<1>1. task \in [Task -> Record]
  BY DEF TypeOK, Record
<1>2. \A u \in Task : task'[u] = IF u = t THEN r ELSE task[u]
  BY <1>1
<1>3. TasksInv'
  BY <1>2 DEF TasksInv, At
<1>4. QED
  BY <1>1, <1>3

\* It stops, only moves on, or does something else.
LEMMA DoingType ==
    ASSUME TypeOK, TasksInv, NEW t \in Task, NEW pc \in PC, NEW s \in State,
           pc = "idle" => s = Zero, task' = [task EXCEPT ![t] = Doing(pc, s)]
    PROVE  task' \in [Task -> Record] /\ TasksInv'
<1>1. Doing(pc, s) \in Record
  BY DEF Record, Doing
<1>2. Doing(pc, s).pc = pc /\ Doing(pc, s).flips <= Doing(pc, s).attempt
  BY DEF Doing
<1>3. Doing(pc, s).pc = "idle" => Doing(pc, s) = Idle
  BY <1>2 DEF Idle
<1>4. QED
  BY <1>1, <1>2, <1>3, TaskBecomes

LEMMA StopType ==
    ASSUME TypeOK, TasksInv, NEW t \in Task, Stop(t)
    PROVE  task' \in [Task -> Record] /\ TasksInv'
<1>1. "idle" \in PC
  BY DEF PC
<1>2. QED
  BY <1>1, ConstantTypes, DoingType DEF Stop, Idle

LEMMA GotoType ==
    ASSUME TypeOK, TasksInv, NEW t \in Task, NEW pc \in PC, Goto(t, pc),
           pc # "idle", pc = "toggle" => At(t, "idle")
    PROVE  task' \in [Task -> Record] /\ TasksInv'
<1>1. task[t] \in Record
  BY DEF TypeOK, Record
<1>2. PICK r \in Record : r = [task[t] EXCEPT !.pc = pc]
  BY <1>1 DEF Record
<1>3. r.pc = pc /\ r.flips = task[t].flips /\ r.attempt = task[t].attempt
  BY <1>1, <1>2 DEF Record
<1>4. (r.pc = "idle" => r = Idle) /\ (r.pc = "toggle" => r.flips <= r.attempt)
  BY <1>3 DEF TasksInv, At, Idle, Doing
<1>5. task' = [task EXCEPT ![t] = r]
  BY <1>2 DEF Goto
<1>6. QED
  BY <1>4, <1>5, TaskBecomes

\* The steps of ToggleMute: flips counts at most one per attempt.
LEMMA ToggleType ==
    ASSUME TypeOK, TasksInv, NEW t \in Task, ToggleMute(t)
    PROVE  task' \in [Task -> Record] /\ TasksInv'
<1> USE DEF ToggleMute, At
<1>1. /\ task \in [Task -> Record] /\ task[t] \in Record /\ task[t].pc = "toggle"
      /\ task[t].flips <= task[t].attempt
  BY DEF TypeOK, Record, TasksInv
<1>2. CASE task' = [task EXCEPT ![t].pc = "getMute", ![t].flips = @ + 1]
  <2>1. task[t].flips + 1 \in 0..2
    BY <1>1 DEF Record
  <2>2. PICK r \in Record : r = [task[t] EXCEPT !.pc = "getMute", !.flips = @ + 1]
    BY <1>1, <2>1 DEF Record, PC
  <2>3. task' = [task EXCEPT ![t] = r]
    BY <1>1, <1>2, <2>2 DEF Record
  <2>4. r.pc = "getMute"
    BY <1>1, <2>2 DEF Record
  <2>5. QED
    BY <2>3, <2>4, TaskBecomes
<1>3. CASE task[t].attempt = 0 /\ task' = [task EXCEPT ![t].attempt = 1, ![t].flips = @ + 1]
  <2>1. PICK r \in Record : r = [task[t] EXCEPT !.attempt = 1, !.flips = @ + 1]
    BY <1>1, <1>3 DEF Record, PC
  <2>2. task' = [task EXCEPT ![t] = r] /\ r.pc = "toggle" /\ r.flips <= r.attempt
    BY <1>1, <1>3, <2>1 DEF Record
  <2>3. QED
    BY <2>2, TaskBecomes
<1>4. CASE task[t].attempt = 0 /\ task' = [task EXCEPT ![t].attempt = 1]
  <2>1. PICK r \in Record : r = [task[t] EXCEPT !.attempt = 1]
    BY <1>1, <1>4 DEF Record, PC
  <2>2. task' = [task EXCEPT ![t] = r] /\ r.pc = "toggle" /\ r.flips <= r.attempt
    BY <1>1, <1>4, <2>1 DEF Record
  <2>3. QED
    BY <2>2, TaskBecomes
<1>5. QED
  BY <1>2, <1>3, <1>4

\* The amplifier's changes, alone or on a command
LEMMA AmpChangesType ==
    ASSUME TypeOK,
           \/ \E v \in Volume : VolumeBecomes(v)
           \/ MuteFlips
           \/ \E tr \in Track : TrackBecomes(tr)
    PROVE  /\ amp' \in [vol : Volume, mute : BOOLEAN, track : Track]
           /\ noti' \in SUBSET Notification
           /\ budget' \in Budget
<1>1. amp \in [vol : Volume, mute : BOOLEAN, track : Track]
  BY DEF TypeOK
<1>2. CASE \E v \in Volume : VolumeBecomes(v)
  <2>1. PICK v \in Volume : VolumeBecomes(v)
    BY <1>2
  <2>2. [amp EXCEPT !.vol = v] \in [vol : Volume, mute : BOOLEAN, track : Track]
    BY <1>1
  <2>3. [kind |-> "volume", vol |-> v] \in Notification
    BY DEF Notification
  <2>4. QED
    BY <2>1, <2>2, <2>3, AmpBecomesType DEF VolumeBecomes
<1>3. CASE MuteFlips
  <2>1. [amp EXCEPT !.mute = ~@] \in [vol : Volume, mute : BOOLEAN, track : Track]
    BY <1>1
  <2>2. [kind |-> "mute", mute |-> ~amp.mute] \in Notification
    BY DEF Notification
  <2>3. QED
    BY <1>3, <2>1, <2>2, AmpBecomesType DEF MuteFlips
<1>4. CASE \E tr \in Track : TrackBecomes(tr)
  <2>1. PICK tr \in Track : TrackBecomes(tr)
    BY <1>4
  <2>2. [amp EXCEPT !.track = tr] \in [vol : Volume, mute : BOOLEAN, track : Track]
    BY <1>1
  <2>3. [kind |-> "play"] \in Notification
    BY DEF Notification
  <2>4. QED
    BY <2>1, <2>2, <2>3, AmpBecomesType DEF TrackBecomes
<1>5. QED
  BY <1>2, <1>3, <1>4

\* Steps of the amplifier
LEMMA AmpTypes ==
    ASSUME TypeOK, TasksInv, AmpUsed \/ AmpReboots
    PROVE  TypeOK' /\ TasksInv'
<1>1. UNCHANGED <<cache, task, hubVars, historyVars>>
  BY DEF AmpUsed, AmpReboots
<1>2. TasksInv'
  BY <1>1 DEF TasksInv, At
<1>3. CASE AmpUsed
  BY <1>1, <1>2, <1>3, AmpChangesType DEF AmpUsed, TypeOK, hubVars, historyVars
<1>4. CASE AmpReboots
  BY <1>1, <1>2, <1>4, SpendType DEF AmpReboots, TypeOK, hubVars, historyVars
<1>5. QED
  BY <1>3, <1>4

\* A store, and what it leaves the task to tell
LEMMA StoredTypes ==
    ASSUME TypeOK, TasksInv, NEW t \in Task, NEW new \in State, NEW changed \in BOOLEAN,
           NEW next \in {"changed", "tellVolume"}, Stored(t, new, changed, next)
    PROVE  TypeOK' /\ TasksInv'
<1>1. cache' = new /\ UNCHANGED <<ampVars, hubVars, budget>>
  BY DEF Stored
<1>2. task' \in [Task -> Record] /\ TasksInv'
  <2>1. CASE changed
    <3> DEFINE told == IF next = "tellVolume" THEN new.vol ELSE Zero.vol
    <3>1. [Zero EXCEPT !.vol = told] \in State
      BY DEF State, Zero
    <3>2. task' = [task EXCEPT ![t] = Doing(next, [Zero EXCEPT !.vol = told])]
      BY <2>1 DEF Stored
    <3>3. next \in PC /\ next # "idle"
      BY DEF PC
    <3> HIDE DEF told
    <3>4. QED
      BY <3>1, <3>2, <3>3, DoingType
  <2>2. CASE ~changed
    BY <2>2, StopType DEF Stored
  <2>3. QED
    BY <2>1, <2>2
<1>3. torn' \in BOOLEAN /\ alone' \in SUBSET Task
  BY DEF Stored, TypeOK, historyVars
<1>4. QED
  BY <1>1, <1>2, <1>3 DEF TypeOK, Record, ampVars, hubVars

\* An event that a task broadcasts
LEMMA BroadcastTypes ==
    ASSUME TypeOK, TasksInv, NEW t \in Task, NEW e \in Event, Broadcast(t, e),
           torn' \in BOOLEAN, alone' = alone \ {t}, UNCHANGED ampVars
    PROVE  TypeOK' /\ TasksInv'
<1>1. task' \in [Task -> Record] /\ TasksInv'
  BY StopType DEF Broadcast
<1>2. queue' \in Seq(Event) /\ Len(queue') <= QueueCap
  <2>1. queue \in Seq(Event) /\ Len(queue) < QueueCap /\ queue' = Append(queue, e)
    BY DEF TypeOK, Broadcast
  <2>2. QED
    BY <2>1, ConstantTypes, AppendProperties
<1>3. QED
  BY <1>1, <1>2 DEF TypeOK, Record, Broadcast, ampVars

\* The steps of a goroutine
LEMMA TaskTypes ==
    ASSUME TypeOK, TasksInv, NEW t \in Task, TaskStep(t)
    PROVE  TypeOK' /\ TasksInv'
<1>1. task[t] \in Record /\ task[t].s \in State
  BY DEF TypeOK, Record
<1>2. amp.vol \in Volume /\ amp.mute \in BOOLEAN /\ amp.track \in Track
  BY DEF TypeOK
<1>3. ASSUME NEW v \in Volume \cup {0} PROVE [Zero EXCEPT !.vol = v] \in State
  BY DEF Zero, State
<1>4. ASSUME NEW m \in BOOLEAN PROVE [Zero EXCEPT !.mute = m] \in State
  BY DEF Zero, State
<1>5. CASE PollStart(t)
  <2>1. task' \in [Task -> Record] /\ TasksInv'
    BY <1>5, GotoType DEF PollStart, PC
  <2>2. QED
    BY <1>5, <2>1, SpendType DEF PollStart, TypeOK, Record, hubVars, historyVars
<1>6. CASE GetControlInfo(t)
  <2>1. [vol |-> amp.vol, mute |-> amp.mute, track |-> Zero.track] \in State
    BY <1>2 DEF State, Zero
  <2>2. task' \in [Task -> Record] /\ TasksInv'
    BY <1>6, <2>1, DoingType DEF GetControlInfo, PC
  <2>3. QED
    BY <1>6, <2>2 DEF GetControlInfo, TypeOK, Record, ampVars, hubVars, historyVars
<1>7. CASE GetCurrentState(t)
  <2>1. [task[t].s EXCEPT !.track = amp.track] \in State
    BY <1>1, <1>2 DEF State
  <2>2. task' \in [Task -> Record] /\ TasksInv'
    BY <1>7, <2>1, DoingType DEF GetCurrentState, PC
  <2>3. QED
    BY <1>7, <2>2 DEF GetCurrentState, TypeOK, Record, ampVars, hubVars, historyVars
<1>8. CASE RequestFails(t)
  <2>1. task' \in [Task -> Record] /\ TasksInv'
    BY <1>8, StopType DEF RequestFails
  <2>2. QED
    BY <1>8, <2>1, SpendType DEF RequestFails, TypeOK, Record, ampVars, hubVars, historyVars
<1>9. CASE Update(t)
  BY <1>1, <1>9, StoredTypes DEF Update
<1>10. CASE SetVolume(t)
  <2>1. [cache EXCEPT !.vol = task[t].s.vol] \in State
    BY <1>1 DEF TypeOK, State
  <2>2. QED
    BY <1>10, <2>1, StoredTypes DEF SetVolume
<1>11. CASE SetMute(t)
  <2>1. [cache EXCEPT !.mute = task[t].s.mute] \in State
    BY <1>1 DEF TypeOK, State
  <2>2. QED
    BY <1>11, <2>1, StoredTypes DEF SetMute
<1>12. CASE Snapshot(t)
  <2>1. task' \in [Task -> Record] /\ TasksInv'
    BY <1>12, DoingType DEF Snapshot, PC, TypeOK
  <2>2. QED
    BY <1>12, <2>1 DEF Snapshot, TypeOK, Record, ampVars, hubVars, historyVars
<1>13. CASE BroadcastState(t)
  <2>1. [kind |-> "state", s |-> task[t].s] \in Event
    BY <1>1 DEF Event
  <2>2. UNCHANGED ampVars /\ torn' \in BOOLEAN
    BY <1>13 DEF BroadcastState, Broadcast, TypeOK
  <2>3. QED
    BY <1>13, <2>1, <2>2, BroadcastTypes DEF BroadcastState
<1>14. CASE BroadcastVolume(t)
  <2>1. [kind |-> "volume", vol |-> task[t].s.vol] \in Event
    BY <1>1 DEF Event, State
  <2>2. UNCHANGED ampVars /\ torn' \in BOOLEAN
    BY <1>14 DEF BroadcastVolume, Broadcast, TypeOK
  <2>3. QED
    BY <1>14, <2>1, <2>2, BroadcastTypes DEF BroadcastVolume
<1>15. CASE \E n \in noti : Notified(t, n)
  <2>1. PICK n \in noti : Notified(t, n)
    BY <1>15
  <2>2. n \in Notification
    BY DEF TypeOK
  <2>3. task' \in [Task -> Record] /\ TasksInv'
    <3>1. CASE n.kind = "volume"
      <4>1. n.vol \in Volume \cup {0}
        BY <2>2, <3>1 DEF Notification
      <4>2. task' = [task EXCEPT ![t] = Doing("setVolume", [Zero EXCEPT !.vol = n.vol])]
        BY <2>1, <3>1 DEF Notified
      <4>3. QED
        BY <1>3, <4>1, <4>2, DoingType DEF PC
    <3>2. CASE n.kind = "mute"
      <4>1. n.mute \in BOOLEAN
        BY <2>2, <3>2 DEF Notification
      <4>2. task' = [task EXCEPT ![t] = Doing("setMute", [Zero EXCEPT !.mute = n.mute])]
        BY <2>1, <3>2 DEF Notified
      <4>3. QED
        BY <1>4, <4>1, <4>2, DoingType DEF PC
    <3>3. CASE n.kind = "play"
      <4>1. task' = [task EXCEPT ![t] = Doing("poll", Zero)]
        BY <2>1, <3>3 DEF Notified
      <4>2. QED
        BY <4>1, ConstantTypes, DoingType DEF PC
    <3>4. QED
      BY <2>2, <3>1, <3>2, <3>3 DEF Notification
  <2>4. QED
    BY <2>1, <2>3 DEF Notified, TypeOK, Record, hubVars, historyVars
<1>16. CASE \E v \in Volume : VolumeCommand(t, v)
  <2>1. PICK v \in Volume : VolumeCommand(t, v)
    BY <1>16
  <2>2. task' \in [Task -> Record] /\ TasksInv'
    <3>1. [Zero EXCEPT !.vol = v] \in State
      BY <1>3
    <3>2. QED
      BY <2>1, <3>1, DoingType DEF VolumeCommand, PC
  <2>3. QED
    BY <2>1, <2>2, AmpChangesType DEF VolumeCommand, TypeOK, Record, hubVars, historyVars
<1>17. CASE TrackCommand(t)
  <2>1. task' \in [Task -> Record] /\ TasksInv'
    BY <1>17, GotoType DEF TrackCommand, PC
  <2>2. QED
    BY <1>17, <2>1, AmpChangesType DEF TrackCommand, TypeOK, Record, hubVars, historyVars
<1>18. CASE MuteCommand(t)
  <2>1. task' \in [Task -> Record] /\ TasksInv'
    BY <1>18, GotoType DEF MuteCommand, PC
  <2>2. QED
    BY <1>18, <2>1 DEF MuteCommand, TypeOK, Record, ampVars, hubVars, historyVars
<1>19. CASE ToggleMute(t)
  BY <1>19, ToggleType, SpendType, AmpChangesType
     DEF ToggleMute, TypeOK, Record, hubVars, historyVars
<1>20. CASE GetMuteState(t)
  <2>1. task' \in [Task -> Record] /\ TasksInv'
    BY <1>2, <1>4, <1>20, DoingType DEF GetMuteState, PC
  <2>2. QED
    BY <1>20, <2>1 DEF GetMuteState, TypeOK, Record, ampVars, hubVars, historyVars
<1>21. QED
  BY <1>5, <1>6, <1>7, <1>8, <1>9, <1>10, <1>11, <1>12, <1>13, <1>14, <1>15, <1>16, <1>17,
     <1>18, <1>19, <1>20 DEF TaskStep

\* The connections, and the hub that serves them
LEMMA KnobTypes ==
    ASSUME TypeOK, TasksInv, HubDelivers \/ \E k \in Knob : KnobStep(k)
    PROVE  TypeOK' /\ TasksInv'
<1>1. UNCHANGED <<ampVars, cache, task, historyVars>>
  BY DEF HubDelivers, KnobStep, Join, TakeSnapshot, SendSnapshot, Leave
<1>2. TasksInv'
  BY <1>1 DEF TasksInv, At
<1>3. CASE \E k \in Knob : KnobStep(k)
  <2>1. PICK k \in Knob : KnobStep(k)
    BY <1>3
  <2>2. queue' = queue /\ knob' \in [Knob -> {"off", "registered", "snapped", "online"}]
    BY <2>1 DEF KnobStep, Join, TakeSnapshot, SendSnapshot, Leave, TypeOK
  <2>3. view' \in [Knob -> State] /\ joinRaced' \in [Knob -> BOOLEAN]
    <3>1. CASE Join(k) \/ SendSnapshot(k)
      BY <3>1 DEF Join, SendSnapshot, TypeOK
    <3>2. CASE TakeSnapshot(k)
      BY <3>2 DEF TakeSnapshot, TypeOK
    <3>3. CASE Leave(k)
      BY <3>3, ConstantTypes DEF Leave, TypeOK
    <3>4. QED
      BY <2>1, <3>1, <3>2, <3>3 DEF KnobStep
  <2>4. /\ budget' \in Budget
    BY <2>1, SpendType DEF KnobStep, Join, TakeSnapshot, SendSnapshot, Leave, TypeOK
  <2>5. QED
    BY <1>1, <1>2, <2>2, <2>3, <2>4 DEF TypeOK, ampVars, historyVars
<1>4. CASE HubDelivers
  <2>1. queue \in Seq(Event) /\ queue # <<>> /\ Head(queue) \in Event /\ queue' = Tail(queue)
    BY <1>4, HeadTailProperties DEF HubDelivers, TypeOK
  <2>2. queue' \in Seq(Event) /\ Len(queue') <= QueueCap
    BY <2>1, ConstantTypes, HeadTailProperties DEF TypeOK
  <2>3. view' \in [Knob -> State]
    <3> DEFINE e == Head(queue)
               seen(k) == IF knob[k] # "online" THEN view[k]
                          ELSE IF e.kind = "state" THEN e.s ELSE [view[k] EXCEPT !.vol = e.vol]
    <3>1. ASSUME NEW k \in Knob PROVE seen(k) \in State
      <4>1. view[k] \in State
        BY DEF TypeOK
      <4>2. CASE e.kind = "state"
        <5>1. e.s \in State
          BY <2>1, <4>2 DEF Event
        <5>2. QED
          BY <4>1, <4>2, <5>1
      <4>3. CASE e.kind # "state"
        <5>1. e.vol \in Volume \cup {0}
          BY <2>1, <4>3 DEF Event
        <5>2. [view[k] EXCEPT !.vol = e.vol] \in State
          BY <4>1, <5>1 DEF State
        <5>3. QED
          BY <4>1, <4>3, <5>2
      <4>4. QED
        BY <4>2, <4>3
    <3>2. view' = [k \in Knob |-> seen(k)]
      BY <1>4 DEF HubDelivers
    <3> HIDE DEF seen
    <3>3. QED
      BY <3>1, <3>2
  <2>4. joinRaced' \in [Knob -> BOOLEAN]
    BY <1>4 DEF HubDelivers, TypeOK
  <2>5. QED
    BY <1>1, <1>2, <1>4, <2>2, <2>3, <2>4 DEF HubDelivers, TypeOK, ampVars, historyVars
<1>5. QED
  BY <1>3, <1>4

-----------------------------------------------------------------------------
(* Telling alone, and what the queue and the knobs hold *)

\* Nobody that tells comes, goes or changes, nor does anything told.
LEMMA NothingTold ==
    ASSUME TypeOK, AloneInv, QueueInv, ViewInv, NEW t \in Task,
           task' = [task EXCEPT ![t] = task'[t]],
           task[t].pc \notin Telling, task'[t].pc \notin Telling,
           UNCHANGED <<cache, hubVars, historyVars>>
    PROVE  AloneInv' /\ QueueInv' /\ ViewInv'
<1>1. \A u \in Task : u # t => task'[u] = task[u]
  BY DEF TypeOK
<1>2. TellsWhole \subseteq Telling
  BY DEF TellsWhole, Telling
<1>3. (NoneTells' <=> NoneTells) /\ (NoneTellsWhole' <=> NoneTellsWhole)
  BY <1>1, <1>2 DEF NoneTells, NoneTellsWhole
<1>4. AloneInv'
  <2>1. \A u \in alone : u \in Task /\ u # t /\ task'[u] = task[u]
    BY <1>1 DEF AloneInv, TypeOK
  <2>2. \A u \in Task : task'[u].pc \in Telling <=> task[u].pc \in Telling
    BY <1>1
  <2>3. UNCHANGED <<cache, torn, alone>>
    BY DEF historyVars
  <2>4. QED
    BY <2>1, <2>2, <2>3 DEF AloneInv, At
<1>5. QueueInv' /\ ViewInv'
  BY <1>3 DEF QueueInv, ViewInv, hubVars, historyVars, LastState, NoState, EventVol, SameRest
<1>6. QED
  BY <1>4, <1>5

\* A store that changes the cache tells alone, or tears.
LEMMA StoredTold ==
    ASSUME TypeOK, AloneInv, QueueInv, ViewInv, NEW t \in Task, task[t].pc \notin Telling,
           NEW new \in State, NEW next \in {"changed", "tellVolume"},
           next = "tellVolume" => SameRest(new, cache),
           NEW changed \in BOOLEAN, ~changed => new = cache,
           Stored(t, new, changed, next)
    PROVE  AloneInv' /\ QueueInv' /\ ViewInv'
<1>1. CASE ~changed
  <2>1. task' = [task EXCEPT ![t] = Idle] /\ UNCHANGED <<cache, hubVars, historyVars>>
    BY <1>1 DEF Stored, Stop
  <2>2. task'[t] = Idle /\ Idle.pc \notin Telling
    BY <2>1 DEF TypeOK, Idle, Doing, Telling
  <2>3. QED
    BY <2>1, <2>2, NothingTold
<1>2. CASE changed /\ \E u \in Task \ {t} : task[u].pc \in Telling
  BY <1>2 DEF Stored, AloneInv, QueueInv, ViewInv
<1>3. CASE changed /\ \A u \in Task \ {t} : task[u].pc \notin Telling
  <2> DEFINE told == IF next = "tellVolume" THEN new.vol ELSE Zero.vol
             r    == Doing(next, [Zero EXCEPT !.vol = told])
  <2>1. /\ cache' = new /\ task' = [task EXCEPT ![t] = r] /\ torn' = torn /\ alone' = {t}
        /\ UNCHANGED hubVars
    BY <1>3 DEF Stored, TypeOK
  <2>2. /\ r.pc = next /\ (next = "tellVolume" => r.s.vol = new.vol)
    BY DEF Doing, Zero
  <2> HIDE DEF r
  <2>3. task'[t] = r /\ \A u \in Task \ {t} : task'[u] = task[u]
    BY <2>1 DEF TypeOK
  <2>4. NoneTells /\ NoneTellsWhole /\ ~NoneTells'
    BY <1>3, <2>2, <2>3 DEF NoneTells, NoneTellsWhole, Telling, TellsWhole
  <2>5. AloneInv'
    BY <1>3, <2>1, <2>2, <2>3 DEF AloneInv, At, Telling
  <2>6. NoneTellsWhole' => next = "tellVolume" /\ SameRest(new, cache)
    BY <2>2, <2>3 DEF NoneTellsWhole, TellsWhole
  <2>7. QueueInv' /\ ViewInv'
    BY <2>1, <2>4, <2>6 DEF QueueInv, ViewInv, hubVars, LastState, NoState, SameRest
  <2>8. QED
    BY <2>5, <2>7
<1>4. QED
  BY <1>1, <1>2, <1>3

\* The snapshot of a task that stored alone is the cache.
LEMMA SnapshotTold ==
    ASSUME TypeOK, AloneInv, QueueInv, ViewInv, NEW t \in Task, Snapshot(t)
    PROVE  AloneInv' /\ QueueInv' /\ ViewInv'
<1>1. /\ task' = [task EXCEPT ![t] = Doing("telling", cache)] /\ task[t].pc = "changed"
      /\ UNCHANGED <<cache, hubVars, historyVars>>
  BY DEF Snapshot, At
<1>2. /\ task'[t].pc = "telling" /\ task'[t].s = cache
      /\ \A u \in Task \ {t} : task'[u] = task[u]
  BY <1>1 DEF TypeOK, Doing
<1>3. ~NoneTells' /\ ~NoneTellsWhole'
  BY <1>2 DEF NoneTells, NoneTellsWhole, Telling, TellsWhole
<1>4. \A u \in Task : task'[u].pc \in Telling <=> task[u].pc \in Telling
  BY <1>1, <1>2 DEF Telling
<1>5. AloneInv'
  <2>1. UNCHANGED <<cache, torn, alone>> /\ alone \subseteq Task
    BY <1>1 DEF TypeOK, historyVars
  <2>2. QED
    BY <1>2, <1>4, <2>1 DEF AloneInv, At
<1>6. QED
  BY <1>3, <1>5 DEF QueueInv, ViewInv

\* A task that told alone leaves nobody telling; if it did not, all is torn.
LEMMA BroadcastAlone ==
    ASSUME TypeOK, AloneInv, NEW t \in Task, NEW e, Broadcast(t, e),
           task[t].pc \in Telling, alone' = alone \ {t}
    PROVE  /\ alone' = {} /\ (~torn => t \in alone)
           /\ t \in alone => NoneTells'
           /\ \A u \in Task \ {t} : task'[u] = task[u]
           /\ task'[t].pc \notin Telling
<1>1. task' = [task EXCEPT ![t] = Idle]
  BY DEF Broadcast, Stop
<1>2. task'[t] = Idle /\ \A u \in Task \ {t} : task'[u] = task[u]
  BY <1>1 DEF TypeOK
<1>3. task'[t].pc \notin Telling
  BY <1>2 DEF Idle, Doing, Telling
<1>4. QED
  BY <1>2, <1>3 DEF AloneInv, NoneTells, TypeOK

LEMMA BroadcastStateTold ==
    ASSUME TypeOK, AloneInv, QueueInv, ViewInv, NEW t \in Task, BroadcastState(t)
    PROVE  AloneInv' /\ QueueInv' /\ ViewInv'
<1> DEFINE e == [kind |-> "state", s |-> task[t].s]
<1>1. task[t].pc = "telling" /\ Broadcast(t, e) /\ alone' = alone \ {t}
      /\ torn' = (torn /\ t \notin alone)
  BY DEF BroadcastState, At
<1>2. alone' = {} /\ (~torn' => t \in alone /\ NoneTells')
  BY <1>1, BroadcastAlone DEF Telling
<1>3. AloneInv'
  BY <1>2 DEF AloneInv, NoneTells
<1>4. SUFFICES ASSUME ~torn' PROVE QueueInv' /\ ViewInv'
  BY <1>3 DEF QueueInv, ViewInv
<1>5. task[t].s = cache /\ cache' = cache
  BY <1>1, <1>2, <1>4 DEF AloneInv, At, Broadcast
<1>6. queue \in Seq(Event) /\ queue' = Append(queue, e)
  BY <1>1 DEF Broadcast, TypeOK
<1> DEFINE n == Len(queue)
<1>7. n \in Nat /\ Len(queue') = n + 1 /\ queue'[n + 1] = e
  BY <1>6
<1> HIDE DEF n
<1>8. e.kind = "state" /\ e.s = cache
  BY <1>5
<1> HIDE DEF e
<1>9. ~NoState' /\ queue' # <<>>
  BY <1>6, <1>7, <1>8 DEF NoState
<1>10. \A i \in 1..(n + 1) : LastState(i)' => i = n + 1
  BY <1>7, <1>8 DEF LastState
<1>11. QueueInv'
  BY <1>5, <1>7, <1>8, <1>10 DEF QueueInv, EventVol, SameRest
<1>12. QED
  BY <1>9, <1>11 DEF ViewInv

LEMMA BroadcastVolumeTold ==
    ASSUME TypeOK, AloneInv, QueueInv, ViewInv, NEW t \in Task, BroadcastVolume(t)
    PROVE  AloneInv' /\ QueueInv' /\ ViewInv'
<1> DEFINE e == [kind |-> "volume", vol |-> task[t].s.vol]
<1>1. task[t].pc = "tellVolume" /\ Broadcast(t, e) /\ alone' = alone \ {t} /\ torn' = torn
  BY DEF BroadcastVolume, At
<1>2. /\ alone' = {} /\ (~torn => t \in alone /\ NoneTells')
      /\ \A u \in Task \ {t} : task'[u] = task[u]
  BY <1>1, BroadcastAlone DEF Telling
<1>3. AloneInv'
  BY <1>1, <1>2 DEF AloneInv, NoneTells
<1>4. SUFFICES ASSUME ~torn PROVE QueueInv' /\ ViewInv'
  BY <1>1, <1>3 DEF QueueInv, ViewInv
<1>5. task[t].s.vol = cache.vol /\ UNCHANGED <<cache, knob, view, joinRaced>>
  BY <1>1, <1>2, <1>4 DEF AloneInv, At, Broadcast
<1>6. NoneTellsWhole
  BY <1>1, <1>2, <1>4 DEF AloneInv, NoneTellsWhole, Telling, TellsWhole
<1>7. queue \in Seq(Event) /\ queue' = Append(queue, e)
  BY <1>1 DEF Broadcast, TypeOK
<1> DEFINE n == Len(queue)
<1>8. /\ n \in Nat /\ Len(queue') = n + 1 /\ queue'[n + 1] = e
      /\ \A i \in 1..n : queue'[i] = queue[i]
  BY <1>7
<1> HIDE DEF n
<1>9. e.kind = "volume" /\ e.vol = cache.vol
  BY <1>5
<1> HIDE DEF e
<1>10. \A i \in 1..(n + 1) : LastState(i)' => i \in 1..n /\ LastState(i)
  <2>1. SUFFICES ASSUME NEW i \in 1..(n + 1), LastState(i)'
                 PROVE  i \in 1..n /\ LastState(i)
    OBVIOUS
  <2>2. i # n + 1
    BY <1>8, <1>9, <2>1 DEF LastState
  <2>3. QED
    BY <1>8, <2>1, <2>2 DEF LastState, n
<1>11. NoState' => NoState
  BY <1>8 DEF NoState, n
<1>12. QueueInv'
  <2>1. EventVol(queue'[n + 1]) = cache.vol
    BY <1>8, <1>9 DEF EventVol
  <2>2. \A i \in 1..(n + 1) : LastState(i)' => SameRest(queue'[i].s, cache)
    BY <1>4, <1>6, <1>8, <1>10 DEF QueueInv, n
  <2>3. QED
    BY <1>5, <1>8, <2>1, <2>2 DEF QueueInv, SameRest, EventVol
<1>13. ViewInv'
  <2>1. queue' # <<>>
    BY <1>7, <1>8
  <2>2. QED
    BY <1>4, <1>5, <1>6, <1>11, <2>1 DEF ViewInv, SameRest
<1>14. QED
  BY <1>12, <1>13

\* Delivery takes the oldest event; the newest and the newest whole state
\* stay until they are delivered themselves.
LEMMA DeliveryTold ==
    ASSUME TypeOK, AloneInv, QueueInv, ViewInv, HubDelivers
    PROVE  AloneInv' /\ QueueInv' /\ ViewInv'
<1>1. UNCHANGED <<cache, task, knob, torn, alone>>
  BY DEF HubDelivers, historyVars
<1>2. AloneInv' /\ (NoneTells' <=> NoneTells) /\ (NoneTellsWhole' <=> NoneTellsWhole)
  BY <1>1 DEF AloneInv, NoneTells, NoneTellsWhole, At
<1>3. queue \in Seq(Event) /\ queue # <<>> /\ queue' = Tail(queue)
  BY DEF HubDelivers, TypeOK
<1> DEFINE n == Len(queue)
           e == Head(queue)
<1>4. /\ n \in Nat /\ n > 0 /\ Len(queue') = n - 1 /\ e = queue[1]
      /\ \A i \in 1..(n - 1) : queue'[i] = queue[i + 1]
  BY <1>3
<1>5. queue' = <<>> <=> n = 1
  <2>1. queue' \in Seq(Event)
    BY <1>3, HeadTailProperties
  <2>2. queue' = <<>> <=> Len(queue') = 0
    BY <2>1, EmptySeq
  <2>3. QED
    BY <1>4, <2>2
<1>6. /\ view' = [k \in Knob |-> IF knob[k] # "online" THEN view[k]
                                 ELSE IF e.kind = "state" THEN e.s
                                 ELSE [view[k] EXCEPT !.vol = e.vol]]
      /\ joinRaced' = [k \in Knob |-> CASE knob[k] = "snapped" -> TRUE
                                        [] knob[k] = "online" /\ e.kind = "state" -> FALSE
                                        [] OTHER -> joinRaced[k]]
  BY DEF HubDelivers
<1> HIDE DEF n, e
<1>7. SUFFICES ASSUME ~torn PROVE QueueInv' /\ ViewInv'
  BY <1>1, <1>2 DEF QueueInv, ViewInv
<1>8. QueueInv'
  <2>1. ASSUME NoneTells, queue' # <<>> PROVE EventVol(queue'[n - 1]) = cache.vol
    BY <1>3, <1>4, <1>5, <1>7, <2>1 DEF QueueInv, n
  <2>2. ASSUME NoneTellsWhole, NEW i \in 1..(n - 1), LastState(i)'
        PROVE  SameRest(queue'[i].s, cache)
    <3>1. queue'[i] = queue[i + 1] /\ i + 1 \in 1..n
      BY <1>4
    <3>2. queue[i + 1].kind = "state"
      BY <2>2, <3>1 DEF LastState
    <3>3. ASSUME NEW j \in (i + 2)..n PROVE queue[j].kind # "state"
      <4>1. j - 1 \in (i + 1)..(n - 1) /\ j - 1 \in 1..(n - 1) /\ queue'[j - 1] = queue[(j - 1) + 1]
        BY <1>4
      <4>2. (j - 1) + 1 = j
        BY <1>4
      <4>3. QED
        BY <1>4, <2>2, <4>1, <4>2 DEF LastState
    <3>4. LastState(i + 1)
      BY <1>4, <3>1, <3>2, <3>3 DEF LastState, n
    <3>5. QED
      BY <1>7, <2>2, <3>1, <3>4 DEF QueueInv, n
  <2>3. QED
    BY <1>1, <1>2, <1>4, <2>1, <2>2 DEF QueueInv, EventVol, SameRest
<1>9. ViewInv'
  <2>1. SUFFICES ASSUME NEW k \in Knob, knob[k] \in {"snapped", "online"}, ~joinRaced'[k]
                 PROVE  /\ NoneTells /\ queue' = <<>> => view'[k].vol = cache.vol
                        /\ NoneTellsWhole /\ NoState' => SameRest(view'[k], cache)
    BY <1>1, <1>2 DEF ViewInv, SameRest
  <2>2. knob[k] = "online" /\ view[k] \in State
    BY <1>6, <2>1 DEF TypeOK
  <2>3. CASE e.kind = "state"
    <3>1. view'[k] = e.s
      BY <1>6, <2>2, <2>3
    <3>2. ASSUME NoneTells, queue' = <<>> PROVE e.s.vol = cache.vol
      BY <1>3, <1>4, <1>5, <1>7, <2>3, <3>2 DEF QueueInv, EventVol, n
    <3>3. ASSUME NoneTellsWhole, NoState' PROVE SameRest(e.s, cache)
      <4>1. LastState(1)
        <5>1. ASSUME NEW j \in 2..n PROVE queue[j].kind # "state"
          <6>1. j - 1 \in 1..(n - 1) /\ (j - 1) + 1 = j
            BY <1>4
          <6>2. QED
            BY <1>4, <3>3, <6>1 DEF NoState
        <5>2. QED
          BY <1>4, <2>3, <5>1 DEF LastState, n
      <4>2. QED
        BY <1>4, <1>7, <3>3, <4>1 DEF QueueInv, n
    <3>4. QED
      BY <3>1, <3>2, <3>3
  <2>4. CASE e.kind # "state"
    <3>1. view'[k] = [view[k] EXCEPT !.vol = e.vol] /\ joinRaced'[k] = joinRaced[k]
      BY <1>6, <2>2, <2>4
    <3>2. view'[k].vol = e.vol /\ SameRest(view'[k], view[k])
      BY <2>2, <3>1 DEF State, SameRest
    <3>3. ASSUME NoneTells, queue' = <<>> PROVE e.vol = cache.vol
      BY <1>3, <1>4, <1>5, <1>7, <2>4, <3>3 DEF QueueInv, EventVol, n
    <3>4. ASSUME NoneTellsWhole, NoState' PROVE SameRest(view[k], cache)
      <4>1. NoState
        <5>1. ASSUME NEW j \in 2..n PROVE queue[j].kind # "state"
          <6>1. j - 1 \in 1..(n - 1) /\ (j - 1) + 1 = j
            BY <1>4
          <6>2. QED
            BY <1>4, <3>4, <6>1 DEF NoState
        <5>2. QED
          BY <1>4, <2>4, <5>1 DEF NoState, n
      <4>2. QED
        BY <1>7, <2>1, <2>2, <3>1, <3>4, <4>1 DEF ViewInv
    <3>5. QED
      BY <3>2, <3>3, <3>4 DEF SameRest
  <2>5. QED
    BY <2>3, <2>4
<1>10. QED
  BY <1>8, <1>9

\* Connections: a snapshot is the cache, and replaces what was shown.
LEMMA KnobTold ==
    ASSUME TypeOK, AloneInv, QueueInv, ViewInv, NEW k \in Knob, KnobStep(k)
    PROVE  AloneInv' /\ QueueInv' /\ ViewInv'
<1>1. UNCHANGED <<cache, task, queue, torn, alone>>
  BY DEF KnobStep, Join, TakeSnapshot, SendSnapshot, Leave, historyVars
<1>2. /\ AloneInv' /\ QueueInv' /\ (NoneTells' <=> NoneTells)
      /\ (NoneTellsWhole' <=> NoneTellsWhole) /\ (NoState' <=> NoState)
  BY <1>1 DEF AloneInv, QueueInv, NoneTells, NoneTellsWhole, NoState, LastState, EventVol, At, SameRest
<1>3. ASSUME NEW j \in Knob, knob'[j] \in {"snapped", "online"}, ~joinRaced'[j]
      PROVE  \/ view'[j] = cache
             \/ view'[j] = view[j] /\ knob[j] \in {"snapped", "online"} /\ ~joinRaced[j]
  <2>1. CASE Join(k)
    BY <1>3, <2>1 DEF Join, TypeOK
  <2>2. CASE TakeSnapshot(k)
    BY <1>3, <2>2 DEF TakeSnapshot, TypeOK
  <2>3. CASE SendSnapshot(k)
    BY <1>3, <2>3 DEF SendSnapshot, TypeOK
  <2>4. CASE Leave(k)
    BY <1>3, <2>4 DEF Leave, TypeOK
  <2>5. QED
    BY <2>1, <2>2, <2>3, <2>4 DEF KnobStep
<1>4. ViewInv'
  BY <1>1, <1>2, <1>3 DEF ViewInv, SameRest
<1>5. QED
  BY <1>2, <1>4

-----------------------------------------------------------------------------
(* All steps together *)

LEMMA InitSyncInv == Init => SyncInv
<1> SUFFICES ASSUME Init
             PROVE  SyncInv
  OBVIOUS
<1>1. TypeOK
  <2>1. task \in [Task -> Record]
    BY ConstantTypes DEF Init
  <2>2. cache \in State /\ view \in [Knob -> State]
    BY ConstantTypes DEF Init
  <2>3. amp \in [vol : Volume, mute : BOOLEAN, track : Track]
    BY DEF Init
  <2>4. budget \in Budget
    BY ConstantTypes DEF Init
  <2>5. queue \in Seq(Event) /\ Len(queue) <= QueueCap
    BY ConstantTypes DEF Init
  <2>6. QED
    BY <2>1, <2>2, <2>3, <2>4, <2>5 DEF Init, TypeOK, Record
<1>2. \A t \in Task : task[t] = Idle /\ task[t].pc = "idle"
  BY DEF Init, Idle, Doing
<1>3. TasksInv /\ AloneInv
  BY <1>2 DEF Init, TasksInv, AloneInv, At, Telling
<1>4. QueueInv /\ ViewInv
  BY DEF Init, QueueInv, ViewInv, LastState
<1>5. QED
  BY <1>1, <1>3, <1>4 DEF SyncInv

\* A goroutine's step is a store, a snapshot, a broadcast or nothing told.
LEMMA TaskTold ==
    ASSUME TypeOK, AloneInv, QueueInv, ViewInv, NEW t \in Task, TaskStep(t)
    PROVE  AloneInv' /\ QueueInv' /\ ViewInv'
<1>1. task[t] \in Record /\ task[t].s \in State /\ cache \in State
  BY DEF TypeOK, Record
<1>2. CASE Update(t)
  <2>1. task[t].pc \notin Telling
    BY <1>2 DEF Update, At, Telling
  <2>2. QED
    BY <1>1, <1>2, <2>1, StoredTold DEF Update
<1>3. CASE SetVolume(t)
  <2> DEFINE new == [cache EXCEPT !.vol = task[t].s.vol]
  <2>1. new \in State /\ SameRest(new, cache)
    BY <1>1 DEF State, SameRest
  <2>2. cache.vol = task[t].s.vol => new = cache
    BY <1>1 DEF State
  <2>3. task[t].pc \notin Telling
    BY <1>3 DEF SetVolume, At, Telling
  <2>4. Stored(t, new, cache.vol # task[t].s.vol, "tellVolume")
    BY <1>3 DEF SetVolume
  <2> HIDE DEF new
  <2>5. QED
    BY <2>1, <2>2, <2>3, <2>4, StoredTold
<1>4. CASE SetMute(t)
  <2> DEFINE new == [cache EXCEPT !.mute = task[t].s.mute]
  <2>1. new \in State
    BY <1>1 DEF State
  <2>2. cache.mute = task[t].s.mute => new = cache
    BY <1>1 DEF State
  <2>3. task[t].pc \notin Telling
    BY <1>4 DEF SetMute, At, Telling
  <2>4. Stored(t, new, cache.mute # task[t].s.mute, "changed")
    BY <1>4 DEF SetMute
  <2> HIDE DEF new
  <2>5. QED
    BY <2>1, <2>2, <2>3, <2>4, StoredTold
<1>5. CASE Snapshot(t) \/ BroadcastState(t) \/ BroadcastVolume(t)
  BY <1>5, SnapshotTold, BroadcastStateTold, BroadcastVolumeTold
<1>6. CASE \/ PollStart(t) \/ GetControlInfo(t) \/ GetCurrentState(t) \/ RequestFails(t)
           \/ (\E n \in noti : Notified(t, n)) \/ (\E v \in Volume : VolumeCommand(t, v))
           \/ TrackCommand(t) \/ MuteCommand(t) \/ ToggleMute(t) \/ GetMuteState(t)
  <2>1. UNCHANGED <<cache, hubVars, historyVars>> /\ task[t].pc \notin Telling
    BY <1>6 DEF PollStart, GetControlInfo, GetCurrentState, RequestFails, Notified,
                VolumeCommand, TrackCommand, MuteCommand, ToggleMute, GetMuteState, At, Telling
  <2>2. task' = [task EXCEPT ![t] = task'[t]] /\ task'[t].pc \notin Telling
    <3>1. CASE PollStart(t) \/ TrackCommand(t) \/ MuteCommand(t)
      BY <1>1, <3>1 DEF PollStart, TrackCommand, MuteCommand, Goto, Telling, TypeOK, Record
    <3>2. CASE GetControlInfo(t) \/ GetCurrentState(t) \/ GetMuteState(t)
      BY <3>2 DEF GetControlInfo, GetCurrentState, GetMuteState, Doing, Telling, TypeOK
    <3>3. CASE RequestFails(t)
      BY <3>3 DEF RequestFails, Stop, Idle, Doing, Telling, TypeOK
    <3>4. CASE \E n \in noti : Notified(t, n)
      <4>1. PICK n \in noti : Notified(t, n)
        BY <3>4
      <4>2. PICK pc \in {"setVolume", "setMute", "poll"}, s \in State :
                task' = [task EXCEPT ![t] = Doing(pc, s)]
        <5>1. n \in Notification
          BY DEF TypeOK
        <5>2. Zero \in State
          BY ConstantTypes
        <5>3. CASE n.kind = "volume"
          <6>1. [Zero EXCEPT !.vol = n.vol] \in State
            BY <5>1, <5>2, <5>3 DEF Notification, State
          <6>2. QED
            BY <4>1, <5>3, <6>1 DEF Notified
        <5>4. CASE n.kind = "mute"
          <6>1. [Zero EXCEPT !.mute = n.mute] \in State
            BY <5>1, <5>2, <5>4 DEF Notification, State
          <6>2. QED
            BY <4>1, <5>4, <6>1 DEF Notified
        <5>5. CASE n.kind = "play"
          BY <4>1, <5>2, <5>5 DEF Notified
        <5>6. QED
          BY <5>1, <5>3, <5>4, <5>5 DEF Notification
      <4>3. task'[t] = Doing(pc, s)
        BY <4>2 DEF TypeOK
      <4>4. task'[t].pc = pc
        BY <4>3 DEF Doing
      <4>5. task' = [task EXCEPT ![t] = task'[t]]
        BY <4>2, <4>3
      <4>6. QED
        BY <4>4, <4>5 DEF Telling
    <3>5. CASE \E v \in Volume : VolumeCommand(t, v)
      BY <3>5 DEF VolumeCommand, Doing, Telling, TypeOK
    <3>6. CASE ToggleMute(t)
      BY <1>1, <3>6 DEF ToggleMute, At, Telling, TypeOK, Record
    <3>7. QED
      BY <1>6, <3>1, <3>2, <3>3, <3>4, <3>5, <3>6
  <2>3. QED
    BY <2>1, <2>2, NothingTold
<1>7. QED
  BY <1>2, <1>3, <1>4, <1>5, <1>6 DEF TaskStep

LEMMA StepSyncInv == SyncInv /\ [Next]_vars => SyncInv'
<1> SUFFICES ASSUME SyncInv, [Next]_vars
             PROVE  SyncInv'
  OBVIOUS
<1> USE DEF SyncInv
<1>1. CASE AmpUsed \/ AmpReboots
  <2>1. UNCHANGED <<cache, task, queue, knob, view, joinRaced, torn, alone>>
    BY <1>1 DEF AmpUsed, AmpReboots, hubVars, historyVars
  <2>2. AloneInv' /\ QueueInv' /\ ViewInv'
    BY <2>1 DEF AloneInv, QueueInv, ViewInv, NoneTells, NoneTellsWhole, NoState, LastState,
                EventVol, At, SameRest
  <2>3. QED
    BY <1>1, <2>2, AmpTypes
<1>2. CASE \E t \in Task : TaskStep(t)
  BY <1>2, TaskTypes, TaskTold
<1>3. CASE \E k \in Knob : KnobStep(k)
  BY <1>3, KnobTypes, KnobTold
<1>4. CASE HubDelivers
  BY <1>4, KnobTypes, DeliveryTold
<1>5. CASE UNCHANGED vars
  BY <1>5 DEF vars, ampVars, hubVars, historyVars, TypeOK, TasksInv, AloneInv, QueueInv, ViewInv,
              NoneTells, NoneTellsWhole, NoState, LastState, EventVol, At, SameRest
<1>6. QED
  BY <1>1, <1>2, <1>3, <1>4, <1>5 DEF Next

\* Every step of the bridge, the amplifier and the connections keeps the
\* invariant.
THEOREM SyncInvariant == Safety => []SyncInv
<1>1. SyncInv /\ [Next]_vars => SyncInv'
  BY StepSyncInv
<1>2. QED
  BY <1>1, InitSyncInv, PTL DEF Safety

\* cache.go, main.go, handler.go: amplifier, cache, goroutines and queue hold
\* only values of their kind, and the queue never exceeds its capacity.
THEOREM SyncTypeOK == Safety => []TypeOK
BY SyncInvariant, PTL DEF SyncInv

\* cache.go:51-119, handler.go:64-71: what a connected knob has been told adds
\* up to the cache, unless an event overtook its snapshot or another's event.
THEOREM ConnectedKnobIsCurrent == Safety => []KnobIsCurrent
<1>1. SyncInv => KnobIsCurrent
  <2> SUFFICES ASSUME SyncInv, NEW k \in Knob,
                      Quiet, knob[k] = "online", ~torn, ~joinRaced[k]
               PROVE  view[k] = cache
    BY DEF KnobIsCurrent
  <2>1. NoneTells /\ NoneTellsWhole /\ queue = <<>> /\ NoState
    BY DEF Quiet, NoneTells, NoneTellsWhole, NoState, Telling, TellsWhole
  <2>2. view[k].vol = cache.vol /\ SameRest(view[k], cache)
    BY <2>1 DEF SyncInv, ViewInv
  <2>3. view[k] \in State /\ cache \in State
    BY DEF SyncInv, TypeOK
  <2>4. ASSUME NEW s \in State, NEW u \in State, s.vol = u.vol, SameRest(s, u) PROVE s = u
    <3>1. /\ s = [vol |-> s.vol, mute |-> s.mute, track |-> s.track]
          /\ u = [vol |-> u.vol, mute |-> u.mute, track |-> u.track]
      BY DEF State
    <3>2. QED
      BY <2>4, <3>1 DEF SameRest
  <2>5. QED
    BY <2>2, <2>3, <2>4
<1>2. QED
  BY <1>1, SyncInvariant, PTL
=============================================================================
