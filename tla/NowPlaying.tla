----------------------------- MODULE NowPlaying -----------------------------
(***************************************************************************)
(* What the knob shows of what it is told: the calls that state and        *)
(* position events leave for LVGL's own thread, the queue and the task     *)
(* that fetch an announced picture with an ETag, and the proxy on the      *)
(* bridge with its LRU cache, used by another viewer too.                  *)
(*                                                                         *)
(* Nothing is assumed of the bridge: it may send any event at any time,    *)
(* over any number of connections, so that every order in which poll,      *)
(* notifications and snapshot can race is among those looked at here. What *)
(* it sends, and when that is not its cache's state, is BridgeSync's       *)
(* subject. A picture is identified with its key, as the proxy does.       *)
(***************************************************************************)
EXTENDS Integers, Sequences, SequencesExt

CONSTANTS
    Tracks,      \* what a state event may tell, silence included
    Silence,     \* the track with no title
    Keys,        \* artwork keys
    None,        \* no key, no picture
    Positions,   \* <<position, duration>> pairs that a poll may report
    maxSize,     \* capacity of the proxy's cache (5 in NewProxy)
    MaxEvents,   \* bound on the events that are handled
    MaxTroubles  \* bound on the fetches that fail

ASSUME SizeAssumption == maxSize \in Nat \ {0} /\ MaxEvents \in Nat /\ MaxTroubles \in Nat
ASSUME TrackAssumption ==
    /\ Silence \in Tracks /\ None \notin Keys
    /\ Positions \subseteq Int \X Int

VARIABLES
    told,      \* history: the track and the artwork told last
    handled,   \* number of events so far
    troubles,  \* number of troubles so far
    entries,   \* the proxy's cache, most recently used first
    uses,      \* ghost: keys put in or found in the cache, last first
    calls,     \* lv_async_call: work waiting for LVGL's thread
    screen,    \* title, container and progress bar
    queue,     \* s_art_queue, of length one
    request,   \* of each viewer: the artwork request it is waiting for
    etag,      \* s_last_etag: the key it stands for
    picture,   \* the picture shown: its key
    missed     \* ghost: keys whose last transfer to the knob failed

toldVars == <<told, handled>>
proxyVars == <<entries, uses>>
screenVars == <<calls, screen, queue>>
knobVars == <<etag, picture, missed>>
vars == <<toldVars, troubles, proxyVars, screenVars, knobVars, request>>

Viewers == {"knob", "other"}
Idle == [at |-> "idle"]
Hidden == -1
StateEvent(t, p) == [evt |-> "state", track |-> t, pos |-> p]
PositionEvent(p) == [evt |-> "position", pos |-> p]
Events == {StateEvent(t, p) : t \in Tracks, p \in Positions} \cup {PositionEvent(p) : p \in Positions}

Trouble == troubles < MaxTroubles /\ troubles' = troubles + 1

Init ==
    /\ told = [track |-> Silence, art |-> None] /\ handled = 0 /\ troubles = 0
    /\ entries = <<>> /\ uses = <<>>
    /\ calls = <<>> /\ queue = <<>>
    /\ screen = [title |-> Silence, container |-> FALSE, bar |-> Hidden]
    /\ request = [v \in Viewers |-> Idle]
    /\ etag = None /\ picture = None /\ missed = {}

-----------------------------------------------------------------------------
(* handle_ws_data on the client's task, and what LVGL's thread does later *)

\* A plausible mistake: xQueueSend, that fails when the queue is full.
QueuedIfEmpty(k) == IF queue = <<>> THEN <<k>> ELSE queue

\* xQueueOverwrite of the artwork's key
Queued(k) == <<k>>

Event == handled < MaxEvents /\ handled' = handled + 1

HandleStatus(e) ==
    /\ Event
    /\ calls' = Append(calls, e)
    /\ told' = IF e.evt = "state" THEN [told EXCEPT !.track = e.track] ELSE told
    /\ UNCHANGED <<troubles, proxyVars, screen, queue, knobVars, request>>

HandleArtwork(k) ==
    /\ Event
    /\ queue' = Queued(k)
    /\ told' = [told EXCEPT !.art = k]
    /\ UNCHANGED <<troubles, proxyVars, calls, screen, knobVars, request>>

\* A plausible mistake: positions outside of the duration.
PermilleUnclamped(pos, dur) == (pos * 1000) \div dur

Permille(pos, dur) ==
    LET p == (pos * 1000) \div dur
    IN  IF p > 1000 THEN 1000 ELSE IF p < 0 THEN 0 ELSE p

\* metadata_ui_set_position
Bar(pos, dur) == IF dur > 0 THEN Permille(pos, dur) ELSE Hidden

\* metadata_ui_set_track: the container, once shown, stays.
SetTrack(t, bar) ==
    [title |-> t, container |-> screen.container \/ t # Silence, bar |-> bar]

RunCall ==
    /\ calls # <<>> /\ calls' = Tail(calls)
    /\ LET c   == Head(calls)
           bar == Bar(c.pos[1], c.pos[2])
       IN  screen' = IF c.evt = "state" THEN SetTrack(c.track, bar) ELSE [screen EXCEPT !.bar = bar]
    /\ UNCHANGED <<toldVars, troubles, proxyVars, queue, knobVars, request>>

-----------------------------------------------------------------------------
(* The proxy: ETag first, then the cache, then the amplifier *)

FirstN(s, n) == SubSeq(s, 1, IF Len(s) < n THEN Len(s) ELSE n)

\* The first entry with the key is taken out, if there is one.
PlaceOf(s, k) == CHOOSE i \in 1..Len(s) : s[i] = k /\ \A j \in 1..(i - 1) : s[j] # k
Without(s, k) == IF Contains(s, k) THEN RemoveAt(s, PlaceOf(s, k)) ELSE s
ToFront(s, k) == <<k>> \o Without(s, k)

\* A plausible mistake: a key that a concurrent request has put is put twice.
PutTwice(k) == FirstN(<<k>> \o entries, maxSize)

Put(k) == FirstN(ToFront(entries, k), maxSize)

Use(k) == uses' = ToFront(uses, k)
Goto(v, a, k) == request' = [request EXCEPT ![v] = [at |-> a, key |-> k]]
Leave(v) == request' = [request EXCEPT ![v] = Idle]

\* artwork_fetch_task receives, drains the queue and opens the connection.
StartFetch ==
    /\ request["knob"] = Idle /\ queue # <<>>
    /\ queue' = <<>>
    /\ Goto("knob", "asked", Head(queue))
    /\ UNCHANGED <<toldVars, troubles, proxyVars, calls, screen, knobVars>>

OtherAsks(k) ==
    /\ request["other"] = Idle
    /\ Goto("other", "asked", k)
    /\ UNCHANGED <<toldVars, troubles, proxyVars, screenVars, knobVars>>

\* If-None-Match, which only the knob sends
Matches(v) == v = "knob" /\ request[v].key = etag

NotModified(v) ==
    /\ request[v].at = "asked" /\ Matches(v)
    /\ Leave(v)
    /\ UNCHANGED <<toldVars, troubles, proxyVars, screenVars, knobVars>>

Get(v) ==
    LET k == request[v].key IN
    /\ request[v].at = "asked" /\ ~Matches(v)
    /\ \/ /\ Contains(entries, k)
          /\ entries' = ToFront(entries, k) /\ Use(k)
          /\ Goto(v, "sent", k)
       \/ /\ ~Contains(entries, k)
          /\ Goto(v, "fetching", k)
          /\ UNCHANGED proxyVars
    /\ UNCHANGED <<toldVars, troubles, screenVars, knobVars>>

\* The picture came, was decoded, scaled and encoded; another request may
\* have put the same key in the meantime.
PutAndSend(v) ==
    LET k == request[v].key IN
    /\ request[v].at = "fetching"
    /\ entries' = Put(k) /\ Use(k)
    /\ Goto(v, "sent", k)
    /\ UNCHANGED <<toldVars, troubles, screenVars, knobVars>>

OtherDone ==
    /\ request["other"].at = "sent" /\ Leave("other")
    /\ UNCHANGED <<toldVars, troubles, proxyVars, screenVars, knobVars>>

-----------------------------------------------------------------------------
(* The rest of artwork_fetch_task *)

\* esp_http_client_get_header: it may find the ETag of the answer or not.
SaveEtag == etag' \in {request["knob"].key, None}

\* No connection, another status or another length: nothing is kept.
FetchFails ==
    /\ request["knob"].at \in {"asked", "fetching", "sent"} /\ Trouble
    /\ Leave("knob") /\ missed' = missed \cup {request["knob"].key}
    /\ UNCHANGED <<toldVars, proxyVars, screenVars, etag, picture>>

\* The ETag is kept before the length that was read is looked at.
ReadBreaks ==
    /\ request["knob"].at = "sent" /\ Trouble
    /\ SaveEtag
    /\ Leave("knob") /\ missed' = missed \cup {request["knob"].key}
    /\ UNCHANGED <<toldVars, proxyVars, screenVars, picture>>

ShowPicture ==
    /\ request["knob"].at = "sent"
    /\ SaveEtag
    /\ picture' = request["knob"].key
    /\ Leave("knob") /\ missed' = missed \ {request["knob"].key}
    /\ UNCHANGED <<toldVars, troubles, proxyVars, screenVars>>

Next ==
    \/ \E e \in Events : HandleStatus(e)
    \/ \E k \in Keys : HandleArtwork(k) \/ OtherAsks(k)
    \/ RunCall \/ StartFetch \/ OtherDone
    \/ \E v \in Viewers : NotModified(v) \/ Get(v) \/ PutAndSend(v)
    \/ FetchFails \/ ReadBreaks \/ ShowPicture

Spec == Init /\ [][Next]_vars

-----------------------------------------------------------------------------
(* Properties *)

\* Type invariant. The bar stays within its range of 0 to 1000 whatever
\* position and duration the bridge sends, the cache within its capacity.
TypeOK ==
    /\ told \in [track : Tracks, art : Keys \cup {None}]
    /\ handled \in 0..MaxEvents /\ troubles \in 0..MaxTroubles
    /\ entries \in Seq(Keys) /\ uses \in Seq(Keys) /\ Len(entries) <= maxSize
    /\ calls \in Seq(Events)
    /\ screen \in [title : Tracks, container : BOOLEAN, bar : -1..1000]
    /\ queue \in Seq(Keys) /\ Len(queue) <= 1
    /\ request \in [Viewers -> [at : {"asked", "fetching", "sent"}, key : Keys] \cup {Idle}]
    /\ etag \in Keys \cup {None} /\ picture \in Keys \cup {None} /\ missed \subseteq Keys

Rest == calls = <<>> /\ queue = <<>> /\ request["knob"] = Idle

\* Once the knob has done what it was told to, it shows the track of the last
\* state event and the picture of the last artwork event, unless that one's
\* last transfer failed: over a queue that keeps only the newest artwork, a
\* fetch that is under way when another is announced, an ETag that suppresses
\* pictures already shown and a cache shared with another viewer.
ScreenShowsTold == Rest =>
    /\ screen.title = told.track
    /\ told.track # Silence => screen.container
    /\ told.art \notin missed \cup {None} => picture = told.art

\* The proxy's cache holds the pictures of the maxSize keys used last, in
\* that order and each once, with two requests at work on it.
CacheIsRecent == entries = FirstN(uses, maxSize)
=============================================================================
