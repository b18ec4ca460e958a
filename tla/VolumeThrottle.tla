------------------------- MODULE VolumeThrottle -------------------------
(***************************************************************************)
(* How the bridge carries the knob's volume to the amplifier: the throttle *)
(* of handler.go (throttleVolume, flushVolume), the POST with its one      *)
(* retry (client.go: post, SetVolume), and the update of the cache and of  *)
(* the knobs that follows the answer.                                      *)
(*                                                                         *)
(* Time passes in ticks.  The amplifier is external: it applies a request  *)
(* it has received once, at any later moment, even when the bridge has     *)
(* stopped waiting for the answer.  Nobody else changes its volume here;   *)
(* module BridgeSync has the other writers of the cache.                   *)
(***************************************************************************)
EXTENDS Integers, Sequences

CONSTANTS
    Volume,     \* the volumes a knob asks for
    Interval,   \* volumeThrottleInterval, in ticks
    MaxTurns    \* bound of the model: volume commands in a behaviour

ASSUME ThrottleAssumption ==
    /\ Volume \subseteq 0..100
    /\ Interval \in Nat \ {0}
    /\ MaxTurns \in Nat

None == -1      \* volPending = -1: nothing pending

VARIABLES
    pending,    \* Handler.volPending
    volTimer,   \* Handler.volTimer # nil
    timers,     \* armed runtime timers, oldest first: ticks each has to go
    wakes,      \* goroutines of fired timers that have not locked volMu yet
    flushes,    \* flushVolume calls past their critical section
    wire,       \* requests sent and not yet handled by the amplifier
    amp,        \* the amplifier's volume
    cache,      \* Cache.state.Volume
    told,       \* the volume the knobs were last told
    latest,     \* history: number and value of the last volume command
    sent,       \* history: number of the command sent last
    since,      \* history: ticks since the last flush, up to Interval
    overlap,    \* history: a flush began before the previous one was over
    failed      \* history: a flush gave up

throttleVars == <<pending, volTimer, timers, wakes>>
postVars     == <<flushes, wire, sent>>
stateVars    == <<amp, cache, told>>
historyVars  == <<latest, since, overlap, failed>>
vars         == <<throttleVars, postVars, stateVars, historyVars>>

\* A flush carries the number of the command it took, the attempt of post it
\* is in, and its place: waiting for the answer, holding the answer, or
\* holding the event it will broadcast.
Flush   == [n : 1..MaxTurns, vol : Volume, attempt : 0..1,
            at : {"wait", "answered", "changed"}]
Request == [n : 1..MaxTurns, vol : Volume, attempt : 0..1]

TypeOK ==
    /\ pending \in Volume \cup {None}
    /\ volTimer \in BOOLEAN
    /\ timers \in Seq(0..Interval)
    /\ wakes \in Nat
    /\ flushes \in SUBSET Flush
    /\ wire \in SUBSET Request
    /\ amp \in Volume /\ cache \in Volume /\ told \in Volume
    /\ latest \in [n : 0..MaxTurns, vol : Volume \cup {None}]
    /\ sent \in 0..MaxTurns
    /\ since \in 0..Interval
    /\ overlap \in BOOLEAN /\ failed \in BOOLEAN

\* The first poll has run: cache and knobs agree with the amplifier.
Init ==
    /\ pending = None
    /\ volTimer = FALSE
    /\ timers = <<>>
    /\ wakes = 0
    /\ flushes = {}
    /\ wire = {}
    /\ amp \in Volume
    /\ cache = amp
    /\ told = amp
    /\ latest = [n |-> 0, vol |-> None]
    /\ sent = 0
    /\ since = Interval
    /\ overlap = FALSE
    /\ failed = FALSE

---------------------------------------------------------------------------
(* The throttle                                                            *)

\* A volume command arrives.  `stored` is what throttleVolume leaves pending
\* and `arms` whether it starts a timer.
Command(v, stored, arms) ==
    /\ latest.n < MaxTurns
    /\ latest' = [n |-> latest.n + 1, vol |-> v]
    /\ pending' = stored
    /\ volTimer' = (volTimer \/ arms)
    /\ timers' = IF arms THEN Append(timers, Interval) ELSE timers
    /\ UNCHANGED <<wakes, postVars, stateVars, since, overlap, failed>>

\* (defect) the first volume of a burst wins
TurnKeepsFirst(v) == Command(v, IF volTimer THEN pending ELSE v, ~volTimer)

\* (defect) every command starts a timer
TurnAlwaysArms(v) == Command(v, v, TRUE)

\* (defect) a relative step, not checked against the range
TurnUnchecked(v) == Command(v, v + 1, ~volTimer)

\* throttleVolume, under volMu
Turn(v) == Command(v, v, ~volTimer)

Tick ==
    /\ timers' = [i \in DOMAIN timers |-> IF timers[i] = 0 THEN 0 ELSE timers[i] - 1]
    /\ since' = IF since = Interval THEN since ELSE since + 1
    /\ UNCHANGED <<pending, volTimer, wakes, postVars, stateVars, latest, overlap, failed>>

\* The runtime runs flushVolume in a goroutine of its own, never early.
Fire ==
    /\ timers # <<>> /\ Head(timers) = 0
    /\ timers' = Tail(timers)
    /\ wakes' = wakes + 1
    /\ UNCHANGED <<pending, volTimer, postVars, stateVars, historyVars>>

Copy(f) == [n |-> f.n, vol |-> f.vol, attempt |-> f.attempt]

\* The critical section of flushVolume, and the request it then posts.  How
\* long the goroutine takes to post it makes no difference: the amplifier may
\* handle it at any time.
TakePending(timerAfter) ==
    LET f == [n |-> latest.n, vol |-> pending, attempt |-> 0, at |-> "wait"]
    IN  /\ wakes > 0
        /\ wakes' = wakes - 1
        /\ pending' = None
        /\ volTimer' = timerAfter
        /\ IF pending = None
           THEN UNCHANGED <<flushes, wire, sent, since, overlap>>
           ELSE /\ flushes' = flushes \cup {f}
                /\ wire' = wire \cup {Copy(f)}
                /\ sent' = f.n
                /\ since' = 0
                /\ overlap' = (overlap \/ flushes # {} \/ wire # {})
        /\ UNCHANGED <<timers, stateVars, latest, failed>>

\* (defect) the handle of the fired timer is not reset
TakeKeepsTimer == TakePending(volTimer)

Take == TakePending(FALSE)

---------------------------------------------------------------------------
(* The request: rs520.Client.SetVolume over post                           *)

Replace(f, g) == flushes' = (flushes \ {f}) \cup {g}

AmpHandles(r) ==
    /\ amp' = r.vol
    /\ wire' = wire \ {r}
    /\ UNCHANGED <<throttleVars, flushes, sent, cache, told, historyVars>>

\* A 2xx answer.  Its body is empty or unreadable, and SetVolume returns the
\* volume it asked for, or it holds the volume the amplifier has now.
Answer(f) ==
    /\ f.at = "wait" /\ Copy(f) \notin wire
    /\ \E v \in {f.vol, amp} : Replace(f, [f EXCEPT !.at = "answered", !.vol = v])
    /\ UNCHANGED <<throttleVars, wire, sent, stateVars, historyVars>>

\* The connection ends with an EOF.  The request is lost, or the amplifier
\* has it all the same; post sends a second one at once, and only once.
Eof(f) ==
    LET again == [f EXCEPT !.attempt = 1]
    IN  /\ f.at = "wait" /\ f.attempt = 0
        /\ \E left \in {wire, wire \ {Copy(f)}} : wire' = left \cup {Copy(again)}
        /\ Replace(f, again)
        /\ sent' = f.n
        /\ UNCHANGED <<throttleVars, stateVars, historyVars>>

\* A timeout, an error status, or a second EOF: flushVolume returns.
GiveUp(f) ==
    /\ f.at = "wait"
    /\ wire' \in {wire, wire \ {Copy(f)}}
    /\ flushes' = flushes \ {f}
    /\ failed' = TRUE
    /\ UNCHANGED <<throttleVars, sent, stateVars, latest, since, overlap>>

---------------------------------------------------------------------------
(* The rest of flushVolume                                                 *)

\* (defect) the change is computed after the assignment: there is none
StoreSilently(f) ==
    /\ f.at = "answered"
    /\ cache' = f.vol
    /\ flushes' = flushes \ {f}
    /\ UNCHANGED <<throttleVars, wire, sent, amp, told, historyVars>>

\* Cache.SetVolume, under the lock of the cache
Store(f) ==
    /\ f.at = "answered"
    /\ cache' = f.vol
    /\ IF cache = f.vol THEN flushes' = flushes \ {f}
                        ELSE Replace(f, [f EXCEPT !.at = "changed"])
    /\ UNCHANGED <<throttleVars, wire, sent, amp, told, historyVars>>

\* hub.Broadcast(NewVolumeEvent(...)), after the lock is released
Tell(f) ==
    /\ f.at = "changed"
    /\ told' = f.vol
    /\ flushes' = flushes \ {f}
    /\ UNCHANGED <<throttleVars, wire, sent, amp, cache, historyVars>>

---------------------------------------------------------------------------
FlushStep(f) == Answer(f) \/ Eof(f) \/ GiveUp(f) \/ Store(f) \/ Tell(f)

Next ==
    \/ \E v \in Volume : Turn(v)
    \/ Tick
    \/ Fire
    \/ Take
    \/ \E f \in flushes : FlushStep(f)
    \/ \E r \in wire : AmpHandles(r)

Safety == Init /\ [][Next]_vars

\* Time passes, the runtime fires due timers and runs their goroutines.
Fairness == WF_vars(Tick) /\ WF_vars(Fire) /\ WF_vars(Take)

Spec == Safety /\ Fairness

---------------------------------------------------------------------------
(* Properties                                                              *)

\* handler.go:184-201: a pending volume always has exactly one timer or
\* fired goroutine that will take it, the handle says so, and no timer is
\* left over.  So no volume is stranded, none is flushed twice, and the test
\* `vol < 0` of flushVolume never holds.
TimerMatchesPending ==
    /\ volTimer <=> pending # None
    /\ Len(timers) + wakes = IF volTimer THEN 1 ELSE 0

\* handler.go:182-183: "at most once per volumeThrottleInterval": a flush
\* never takes its volume less than Interval after the one before it.
SpacedTakes == [][volTimer /\ ~volTimer' => since >= Interval]_vars

\* handler.go:196-215: once everything is over, amplifier, cache and knobs
\* hold the last volume asked for, provided every flush ended before the next
\* began and none gave up.  Nothing in the code makes flushes wait for each
\* other: it relies on the round trip being shorter than the interval.
LastTurnWins ==
    pending = None /\ flushes = {} /\ wire = {} /\ latest.n > 0 /\ ~overlap /\ ~failed
        => amp = latest.vol /\ cache = latest.vol /\ told = latest.vol

\* handler.go:190-193: a volume asked for is flushed, however many follow.
PendingIsTaken == pending # None ~> pending = None

\* handler.go:182-201: the throttle implements a coalescer: what goes out is
\* the latest value at that moment, intervals apart, and nothing else takes a
\* value away, with a timer that fires late and a goroutine that is slow.
C == INSTANCE Coalescer WITH
    Value <- Volume, waiting <- pending, last <- latest.vol, count <- latest.n
ImplementsCoalescer == C!Spec

\* handler.go:182-183: "Only the latest value is sent to the RS520": no
\* volume is sent after a later one was.  The retry of post breaks it.
OnlyLatestSent == [][sent' >= sent]_vars

====
