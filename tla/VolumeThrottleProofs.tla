---------------------- MODULE VolumeThrottleProofs ----------------------
(***************************************************************************)
(* For any set of volumes, any throttle interval and any number of         *)
(* commands: the timer discipline of throttleVolume and flushVolume; and,  *)
(* when flushes do not overlap and none gives up, the last volume asked    *)
(* for ends up on the amplifier, in the cache and on the knobs.            *)
(***************************************************************************)
EXTENDS VolumeThrottle, SequenceTheorems, TLAPS

\* What is pending belongs to some command, and a timer that has less than
\* Interval to go was preceded by a flush at least as long ago.
Spacing ==
    /\ pending # None => latest.n > 0
    /\ Len(timers) = 1 => since + timers[1] >= Interval
    /\ wakes > 0 => since = Interval

\* What waits for the timer is the last volume asked for.
PendingIsLatest == pending # None => pending = latest.vol

ThrottleInv == TypeOK /\ TimerMatchesPending /\ PendingIsLatest /\ Spacing

LEMMA NoneIsNoVolume == None \notin Volume
BY ThrottleAssumption DEF None

LEMMA InitThrottleInv == Init => ThrottleInv
<1> SUFFICES ASSUME Init
             PROVE  ThrottleInv
  OBVIOUS
<1>1. TypeOK
  <2>1. timers \in Seq(0..Interval)
    BY DEF Init
  <2>2. flushes \in SUBSET Flush /\ wire \in SUBSET Request
    BY DEF Init
  <2>3. since \in 0..Interval
    BY ThrottleAssumption DEF Init
  <2>4. latest \in [n : 0..MaxTurns, vol : Volume \cup {None}]
    BY ThrottleAssumption DEF Init
  <2>5. QED
    BY <2>1, <2>2, <2>3, <2>4, ThrottleAssumption DEF Init, TypeOK
<1>2. TimerMatchesPending /\ PendingIsLatest /\ Spacing
  BY DEF Init, TimerMatchesPending, PendingIsLatest, Spacing
<1>3. QED
  BY <1>1, <1>2 DEF ThrottleInv

\* A volume command arms a timer exactly when none is running.
LEMMA TurnStep ==
    ASSUME ThrottleInv, NEW v \in Volume, Turn(v)
    PROVE  ThrottleInv'
<1> USE DEF ThrottleInv
<1>1. /\ pending' = v
      /\ volTimer' = TRUE
      /\ latest' = [n |-> latest.n + 1, vol |-> v]
      /\ latest.n < MaxTurns
      /\ UNCHANGED <<wakes, flushes, wire, sent, amp, cache, told, since, overlap, failed>>
  BY DEF Turn, Command, postVars, stateVars
<1>2. v # None
  BY NoneIsNoVolume
<1>3. /\ timers' \in Seq(0..Interval)
      /\ Len(timers') + wakes' = 1
      /\ Len(timers') = 1 => since + timers'[1] >= Interval
      /\ wakes' > 0 => since = Interval
  <2> USE DEF Turn, Command, TypeOK, TimerMatchesPending, Spacing
  <2>1. CASE volTimer
    <3>1. timers' = timers
      BY <2>1
    <3>2. QED
      BY <1>1, <2>1, <3>1
  <2>2. CASE ~volTimer
    <3>1. timers' = Append(timers, Interval)
      BY <2>2
    <3>2. Len(timers) = 0 /\ wakes = 0
      BY <2>2
    <3>3. Interval \in 0..Interval
      BY ThrottleAssumption
    <3>4. /\ timers' \in Seq(0..Interval)
          /\ Len(timers') = 1 /\ timers'[1] = Interval
      <4>1. timers \in Seq(0..Interval)
        OBVIOUS
      <4> HIDE DEF Turn, Command, TypeOK, TimerMatchesPending, Spacing
      <4>2. QED
        BY <3>1, <3>2, <3>3, <4>1, AppendProperties
    <3>5. QED
      BY <1>1, <3>2, <3>4, ThrottleAssumption
  <2>3. QED
    BY <2>1, <2>2
<1>4. latest.n \in 0..MaxTurns
  BY DEF TypeOK
<1>5. latest' \in [n : 0..MaxTurns, vol : Volume \cup {None}] /\ latest'.n > 0 /\ latest'.vol = v
  BY <1>1, <1>4, ThrottleAssumption
<1>6. TypeOK'
  BY <1>1, <1>3, <1>5 DEF TypeOK
<1>7. TimerMatchesPending' /\ PendingIsLatest'
  BY <1>1, <1>2, <1>3, <1>5 DEF TimerMatchesPending, PendingIsLatest
<1>8. Spacing'
  BY <1>1, <1>3, <1>5 DEF Spacing
<1>9. QED
  BY <1>6, <1>7, <1>8

\* Time passes: what the timer loses, the time since the last flush gains.
LEMMA TickStep ==
    ASSUME ThrottleInv, Tick
    PROVE  ThrottleInv'
<1> USE DEF ThrottleInv
<1>1. UNCHANGED <<pending, volTimer, wakes, flushes, wire, sent, amp, cache, told,
                  latest, overlap, failed>>
  BY DEF Tick, postVars, stateVars
<1>2. timers \in Seq(0..Interval)
  BY DEF TypeOK
<1>3. \A i \in 1..Len(timers) : timers[i] \in 0..Interval
  BY <1>2, ElementOfSeq
<1>4. timers' = [i \in 1..Len(timers) |-> IF timers[i] = 0 THEN 0 ELSE timers[i] - 1]
  BY <1>2 DEF Tick
<1>5. \A i \in 1..Len(timers) : (IF timers[i] = 0 THEN 0 ELSE timers[i] - 1) \in 0..Interval
  BY <1>3, ThrottleAssumption
<1>6. Len(timers) \in Nat
  BY <1>2
<1>7. timers' \in Seq(0..Interval) /\ Len(timers') = Len(timers)
  BY <1>4, <1>5, <1>6
<1>8. since' \in 0..Interval /\ since' \in {since + 1, Interval} /\ since' >= since
  <2>1. since \in 0..Interval
    BY DEF TypeOK
  <2>2. since' = IF since = Interval THEN since ELSE since + 1
    BY DEF Tick
  <2>3. QED
    BY <2>1, <2>2, ThrottleAssumption
<1>9. TypeOK'
  BY <1>1, <1>7, <1>8 DEF TypeOK
<1>10. TimerMatchesPending' /\ PendingIsLatest'
  BY <1>1, <1>7 DEF TimerMatchesPending, PendingIsLatest
<1>11. Spacing'
  <2>1. ASSUME Len(timers') = 1
        PROVE  since' + timers'[1] >= Interval
    <3>1. Len(timers) = 1 /\ timers[1] \in 0..Interval
      BY <1>3, <1>7, <2>1
    <3>2. timers'[1] = IF timers[1] = 0 THEN 0 ELSE timers[1] - 1
      BY <1>4, <3>1
    <3>3. since + timers[1] >= Interval /\ since \in 0..Interval
      BY <3>1 DEF Spacing, TypeOK
    <3>4. timers'[1] \in 0..Interval /\ timers'[1] >= timers[1] - 1
      <4>1. Interval \in Nat
        BY ThrottleAssumption
      <4>2. CASE timers[1] = 0
        BY <3>1, <3>2, <4>1, <4>2
      <4>3. CASE timers[1] # 0
        BY <3>1, <3>2, <4>1, <4>3
      <4>4. QED
        BY <4>2, <4>3
    <3>5. CASE since' = Interval
      BY <3>4, <3>5, ThrottleAssumption
    <3>6. CASE since' = since + 1
      BY <3>1, <3>3, <3>4, <3>6, ThrottleAssumption
    <3>7. QED
      BY <1>8, <3>5, <3>6
  <2>2. QED
    BY <1>1, <1>8, <2>1, ThrottleAssumption DEF Spacing
<1>12. QED
  BY <1>9, <1>10, <1>11

\* The only timer fires when it is due, hence Interval after the last flush.
LEMMA FireStep ==
    ASSUME ThrottleInv, Fire
    PROVE  ThrottleInv'
<1> USE DEF ThrottleInv
<1>1. UNCHANGED <<pending, volTimer, flushes, wire, sent, amp, cache, told,
                  latest, since, overlap, failed>>
  BY DEF Fire, postVars, stateVars, historyVars
<1>2. timers \in Seq(0..Interval) /\ timers # <<>> /\ timers[1] = 0 /\ timers' = Tail(timers)
  BY DEF Fire, TypeOK
<1>3. Len(timers) = 1 /\ wakes = 0 /\ volTimer
  <2>1. Len(timers) \in Nat /\ Len(timers) # 0
    BY <1>2, EmptySeq
  <2>2. wakes \in Nat
    BY DEF TypeOK
  <2>3. Len(timers) + wakes = IF volTimer THEN 1 ELSE 0
    BY DEF TimerMatchesPending
  <2>4. \A m, n \in Nat : m # 0 /\ m + n = 1 => m = 1 /\ n = 0
    OBVIOUS
  <2>5. volTimer
    BY <2>1, <2>2, <2>3
  <2>6. QED
    BY <2>1, <2>2, <2>3, <2>4, <2>5
<1>4. timers' \in Seq(0..Interval) /\ Len(timers') = 0
  BY <1>2, <1>3
<1>5. wakes' = 1
  BY <1>3 DEF Fire
<1>6. since = Interval
  BY <1>2, <1>3, ThrottleAssumption DEF Spacing, TypeOK
<1>7. TypeOK'
  BY <1>1, <1>4, <1>5 DEF TypeOK
<1>8. TimerMatchesPending' /\ PendingIsLatest'
  BY <1>1, <1>3, <1>4, <1>5 DEF TimerMatchesPending, PendingIsLatest
<1>9. Spacing'
  BY <1>1, <1>4, <1>5, <1>6 DEF Spacing
<1>10. QED
  BY <1>7, <1>8, <1>9

\* The flush takes the pending volume and leaves neither timer nor handle.
LEMMA TakeStep ==
    ASSUME ThrottleInv, Take
    PROVE  ThrottleInv'
<1> USE DEF ThrottleInv
<1>1. wakes > 0 /\ wakes' = wakes - 1 /\ pending' = None /\ volTimer' = FALSE
  BY DEF Take, TakePending
<1>2. UNCHANGED <<timers, amp, cache, told, latest, failed>>
  BY DEF Take, TakePending, stateVars
<1>3. volTimer /\ pending # None /\ Len(timers) = 0 /\ wakes = 1
  BY <1>1 DEF TimerMatchesPending, TypeOK
<1>4. latest.n \in 1..MaxTurns /\ pending \in Volume
  BY <1>3, ThrottleAssumption DEF TypeOK, Spacing
<1>5. flushes' \in SUBSET Flush /\ wire' \in SUBSET Request
  BY <1>3, <1>4 DEF Take, TakePending, TypeOK, Flush, Request, Copy
<1>6. sent' \in 0..MaxTurns /\ since' \in 0..Interval
  BY <1>3, <1>4, ThrottleAssumption DEF Take, TakePending
<1>7. overlap' \in BOOLEAN
  BY <1>3 DEF Take, TakePending
<1>8. TypeOK'
  <2>1. pending' \in Volume \cup {None} /\ wakes' \in Nat
    BY <1>1, <1>3
  <2>2. volTimer' \in BOOLEAN
    BY <1>1
  <2>3. QED
    BY <1>2, <1>5, <1>6, <1>7, <2>1, <2>2 DEF TypeOK
<1>9. TimerMatchesPending' /\ PendingIsLatest'
  BY <1>1, <1>2, <1>3 DEF TimerMatchesPending, PendingIsLatest
<1>10. Spacing'
  BY <1>1, <1>2, <1>3 DEF Spacing
<1>11. QED
  BY <1>8, <1>9, <1>10

\* What happens to a flush on its way does not touch the throttle.
LEMMA PostStep ==
    ASSUME ThrottleInv,
           \/ \E f \in flushes : FlushStep(f)
           \/ \E r \in wire : AmpHandles(r)
    PROVE  ThrottleInv'
<1> USE DEF ThrottleInv, TimerMatchesPending, PendingIsLatest, Spacing
<1>1. ASSUME NEW f \in flushes, FlushStep(f)
      PROVE  /\ UNCHANGED throttleVars
             /\ UNCHANGED <<latest, since, overlap, amp>>
             /\ failed' \in BOOLEAN
             /\ cache' \in Volume /\ told' \in Volume
             /\ sent' \in 0..MaxTurns
             /\ flushes' \in SUBSET Flush
             /\ wire' \in SUBSET Request
  <2> USE <1>1 DEF TypeOK, Flush, Request, Replace, Copy, throttleVars, stateVars, historyVars
  <2>1. CASE Answer(f)
    BY <2>1 DEF Answer
  <2>2. CASE Eof(f)
    BY <2>2 DEF Eof
  <2>3. CASE GiveUp(f)
    BY <2>3 DEF GiveUp
  <2>4. CASE Store(f)
    BY <2>4 DEF Store
  <2>5. CASE Tell(f)
    BY <2>5 DEF Tell
  <2>6. QED
    BY <2>1, <2>2, <2>3, <2>4, <2>5 DEF FlushStep
<1>2. ASSUME NEW r \in wire, AmpHandles(r)
      PROVE  /\ UNCHANGED throttleVars
             /\ UNCHANGED <<latest, since, overlap, failed, cache, told, sent, flushes>>
             /\ amp' \in Volume
             /\ wire' \in SUBSET Request
  BY <1>2 DEF AmpHandles, TypeOK, Request, throttleVars, historyVars
<1>3. CASE \E f \in flushes : FlushStep(f)
  <2>1. PICK f \in flushes : FlushStep(f)
    BY <1>3
  <2>2. QED
    BY <1>1, <2>1 DEF TypeOK, throttleVars
<1>4. CASE \E r \in wire : AmpHandles(r)
  <2>1. PICK r \in wire : AmpHandles(r)
    BY <1>4
  <2>2. QED
    BY <1>2, <2>1 DEF TypeOK, throttleVars
<1>5. QED
  BY <1>3, <1>4

LEMMA StepThrottleInv == ThrottleInv /\ [Next]_vars => ThrottleInv'
<1> SUFFICES ASSUME ThrottleInv, [Next]_vars
             PROVE  ThrottleInv'
  OBVIOUS
<1>1. CASE Next
  BY <1>1, TurnStep, TickStep, FireStep, TakeStep, PostStep DEF Next
<1>2. CASE UNCHANGED vars
  BY <1>2 DEF vars, throttleVars, postVars, stateVars, historyVars, ThrottleInv, TypeOK,
              TimerMatchesPending, PendingIsLatest, Spacing
<1>3. QED
  BY <1>1, <1>2

\* Only a flush clears the timer handle, and it comes Interval after the last.
LEMMA TakesAreSpaced ==
    ASSUME ThrottleInv, [Next]_vars, volTimer, ~volTimer'
    PROVE  since >= Interval
<1> USE DEF vars, throttleVars, postVars, stateVars, historyVars
<1>1. Take
  <2>1. Next
    OBVIOUS
  <2>2. ASSUME NEW v \in Volume, Turn(v) PROVE FALSE
    BY <2>2 DEF Turn, Command
  <2>3. ~Tick /\ ~Fire
    BY DEF Tick, Fire
  <2>4. ASSUME NEW f \in flushes, FlushStep(f) PROVE FALSE
    BY <2>4 DEF FlushStep, Answer, Eof, GiveUp, Store, Tell
  <2>5. ASSUME NEW r \in wire, AmpHandles(r) PROVE FALSE
    BY <2>5 DEF AmpHandles
  <2>6. QED
    BY <2>1, <2>2, <2>3, <2>4, <2>5 DEF Next
<1>2. wakes > 0
  BY <1>1 DEF Take, TakePending
<1>3. QED
  BY <1>2, ThrottleAssumption DEF ThrottleInv, Spacing, TypeOK

THEOREM ThrottleInvariant == Safety => []ThrottleInv
<1>1. QED
  BY InitThrottleInv, StepThrottleInv, PTL DEF Safety

\* Every variable keeps its type.
THEOREM ThrottleTypeOK == Spec => []TypeOK
<1>1. ThrottleInv => TypeOK
  BY DEF ThrottleInv
<1>2. QED
  BY <1>1, ThrottleInvariant, PTL DEF Spec

\* handler.go:184-201: a volume is pending exactly while one timer, or one
\* goroutine of a fired timer, is going to take it.
THEOREM PendingHasTimer == Spec => []TimerMatchesPending
<1>1. ThrottleInv => TimerMatchesPending
  BY DEF ThrottleInv
<1>2. QED
  BY <1>1, ThrottleInvariant, PTL DEF Spec

\* handler.go:182-183: two flushes are at least one interval apart.
THEOREM FlushesAreSpaced == Spec => SpacedTakes
<1>1. ThrottleInv /\ [Next]_vars => [volTimer /\ ~volTimer' => since >= Interval]_vars
  BY TakesAreSpaced
<1>2. QED
  BY <1>1, ThrottleInvariant, PTL DEF Spec, Safety, SpacedTakes

\* Every step of the throttle enters, leaves, passes time or stutters.
LEMMA CoalescerStep ==
    ASSUME ThrottleInv, [Next]_vars
    PROVE  [C!Next]_(C!coalescerVars)
<1> USE DEF C!coalescerVars
<1> DEFINE Same == UNCHANGED <<pending, latest, since>>
<1>1. Same => UNCHANGED C!coalescerVars
  OBVIOUS
<1>2. ASSUME NEW v \in Volume, Turn(v)
      PROVE  C!Enter(v)
  BY <1>2 DEF Turn, Command, C!Enter
<1>3. CASE Tick
  <2>1. UNCHANGED <<pending, latest>> /\ since' = IF since = Interval THEN since ELSE since + 1
    BY <1>3 DEF Tick
  <2>2. since \in 0..Interval
    BY DEF ThrottleInv, TypeOK
  <2>3. CASE since = Interval
    BY <2>1, <2>3
  <2>4. CASE since # Interval
    <3>1. since < Interval /\ since' = since + 1
      BY <2>1, <2>2, <2>4, ThrottleAssumption
    <3>2. QED
      BY <2>1, <3>1 DEF C!TimePasses, C!Next
  <2>5. QED
    BY <2>3, <2>4
<1>4. CASE Take
  <2>1. wakes > 0 /\ pending # None
    BY <1>4 DEF Take, TakePending, ThrottleInv, TypeOK, TimerMatchesPending
  <2>2. since = Interval
    BY <2>1 DEF ThrottleInv, Spacing
  <2>3. pending' = None /\ since' = 0 /\ UNCHANGED latest
    BY <1>4, <2>1 DEF Take, TakePending
  <2>4. QED
    BY <2>1, <2>2, <2>3 DEF C!Leave, C!Next
<1>5. CASE Fire
  BY <1>5 DEF Fire, historyVars
<1>6. ASSUME NEW f \in flushes, FlushStep(f)
      PROVE  Same
  BY <1>6 DEF FlushStep, Answer, Eof, GiveUp, Store, Tell, throttleVars, historyVars
<1>7. ASSUME NEW r \in wire, AmpHandles(r)
      PROVE  Same
  BY <1>7 DEF AmpHandles, throttleVars, historyVars
<1>8. CASE UNCHANGED vars
  BY <1>8 DEF vars, throttleVars, historyVars
<1>9. QED
  BY <1>1, <1>2, <1>3, <1>4, <1>5, <1>6, <1>7, <1>8 DEF Next, C!Next

\* handler.go:182-201: for any volumes, interval and number of commands, the
\* throttle implements the coalescer.
THEOREM ThrottleIsCoalescer == Spec => ImplementsCoalescer
<1>1. Init => C!Init
  BY DEF Init, C!Init
<1>2. ThrottleInv /\ [Next]_vars => [C!Next]_(C!coalescerVars)
  BY CoalescerStep
<1>3. QED
  BY <1>1, <1>2, ThrottleInvariant, PTL DEF Spec, Safety, ImplementsCoalescer, C!Spec

-----------------------------------------------------------------------------
(* The last turn *)

\* At most one flush is under way, and the knobs know the cache unless it is
\* about to tell them.
OneFlush ==
    /\ \A f, g \in flushes : f = g
    /\ (\A f \in flushes : f.at # "changed") => told = cache
    /\ \A f \in flushes : f.at = "changed" => cache = f.vol

\* Everything under way carries the last volume, the second request of a
\* retry included. The amplifier has it, unless a request the flush waits for
\* brings it; the cache has it when the flush is over.
CarriesLatest ==
    /\ \A f \in flushes : f.vol = latest.vol
    /\ \A r \in wire : r.vol = latest.vol
    /\ amp = latest.vol \/ \E f \in flushes : f.at = "wait" /\ Copy(f) \in wire
    /\ flushes = {} => cache = latest.vol

InTurn ==
    ~overlap /\ ~failed => OneFlush /\ (pending = None /\ latest.n > 0 => CarriesLatest)

LastTurnInv == ThrottleInv /\ InTurn

-----------------------------------------------------------------------------

\* A command waits from now on; the flush under way is one as before.
LEMMA TurnKeepsInTurn ==
    ASSUME ThrottleInv, InTurn, NEW v \in Volume, Turn(v)
    PROVE  InTurn'
<1>1. pending' # None
  BY NoneIsNoVolume DEF Turn, Command
<1>2. QED
  BY <1>1 DEF Turn, Command, InTurn, OneFlush, postVars, stateVars

\* A flush that does not overlap begins with nothing under way: it takes the
\* last volume, and its request is sent.
LEMMA TakeKeepsInTurn ==
    ASSUME ThrottleInv, InTurn, Take
    PROVE  InTurn'
<1> DEFINE f == [n |-> latest.n, vol |-> pending, attempt |-> 0, at |-> "wait"]
<1>1. SUFFICES ASSUME ~overlap', ~failed' PROVE OneFlush' /\ CarriesLatest'
  BY DEF InTurn
<1>2. pending # None /\ pending = latest.vol
  BY DEF Take, TakePending, ThrottleInv, TypeOK, TimerMatchesPending, PendingIsLatest
<1>3. /\ ~overlap /\ ~failed /\ flushes = {} /\ wire = {}
      /\ flushes' = {f} /\ wire' = {Copy(f)} /\ UNCHANGED <<stateVars, latest>>
  BY <1>1, <1>2 DEF Take, TakePending
<1>4. OneFlush
  BY <1>3 DEF InTurn
<1>5. Copy(f).vol = latest.vol /\ f.vol = latest.vol /\ f.at = "wait"
  BY <1>2 DEF Copy
<1>6. OneFlush'
  BY <1>3, <1>4, <1>5 DEF OneFlush, stateVars
<1>7. CarriesLatest'
  BY <1>3, <1>5 DEF CarriesLatest, stateVars, Copy
<1>8. QED
  BY <1>6, <1>7

\* The steps of a flush. What it had to tell is told before it ends.
LEMMA FlushKeepsInTurn ==
    ASSUME ThrottleInv, InTurn, NEW f \in flushes, FlushStep(f)
    PROVE  InTurn'
<1> USE DEF throttleVars, stateVars, historyVars
<1>1. SUFFICES ASSUME ~overlap, ~failed, OneFlush, ~overlap', ~failed',
                      UNCHANGED <<pending, latest>>
               PROVE  OneFlush' /\ (pending = None /\ latest.n > 0 /\ CarriesLatest => CarriesLatest')
  BY DEF InTurn, FlushStep, Answer, Eof, GiveUp, Store, Tell
<1>2. flushes = {f}
  BY <1>1 DEF OneFlush
<1>3. f \in Flush
  BY DEF ThrottleInv, TypeOK
<1>4. CASE Answer(f)
  <2>1. PICK v \in {f.vol, amp} : Replace(f, [f EXCEPT !.at = "answered", !.vol = v])
    BY <1>4 DEF Answer
  <2> DEFINE g == [f EXCEPT !.at = "answered", !.vol = v]
  <2>2. flushes' = {g} /\ g.at = "answered" /\ g.vol = v
    BY <1>2, <1>3, <2>1 DEF Replace, Flush
  <2>3. f.at = "wait" /\ Copy(f) \notin wire /\ UNCHANGED <<wire, amp, cache, told, latest>>
    BY <1>4 DEF Answer
  <2> HIDE DEF g
  <2>4. OneFlush'
    BY <1>1, <1>2, <2>2, <2>3 DEF OneFlush
  <2>5. ASSUME CarriesLatest PROVE CarriesLatest'
    <3>1. amp = latest.vol /\ v = latest.vol
      BY <1>2, <2>1, <2>3, <2>5 DEF CarriesLatest
    <3>2. QED
      BY <2>2, <2>3, <2>5, <3>1 DEF CarriesLatest
  <2>6. QED
    BY <2>4, <2>5
<1>5. CASE Eof(f)
  <2> DEFINE g == [f EXCEPT !.attempt = 1]
  <2>1. flushes' = {g} /\ g.at = "wait" /\ g.vol = f.vol /\ Copy(g).vol = f.vol
    BY <1>2, <1>3, <1>5 DEF Eof, Replace, Flush, Copy
  <2>2. wire' \subseteq wire \cup {Copy(g)} /\ Copy(g) \in wire' /\ UNCHANGED <<amp, cache, told, latest>>
    BY <1>5 DEF Eof
  <2>3. f.at = "wait"
    BY <1>5 DEF Eof
  <2> HIDE DEF g
  <2>4. OneFlush'
    BY <1>1, <1>2, <2>1, <2>2, <2>3 DEF OneFlush
  <2>5. ASSUME CarriesLatest PROVE CarriesLatest'
    BY <1>2, <2>1, <2>2, <2>5 DEF CarriesLatest
  <2>6. QED
    BY <2>4, <2>5
<1>6. CASE GiveUp(f)
  BY <1>1, <1>6 DEF GiveUp
<1>7. CASE Store(f)
  <2>1. f.at = "answered" /\ cache' = f.vol /\ UNCHANGED <<wire, amp, told, latest>>
    BY <1>7 DEF Store
  <2>2. told = cache
    BY <1>1, <1>2, <2>1 DEF OneFlush
  <2>3. CASE cache = f.vol
    <3>1. flushes' = {}
      BY <1>2, <1>7, <2>3 DEF Store
    <3>2. QED
      BY <1>2, <2>1, <2>2, <2>3, <3>1 DEF OneFlush, CarriesLatest
  <2>4. CASE cache # f.vol
    <3> DEFINE g == [f EXCEPT !.at = "changed"]
    <3>1. flushes' = {g} /\ g.at = "changed" /\ g.vol = f.vol
      BY <1>2, <1>3, <1>7, <2>4 DEF Store, Replace, Flush
    <3> HIDE DEF g
    <3>2. QED
      BY <1>2, <2>1, <3>1 DEF OneFlush, CarriesLatest
  <2>5. QED
    BY <2>3, <2>4
<1>8. CASE Tell(f)
  <2>1. /\ f.at = "changed" /\ told' = f.vol /\ flushes' = {}
        /\ UNCHANGED <<wire, amp, cache, latest>>
    BY <1>2, <1>8 DEF Tell
  <2>2. cache = f.vol
    BY <1>1, <2>1 DEF OneFlush
  <2>3. QED
    BY <1>2, <2>1, <2>2 DEF OneFlush, CarriesLatest
<1>9. QED
  BY <1>4, <1>5, <1>6, <1>7, <1>8 DEF FlushStep

\* The amplifier handles a request: then it has the last volume.
LEMMA AmpKeepsInTurn ==
    ASSUME InTurn, NEW r \in wire, AmpHandles(r)
    PROVE  InTurn'
BY DEF InTurn, OneFlush, CarriesLatest, AmpHandles, throttleVars, historyVars

\* All steps together
LEMMA StepKeepsInTurn ==
    ASSUME LastTurnInv, ThrottleInv', [Next]_vars
    PROVE  LastTurnInv'
<1> USE DEF LastTurnInv
<1>1. CASE Tick \/ Fire \/ UNCHANGED vars
  BY <1>1 DEF Tick, Fire, vars, throttleVars, postVars, stateVars, historyVars, InTurn,
              OneFlush, CarriesLatest
<1>2. CASE Next
  BY <1>1, <1>2, TurnKeepsInTurn, TakeKeepsInTurn, FlushKeepsInTurn, AmpKeepsInTurn DEF Next
<1>3. QED
  BY <1>1, <1>2

\* Every step of the throttle and its requests keeps the invariant.
THEOREM LastTurnInvariant == Spec => []LastTurnInv
<1>1. Init => LastTurnInv
  <2>1. Init => InTurn
    BY DEF Init, InTurn, OneFlush
  <2>2. QED
    BY <2>1, InitThrottleInv DEF LastTurnInv
<1>2. LastTurnInv /\ [Next]_vars => LastTurnInv'
  <2>1. LastTurnInv /\ [Next]_vars => ThrottleInv'
    BY StepThrottleInv DEF LastTurnInv
  <2>2. QED
    BY <2>1, StepKeepsInTurn
<1>3. QED
  BY <1>1, <1>2, PTL DEF Spec, Safety

\* handler.go:196-215: once everything is over, amplifier, cache and knobs
\* hold the last volume asked for, unless flushes overlapped or one gave up.
THEOREM TheLastTurnWins == Spec => []LastTurnWins
<1>1. LastTurnInv => LastTurnWins
  BY DEF LastTurnInv, InTurn, OneFlush, CarriesLatest, LastTurnWins
<1>2. QED
  BY <1>1, LastTurnInvariant, PTL
=============================================================================
