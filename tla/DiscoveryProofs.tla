-------------------------- MODULE DiscoveryProofs --------------------------
(***************************************************************************)
(* The type of Discovery, and that the address in flash is the one that    *)
(* the running client uses whenever the task has nothing else to do, for   *)
(* any addresses and any number of moves, failures and power cycles.       *)
(***************************************************************************)
EXTENDS Discovery, TLAPS

Cache == <<nvs.host, nvs.port>>

\* What connect_ws works on: the address it was given, in the order in which
\* it is tried, used and written.
Attempt ==
    /\ pc \in {"init", "start", "wait", "saveHost", "savePort"} => dest \in Address
    /\ pc \in {"init", "start", "wait"} /\ cached => dest = Cache
    /\ pc = "wait" => cached
    /\ pc \in {"search", "query", "pick"} => ~cached
    /\ pc \in {"wait", "saveHost", "savePort"} => client.at = dest
    /\ pc = "savePort" => nvs.host = dest[1]

\* Until a client was started, and once one was given up, there is none.
NoneRuns == pc \in {"boot", "start", "eraseHost", "erasePort"} => client.link = "off"

\* FastPathIsCurrent, also while the results of a query are tried
CacheIsCurrent ==
    pc \in {"sleep", "check", "search", "query", "pick"} /\ client.link # "off" => Cache = client.at

DiscoveryInv == TypeOK /\ Attempt /\ NoneRuns /\ CacheIsCurrent

-----------------------------------------------------------------------------

\* The start satisfies the invariant: no client, nothing in flash.
LEMMA DiscoveryStarts == ASSUME Init PROVE DiscoveryInv
<1> USE DiscoveryAssumption DEF DiscoveryAssumption, Init, NoClient
<1>1. budget \in [moves : 0..MaxMoves, drops : 0..MaxDrops, misses : 0..MaxMisses,
                 failures : 0..MaxFailures, reboots : 0..MaxReboots]
  OBVIOUS
<1>2. TypeOK
  BY <1>1 DEF TypeOK, BridgeState, PC
<1>3. Attempt /\ NoneRuns /\ CacheIsCurrent
  BY DEF Attempt, NoneRuns, CacheIsCurrent
<1>4. QED
  BY <1>2, <1>3 DEF DiscoveryInv

\* Spending keeps the budget in range.
LEMMA SpendKeepsBudget ==
    ASSUME TypeOK,
           NEW w \in {"moves", "drops", "misses", "failures", "reboots"}, Spend(w)
    PROVE  budget' \in [moves : 0..MaxMoves, drops : 0..MaxDrops, misses : 0..MaxMisses,
                        failures : 0..MaxFailures, reboots : 0..MaxReboots]
BY DiscoveryAssumption DEF DiscoveryAssumption, TypeOK, Spend

USE DEF DiscoveryInv, Attempt, NoneRuns, CacheIsCurrent, Cache

\* The steps of the client's task, and the calls of s_cb, leave the flash
\* and the client's address alone.
LEMMA ClientKeepsInv ==
    ASSUME DiscoveryInv,
           WsStep \/ \E t \in {"task", "ws"} : Callback(t)
    PROVE  DiscoveryInv'
<1>1. CASE LinkUp
  <2>1. TypeOK'
    BY <1>1 DEF LinkUp, CanLink, Link, WsIdle, TypeOK, knobVars, uiVars
  <2>2. QED
    BY <1>1, <2>1 DEF LinkUp, CanLink, Link, WsIdle, TypeOK, knobVars, uiVars
<1>2. CASE LinkFails
  BY <1>2 DEF LinkFails, Link, WsIdle, TypeOK, knobVars, uiVars
<1>3. CASE LinkDrops
  <2>1. budget' \in [moves : 0..MaxMoves, drops : 0..MaxDrops, misses : 0..MaxMisses,
                     failures : 0..MaxFailures, reboots : 0..MaxReboots]
    BY <1>3, SpendKeepsBudget DEF LinkDrops, TypeOK
  <2>2. QED
    BY <1>3, <2>1 DEF LinkDrops, Link, WsIdle, TypeOK, knobVars, uiVars
<1>4. CASE HandleEvent
  <2>1. state' \in BridgeState /\ telling' \in [{"task", "ws"} -> BridgeState \cup {None}]
    BY <1>4 DEF HandleEvent, SetState, TypeOK, BridgeState
  <2>2. QED
    BY <1>4, <2>1 DEF HandleEvent, SetState, TypeOK, knobVars
<1>5. ASSUME NEW t \in {"task", "ws"}, Callback(t) PROVE DiscoveryInv'
  <2>1. shown' \in BridgeState /\ telling' \in [{"task", "ws"} -> BridgeState \cup {None}]
    BY <1>5 DEF Callback, TypeOK
  <2>2. QED
    BY <1>5, <2>1 DEF Callback, TypeOK, knobVars, wsVars
<1>6. QED
  BY <1>1, <1>2, <1>3, <1>4, <1>5 DEF WsStep

\* set_state of the task keeps its types.
LEMMA TaskSetsState ==
    ASSUME TypeOK, NEW s \in BridgeState, SetState("task", s)
    PROVE  /\ state' \in BridgeState /\ shown' \in BridgeState
           /\ telling' \in [{"task", "ws"} -> BridgeState \cup {None}]
BY DEF TypeOK, SetState

\* connect_ws: it tears the client down before it tries an address, and what
\* it was given from the cache is what the cache holds.
LEMMA ConnectKeepsInv ==
    ASSUME DiscoveryInv,
           ConnectInit \/ ConnectStart \/ CachedConnected \/ CachedTimeout
    PROVE  DiscoveryInv'
<1> USE DiscoveryAssumption DEF DiscoveryAssumption, Address
<1>1. CASE ConnectInit
  <2>1. CASE pc' = "start" /\ SetState("task", "connecting") /\ UNCHANGED budget
    <3>1. "connecting" \in BridgeState
      BY DEF BridgeState
    <3>2. TypeOK'
      BY <1>1, <2>1, <3>1, TaskSetsState DEF ConnectInit, TaskAt, NoClient, TypeOK, PC
    <3>3. QED
      BY <1>1, <2>1, <3>2 DEF ConnectInit, TaskAt, NoClient
  <2>2. CASE Spend("failures") /\ AfterFailure /\ UNCHANGED uiVars
    <3>1. TypeOK'
      BY <1>1, <2>2, SpendKeepsBudget
      DEF ConnectInit, TaskAt, NoClient, TypeOK, PC, AfterFailure, uiVars
    <3>2. QED
      BY <1>1, <2>2, <3>1 DEF ConnectInit, TaskAt, NoClient, AfterFailure
  <2>3. QED
    BY <1>1, <2>1, <2>2 DEF ConnectInit
<1>2. CASE ConnectStart
  <2>1. CASE UNCHANGED budget /\ client' = [at |-> dest, link |-> "down"]
             /\ pc' = IF cached THEN "wait" ELSE "saveHost"
    <3>1. TypeOK'
      BY <1>2, <2>1 DEF ConnectStart, TaskAt, TypeOK, PC, uiVars
    <3>2. QED
      BY <1>2, <2>1, <3>1 DEF ConnectStart, TaskAt
  <2>2. CASE Spend("failures") /\ AfterFailure /\ UNCHANGED client
    <3>1. TypeOK'
      BY <1>2, <2>2, SpendKeepsBudget DEF ConnectStart, TaskAt, TypeOK, PC, AfterFailure, uiVars
    <3>2. QED
      BY <1>2, <2>2, <3>1 DEF ConnectStart, TaskAt, AfterFailure
  <2>3. QED
    BY <1>2, <2>1, <2>2 DEF ConnectStart
<1>3. CASE CachedConnected
  <2>1. TypeOK'
    BY <1>3 DEF CachedConnected, TaskAt, TypeOK, PC, wsVars, uiVars
  <2>2. QED
    BY <1>3, <2>1 DEF CachedConnected, TaskAt, wsVars
<1>4. CASE CachedTimeout
  <2>1. TypeOK'
    BY <1>4 DEF CachedTimeout, TaskAt, TypeOK, PC, NoClient, AfterFailure, uiVars
  <2>2. QED
    BY <1>4, <2>1 DEF CachedTimeout, TaskAt, NoClient, AfterFailure
<1>5. QED
  BY <1>1, <1>2, <1>3, <1>4

\* The flash: it is only erased when no client runs, and only written with
\* the address of the one that does; the task leaves "savePort" with both
\* entries written.
LEMMA FlashKeepsInv ==
    ASSUME DiscoveryInv,
           Boot \/ EraseHost \/ ErasePort \/ SaveHost \/ SavePort
    PROVE  DiscoveryInv'
<1> USE DiscoveryAssumption DEF DiscoveryAssumption, Address, Write, TaskAt
<1>1. CASE Boot
  <2>1. nvs.host # None /\ nvs.port # None => Cache \in Address
    BY DEF TypeOK
  <2>2. TypeOK'
    BY <1>1, <2>1 DEF Boot, BootWith, TypeOK, PC, wsVars, uiVars
  <2>3. QED
    BY <1>1, <2>1, <2>2 DEF Boot, BootWith, wsVars
<1>2. CASE EraseHost
  <2>1. TypeOK'
    BY <1>2 DEF EraseHost, TypeOK, PC, wsVars, uiVars
  <2>2. QED
    BY <1>2, <2>1 DEF EraseHost, wsVars
<1>3. CASE ErasePort
  <2>1. TypeOK'
    BY <1>3 DEF ErasePort, TypeOK, PC, wsVars, uiVars
  <2>2. QED
    BY <1>3, <2>1 DEF ErasePort, wsVars
<1>4. CASE SaveHost
  <2>1. TypeOK'
    BY <1>4 DEF SaveHost, TypeOK, PC, wsVars, uiVars
  <2>2. QED
    BY <1>4, <2>1 DEF SaveHost, TypeOK, wsVars
<1>5. CASE SavePort
  <2>1. TypeOK'
    BY <1>5 DEF SavePort, TypeOK, PC, wsVars, uiVars
  <2>2. dest = <<dest[1], dest[2]>>
    BY <1>5 DEF SavePort
  <2>3. QED
    BY <1>5, <2>1, <2>2 DEF SavePort, TypeOK, wsVars
<1>6. QED
  BY <1>1, <1>2, <1>3, <1>4, <1>5

\* The loop of discovery_task leaves flash and client alone.
LEMMA SearchKeepsInv ==
    ASSUME DiscoveryInv, Look \/ Search \/ Query \/ Pick \/ Wake
    PROVE  DiscoveryInv'
<1> USE DiscoveryAssumption DEF DiscoveryAssumption, Address, TaskAt
<1>1. CASE Look
  <2>1. TypeOK'
    BY <1>1 DEF Look, TypeOK, PC, wsVars, uiVars
  <2>2. QED
    BY <1>1, <2>1 DEF Look, wsVars
<1>2. CASE Search
  <2>1. "searching" \in BridgeState
    BY DEF BridgeState
  <2>2. TypeOK'
    BY <1>2, <2>1, TaskSetsState DEF Search, TypeOK, PC, wsVars
  <2>3. QED
    BY <1>2, <2>2 DEF Search, wsVars
<1>3. CASE Query
  <2>1. budget' \in [moves : 0..MaxMoves, drops : 0..MaxDrops, misses : 0..MaxMisses,
                     failures : 0..MaxFailures, reboots : 0..MaxReboots]
    BY <1>3, SpendKeepsBudget DEF Query, TypeOK
  <2>2. found' \in SUBSET Place /\ pc' \in {"pick", "check"}
    BY <1>3 DEF Query, TypeOK
  <2>3. TypeOK'
    BY <1>3, <2>1, <2>2 DEF Query, TypeOK, PC, wsVars, uiVars
  <2>4. QED
    BY <1>3, <2>2, <2>3 DEF Query, wsVars
<1>4. CASE Pick
  <2>1. "disconnected" \in BridgeState
    BY DEF BridgeState
  <2>2. CASE found = {} /\ SetState("task", "disconnected") /\ pc' = "check" /\ UNCHANGED <<dest, found>>
    <3>1. TypeOK'
      BY <1>4, <2>1, <2>2, TaskSetsState DEF Pick, TypeOK, PC, wsVars
    <3>2. QED
      BY <1>4, <2>2, <3>1 DEF Pick, wsVars
  <2>3. ASSUME NEW a \in found, dest' = a, found' = found \ {a}, pc' = "init", UNCHANGED uiVars
        PROVE  DiscoveryInv'
    <3>1. a \in Address
      BY <2>3 DEF TypeOK
    <3>2. TypeOK'
      BY <1>4, <2>3, <3>1 DEF Pick, TypeOK, PC, wsVars, uiVars
    <3>3. QED
      BY <1>4, <2>3, <3>1, <3>2 DEF Pick, wsVars
  <2>4. QED
    BY <1>4, <2>2, <2>3 DEF Pick
<1>5. CASE Wake
  <2>1. TypeOK'
    BY <1>5 DEF Wake, TypeOK, PC, wsVars, uiVars
  <2>2. QED
    BY <1>5, <2>1 DEF Wake, wsVars
<1>6. QED
  BY <1>1, <1>2, <1>3, <1>4, <1>5

\* The bridge moves, or the power is lost: only the flash survives.
LEMMA SurroundingsKeepInv ==
    ASSUME DiscoveryInv, BridgeMoves \/ Reboot
    PROVE  DiscoveryInv'
<1>1. CASE BridgeMoves
  BY <1>1, SpendKeepsBudget DEF BridgeMoves, TypeOK, knobVars, wsVars, uiVars
<1>2. CASE Reboot
  BY <1>2, SpendKeepsBudget DEF Reboot, TypeOK, PC, NoClient, BridgeState
<1>3. QED
  BY <1>1, <1>2

\* Every step of Discovery keeps the invariant, Reboot between the two
\* writes of an address included.
THEOREM DiscoveryInvariant == Spec => []DiscoveryInv
<1>1. Init => DiscoveryInv
  BY DiscoveryStarts
<1>2. DiscoveryInv /\ [Next]_vars => DiscoveryInv'
  <2>1. ASSUME DiscoveryInv, Next PROVE DiscoveryInv'
    BY <2>1, ClientKeepsInv, ConnectKeepsInv, FlashKeepsInv, SearchKeepsInv, SurroundingsKeepInv
    DEF Next, TaskStep
  <2>2. ASSUME DiscoveryInv, UNCHANGED vars PROVE DiscoveryInv'
    BY <2>2 DEF vars, knobVars, wsVars, uiVars, TypeOK
  <2>3. QED
    BY <2>1, <2>2
<1>3. QED
  BY <1>1, <1>2, PTL DEF Spec, Safety

\* All variables of Discovery stay in range.
THEOREM DiscoveryTypeOK == Spec => []TypeOK
<1>1. DiscoveryInv => TypeOK
  OBVIOUS
<1>2. QED
  BY <1>1, DiscoveryInvariant, PTL

\* The cached address is that of the running client (FastPathIsCurrent),
\* although it is written and erased in two halves and power may go between.
THEOREM FlashHoldsTheClient == Spec => []FastPathIsCurrent
<1>1. DiscoveryInv => FastPathIsCurrent
  BY DEF FastPathIsCurrent
<1>2. QED
  BY <1>1, DiscoveryInvariant, PTL
=============================================================================
