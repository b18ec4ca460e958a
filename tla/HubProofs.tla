---------------------------- MODULE HubProofs ----------------------------
(***************************************************************************)
(* For any set of connections and any channel capacities: the hub closes   *)
(* each client once, forgets no client that missed an event, and cuts off  *)
(* only clients that fell behind.                                          *)
(***************************************************************************)
EXTENDS Hub, TLAPS

\* An evicting goroutine exists only for a client that missed an event, and
\* the goroutines of a connection exist only once the hub has listed it.
Causes ==
    \A c \in Client :
        /\ evictors[c] > 0 => dropped[c]
        /\ dropped[c] => Registered(c)
        /\ reader[c] # "off" => handler[c] = "done"
        /\ reader[c] = "replying" => c \in Malformed
        /\ c \in clients => Registered(c)

\* What each step preserves: the properties with the causes behind them.
HubInv == TypeOK /\ CloseOnce /\ NoSilentGap /\ CutOnlyWhenBehind /\ Causes

LEMMA InitHubInv == Init => HubInv
BY HubAssumption
   DEF Init, HubInv, TypeOK, CloseOnce, NoSilentGap, CutOnlyWhenBehind, Causes, Registered,
       Closed, HandlerPC, ReaderPC, WriterPC

\* The steps of ServeHTTP, the pumps and the peer keep the invariant.
LEMMA ConnectionStep ==
    ASSUME HubInv, up, NEW c \in Client,
           Arrives(c) \/ CommandDone(c) \/ ServeStep(c) \/ ReadStep(c) \/ WriteStep(c)
    PROVE  HubInv'
<1> USE HubAssumption
    DEF HubInv, TypeOK, CloseOnce, NoSilentGap, CutOnlyWhenBehind, Causes, Registered, Closed,
        HandlerPC, ReaderPC, WriterPC, hubVars, chanVars, pumpVars, Goto, Full
<1>1. CASE Connect(c)
  BY <1>1 DEF Connect
<1>2. CASE ServeSend(c)
  BY <1>2 DEF ServeSend
<1>3. CASE StartPumps(c)
  BY <1>3 DEF StartPumps
<1>4. CASE ReadCommand(c)
  BY <1>4 DEF ReadCommand
<1>5. CASE CommandBroadcast(c)
  BY <1>5 DEF CommandBroadcast, Enqueue
<1>6. CASE CommandDone(c)
  BY <1>6 DEF CommandDone
<1>7. CASE ReadMalformed(c)
  BY <1>7 DEF ReadMalformed
<1>8. CASE ReplyError(c)
  <2>1. CASE Closed(c)
    <3>1. dropped[c] /\ c \in Malformed /\ reader[c] = "replying"
      BY <1>8, <2>1 DEF ReplyError
    <3>2. /\ UNCHANGED <<clients, queued, published, backlog, closes, evictors, dropped>>
          /\ UNCHANGED <<conn, handler, todo, reader, writer>>
          /\ up' = FALSE
      BY <1>8, <2>1 DEF ReplyError
    <3>3. CutOnlyWhenBehind'
      BY <3>1, <3>2
    <3>4. TypeOK'
      BY <3>2
    <3>5. CloseOnce' /\ NoSilentGap' /\ Causes'
      BY <3>2
    <3>6. QED
      BY <3>3, <3>4, <3>5
  <2>2. CASE ~Closed(c)
    <3>1. /\ ~Full(c) /\ up' = up
          /\ backlog' = [backlog EXCEPT ![c] = @ + 1]
          /\ reader' = [reader EXCEPT ![c] = "reading"]
          /\ UNCHANGED <<clients, queued, published, closes, evictors, dropped>>
          /\ UNCHANGED <<conn, handler, todo, writer>>
      BY <1>8, <2>2 DEF ReplyError
    <3>2. TypeOK'
      BY <3>1
    <3>3. CutOnlyWhenBehind'
      BY <3>1, <1>8 DEF ReplyError
    <3>4. CloseOnce' /\ NoSilentGap' /\ Causes'
      BY <3>1, <1>8 DEF ReplyError
    <3>5. QED
      BY <3>2, <3>3, <3>4
  <2>3. QED
    BY <2>1, <2>2
<1>9. CASE ReadFails(c)
  BY <1>9 DEF ReadFails
<1>10. CASE WriterReceives(c)
  BY <1>10 DEF WriterReceives
<1>11. CASE WriterDrained(c)
  BY <1>11 DEF WriterDrained
<1>12. CASE WriteReturns(c)
  BY <1>12 DEF WriteReturns
<1>13. CASE PeerGone(c)
  BY <1>13 DEF PeerGone
<1>14. QED
  BY <1>1, <1>2, <1>3, <1>4, <1>5, <1>6, <1>7, <1>8, <1>9, <1>10, <1>11, <1>12, <1>13
     DEF Arrives, ServeStep, ReadStep, WriteStep

\* The steps of Run keep the invariant.
LEMMA RunStep ==
    ASSUME HubInv, up,
           HubBroadcast \/ Publish \/ \E c \in Client : HubStep(c)
    PROVE  HubInv'
<1> USE HubAssumption
    DEF HubInv, TypeOK, CloseOnce, NoSilentGap, CutOnlyWhenBehind, Causes, Registered, Closed,
        HandlerPC, ReaderPC, WriterPC, hubVars, chanVars, pumpVars
<1>1. ASSUME NEW c \in Client, HubRegister(c)
      PROVE  HubInv'
  BY <1>1 DEF HubRegister
<1>2. ASSUME NEW c \in Client, HubUnregister(c)
      PROVE  HubInv'
  BY <1>2 DEF HubUnregister, Remove
<1>3. ASSUME NEW c \in Client, HubEvict(c)
      PROVE  HubInv'
  BY <1>3 DEF HubEvict, Remove
<1>4. CASE HubBroadcast
  <2> USE <1>4 DEF HubBroadcast, Deliver, FullClients, Full
  <2>1. TypeOK'
    OBVIOUS
  <2>2. NoSilentGap'
    OBVIOUS
  <2>3. CloseOnce' /\ CutOnlyWhenBehind'
    OBVIOUS
  <2>4. Causes'
    OBVIOUS
  <2>5. QED
    BY <2>1, <2>2, <2>3, <2>4
<1>5. CASE Publish
  BY <1>5 DEF Publish, Enqueue
<1>6. QED
  BY <1>1, <1>2, <1>3, <1>4, <1>5 DEF HubStep

LEMMA StepHubInv == HubInv /\ [Next]_vars => HubInv'
<1> SUFFICES ASSUME HubInv, [Next]_vars
             PROVE  HubInv'
  OBVIOUS
<1>1. CASE Next
  BY <1>1, ConnectionStep, RunStep DEF Next
<1>2. CASE UNCHANGED vars
  BY <1>2 DEF vars, hubVars, chanVars, pumpVars, HubInv, TypeOK, CloseOnce, NoSilentGap,
              CutOnlyWhenBehind, Causes, Registered, Closed, HandlerPC, ReaderPC, WriterPC
<1>3. QED
  BY <1>1, <1>2

\* The invariant holds of the hub under any scheduling, fair or not.
THEOREM HubInvariant == Safety => []HubInv
<1>1. QED
  BY InitHubInv, StepHubInv, PTL DEF Safety

\* Every variable keeps its type; the channels never exceed their capacity.
THEOREM HubTypeOK == Spec => []TypeOK
<1>1. HubInv => TypeOK
  BY DEF HubInv
<1>2. QED
  BY <1>1, HubInvariant, PTL DEF Spec

\* hub.go:53-60: close(client.send) runs exactly once per registered client,
\* whatever order readPump and the evicting goroutines come in.
THEOREM HubClosesOnce == Spec => []CloseOnce
<1>1. HubInv => CloseOnce
  BY DEF HubInv
<1>2. QED
  BY <1>1, HubInvariant, PTL DEF Spec

\* hub.go:70-77: a listed client that missed an event is about to be evicted.
THEOREM HubNoSilentGap == Spec => []NoSilentGap
<1>1. HubInv => NoSilentGap
  BY DEF HubInv
<1>2. QED
  BY <1>1, HubInvariant, PTL DEF Spec

\* hub.go:73, handler.go:107-113: only a client a whole channel behind is cut
\* off under a running reader, and only such a client can crash the bridge.
THEOREM HubCutsOnlyBehind == Spec => []CutOnlyWhenBehind
<1>1. HubInv => CutOnlyWhenBehind
  BY DEF HubInv
<1>2. QED
  BY <1>1, HubInvariant, PTL DEF Spec
====
