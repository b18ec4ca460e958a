------------------------------- MODULE Hub -------------------------------
(***************************************************************************)
(* The WebSocket hub of the bridge (bridge/internal/ws/hub.go) together    *)
(* with the three goroutines that share a connection with it: the HTTP     *)
(* handler that registers it and queues the first events (ServeHTTP), the  *)
(* readPump that executes commands, and the WritePump that empties the     *)
(* connection's send channel into the socket.                              *)
(*                                                                         *)
(* A message is anonymous here: a Go channel is its number of queued       *)
(* items.  What decides who is cut off, who leaks and who panics is how    *)
(* full the channels are and who has closed them, never what they hold.    *)
(***************************************************************************)
EXTENDS Integers

CONSTANTS
    Client,        \* the connections; each is used once, like a *Client
    Malformed,     \* those that may send a command ParseCommand refuses
    SendCap,       \* make(chan []byte, 256) of NewClient
    BroadcastCap,  \* make(chan *Event, 256) of NewHub
    MaxEvents      \* bound of the model: calls of Broadcast in a behaviour

ASSUME HubAssumption ==
    /\ Malformed \subseteq Client
    /\ SendCap \in Nat /\ SendCap >= 3   \* the handler's own events fit
    /\ BroadcastCap \in Nat \ {0}
    /\ MaxEvents \in Nat

VARIABLES
    up,         \* the process runs; FALSE once a goroutine has panicked
    clients,    \* Hub.clients
    queued,     \* length of Hub.broadcast
    published,  \* calls of Broadcast so far (bounds the model)
    backlog,    \* length of each Client.send
    closes,     \* how often close(client.send) was executed
    evictors,   \* goroutines blocked on h.unregister <- c in Run's default case
    dropped,    \* history: the hub skipped this client for some event
    conn,       \* the socket: no reads or writes succeed once it is closed
    handler,    \* control point of ServeHTTP
    todo,       \* events ServeHTTP still has to queue
    reader,     \* control point of readPump
    writer      \* control point of WritePump

hubVars  == <<clients, queued, published>>
chanVars == <<backlog, closes, evictors, dropped>>
pumpVars == <<conn, handler, todo, reader, writer>>
vars     == <<up, hubVars, chanVars, pumpVars>>

HandlerPC == {"idle", "registering", "sending", "done", "panicked"}
ReaderPC  == {"off", "reading", "command", "replying", "unregistering", "done"}
WriterPC  == {"off", "receiving", "writing", "done"}

TypeOK ==
    /\ up \in BOOLEAN
    /\ clients \in SUBSET Client
    /\ queued \in 0..BroadcastCap
    /\ published \in 0..MaxEvents
    /\ backlog \in [Client -> 0..SendCap]
    /\ closes \in [Client -> Nat]
    /\ evictors \in [Client -> Nat]
    /\ dropped \in [Client -> BOOLEAN]
    /\ conn \in [Client -> {"none", "open", "closed"}]
    /\ handler \in [Client -> HandlerPC]
    /\ todo \in [Client -> 0..3]
    /\ reader \in [Client -> ReaderPC]
    /\ writer \in [Client -> WriterPC]

Init ==
    /\ up = TRUE
    /\ clients = {}
    /\ queued = 0
    /\ published = 0
    /\ backlog = [c \in Client |-> 0]
    /\ closes = [c \in Client |-> 0]
    /\ evictors = [c \in Client |-> 0]
    /\ dropped = [c \in Client |-> FALSE]
    /\ conn = [c \in Client |-> "none"]
    /\ handler = [c \in Client |-> "idle"]
    /\ todo = [c \in Client |-> 0]
    /\ reader = [c \in Client |-> "off"]
    /\ writer = [c \in Client |-> "off"]

Full(c)   == backlog[c] = SendCap
Closed(c) == closes[c] > 0

---------------------------------------------------------------------------
(* ServeHTTP                                                               *)

\* The upgrade succeeds and the handler blocks in Register.
Connect(c) ==
    /\ handler[c] = "idle"
    /\ handler' = [handler EXCEPT ![c] = "registering"]
    /\ conn' = [conn EXCEPT ![c] = "open"]
    /\ UNCHANGED <<up, hubVars, chanVars, todo, reader, writer>>

\* One `client.send <- data` of the snapshot, artwork or connected event.
\* It blocks while the channel is full; on a closed channel it panics, which
\* net/http recovers: the hijacked socket stays open and no pump ever starts.
ServeSend(c) ==
    /\ handler[c] = "sending" /\ todo[c] > 0
    /\ \/ /\ Closed(c)
          /\ handler' = [handler EXCEPT ![c] = "panicked"]
          /\ UNCHANGED <<backlog, todo>>
       \/ /\ ~Closed(c) /\ ~Full(c)
          /\ backlog' = [backlog EXCEPT ![c] = @ + 1]
          /\ todo' = [todo EXCEPT ![c] = @ - 1]
          /\ UNCHANGED handler
    /\ UNCHANGED <<up, hubVars, closes, evictors, dropped, conn, reader, writer>>

StartPumps(c) ==
    /\ handler[c] = "sending" /\ todo[c] = 0
    /\ handler' = [handler EXCEPT ![c] = "done"]
    /\ reader' = [reader EXCEPT ![c] = "reading"]
    /\ writer' = [writer EXCEPT ![c] = "receiving"]
    /\ UNCHANGED <<up, hubVars, chanVars, conn, todo>>

---------------------------------------------------------------------------
(* Hub.Run: one iteration of the select                                    *)

\* case client := <-h.register, with the handler's Register.  The handler
\* goes on to queue two events, or three when there is artwork.
HubRegister(c) ==
    /\ handler[c] = "registering"
    /\ clients' = clients \cup {c}
    /\ handler' = [handler EXCEPT ![c] = "sending"]
    /\ \E n \in {2, 3} : todo' = [todo EXCEPT ![c] = n]
    /\ UNCHANGED <<up, queued, published, chanVars, conn, reader, writer>>

\* (defect) the hub closes whatever it is told to unregister
RemoveUnchecked(c) ==
    /\ clients' = clients \ {c}
    /\ closes' = [closes EXCEPT ![c] = @ + 1]

\* The body of case <-h.unregister: only a registered client is closed.
Remove(c) ==
    /\ clients' = clients \ {c}
    /\ closes' = IF c \in clients THEN [closes EXCEPT ![c] = @ + 1] ELSE closes

\* case client := <-h.unregister, sent by readPump's deferred Unregister; the
\* Close that follows finds the socket already dead and changes nothing.
HubUnregister(c) ==
    /\ reader[c] = "unregistering"
    /\ Remove(c)
    /\ reader' = [reader EXCEPT ![c] = "done"]
    /\ UNCHANGED <<up, queued, published, backlog, evictors, dropped,
                   conn, handler, todo, writer>>

\* case client := <-h.unregister, sent by one of the evicting goroutines
HubEvict(c) ==
    /\ evictors[c] > 0
    /\ Remove(c)
    /\ evictors' = [evictors EXCEPT ![c] = @ - 1]
    /\ UNCHANGED <<up, queued, published, backlog, dropped, pumpVars>>

\* One event leaves the queue: `served` get it, `missed` do not, and a
\* goroutine that will unregister it is started for each of `evicted`.
Deliver(served, missed, evicted) ==
    /\ queued > 0
    /\ queued' = queued - 1
    /\ backlog' = [c \in Client |-> IF c \in served THEN backlog[c] + 1 ELSE backlog[c]]
    /\ dropped' = [c \in Client |-> dropped[c] \/ c \in missed]
    /\ evictors' = [c \in Client |-> IF c \in evicted THEN evictors[c] + 1 ELSE evictors[c]]
    /\ UNCHANGED <<up, clients, published, closes, pumpVars>>

FullClients == {c \in clients : Full(c)}

\* (defect) a full client just misses the event
HubBroadcastSkips == Deliver(clients \ FullClients, FullClients, {})

\* (defect) a client whose last slot was taken is evicted, event delivered
HubBroadcastEager ==
    Deliver(clients \ FullClients, FullClients, {c \in clients : backlog[c] >= SendCap - 1})

\* (defect) a plain send instead of the select with a default case
HubBroadcastBlocks == FullClients = {} /\ Deliver(clients, {}, {})

\* case event := <-h.broadcast: a non-blocking send to every client; one
\* whose channel is full misses the event and gets an evicting goroutine.
HubBroadcast == Deliver(clients \ FullClients, FullClients, FullClients)

\* (defect) the queue of the hub has no capacity
EnqueueUnbounded ==
    /\ published < MaxEvents
    /\ queued' = queued + 1
    /\ published' = published + 1

\* Broadcast: blocks while the hub's queue is full.
Enqueue ==
    /\ published < MaxEvents
    /\ queued < BroadcastCap
    /\ queued' = queued + 1
    /\ published' = published + 1

\* A poll, a notification or a volume flush broadcasts.
Publish ==
    /\ Enqueue
    /\ UNCHANGED <<up, clients, chanVars, pumpVars>>

---------------------------------------------------------------------------
(* readPump                                                                *)

Goto(c, at) == reader' = [reader EXCEPT ![c] = at]

ReadCommand(c) ==
    /\ reader[c] = "reading" /\ conn[c] = "open"
    /\ Goto(c, "command")
    /\ UNCHANGED <<up, hubVars, chanVars, conn, handler, todo, writer>>

\* handleCommand runs in the reader and may broadcast several events.
CommandBroadcast(c) ==
    /\ reader[c] = "command"
    /\ Enqueue
    /\ UNCHANGED <<up, clients, chanVars, pumpVars>>

CommandDone(c) ==
    /\ reader[c] = "command"
    /\ Goto(c, "reading")
    /\ UNCHANGED <<up, hubVars, chanVars, conn, handler, todo, writer>>

ReadMalformed(c) ==
    /\ c \in Malformed
    /\ reader[c] = "reading" /\ conn[c] = "open"
    /\ Goto(c, "replying")
    /\ UNCHANGED <<up, hubVars, chanVars, conn, handler, todo, writer>>

\* `client.send <- data` of the error event: blocks on a full channel.  On a
\* closed one it panics in a goroutine nobody recovers: the process ends.
ReplyError(c) ==
    /\ reader[c] = "replying"
    /\ \/ /\ Closed(c)
          /\ up' = FALSE
          /\ UNCHANGED <<backlog, reader>>
       \/ /\ ~Closed(c) /\ ~Full(c)
          /\ backlog' = [backlog EXCEPT ![c] = @ + 1]
          /\ Goto(c, "reading")
          /\ UNCHANGED up
    /\ UNCHANGED <<hubVars, closes, evictors, dropped, conn, handler, todo, writer>>

\* (defect) the reader returns without its deferred Unregister
ReadFailsSilently(c) ==
    /\ reader[c] = "reading" /\ conn[c] = "closed"
    /\ Goto(c, "done")
    /\ UNCHANGED <<up, hubVars, chanVars, conn, handler, todo, writer>>

\* ReadMessage fails: the deferred function calls Unregister, then Close.
ReadFails(c) ==
    /\ reader[c] = "reading" /\ conn[c] = "closed"
    /\ Goto(c, "unregistering")
    /\ UNCHANGED <<up, hubVars, chanVars, conn, handler, todo, writer>>

---------------------------------------------------------------------------
(* WritePump and the peer                                                  *)

\* `for data := range c.send` takes what is queued, also after the close.
WriterReceives(c) ==
    /\ writer[c] = "receiving" /\ backlog[c] > 0
    /\ backlog' = [backlog EXCEPT ![c] = @ - 1]
    /\ writer' = [writer EXCEPT ![c] = "writing"]
    /\ UNCHANGED <<up, hubVars, closes, evictors, dropped, conn, handler, todo, reader>>

\* (defect) the writer returns without its deferred Close
WriterLeavesOpen(c) ==
    /\ writer[c] = "receiving" /\ backlog[c] = 0 /\ Closed(c)
    /\ writer' = [writer EXCEPT ![c] = "done"]
    /\ UNCHANGED <<up, hubVars, chanVars, conn, handler, todo, reader>>

\* The loop ends when the channel is closed and empty; the deferred Close
\* then fails the reader's next ReadMessage.
WriterDrained(c) ==
    /\ writer[c] = "receiving" /\ backlog[c] = 0 /\ Closed(c)
    /\ writer' = [writer EXCEPT ![c] = "done"]
    /\ conn' = [conn EXCEPT ![c] = "closed"]
    /\ UNCHANGED <<up, hubVars, chanVars, handler, todo, reader>>

\* WriteMessage succeeds on an open socket and ends the pump on a dead one.
WriteReturns(c) ==
    /\ writer[c] = "writing"
    /\ writer' = [writer EXCEPT ![c] = IF conn[c] = "open" THEN "receiving" ELSE "done"]
    /\ UNCHANGED <<up, hubVars, chanVars, conn, handler, todo, reader>>

\* The knob goes away, or the network does.
PeerGone(c) ==
    /\ conn[c] = "open"
    /\ conn' = [conn EXCEPT ![c] = "closed"]
    /\ UNCHANGED <<up, hubVars, chanVars, handler, todo, reader, writer>>

---------------------------------------------------------------------------
ServeStep(c)  == ServeSend(c) \/ StartPumps(c)
HubStep(c)    == HubRegister(c) \/ HubUnregister(c) \/ HubEvict(c)
ReadStep(c)   == ReplyError(c) \/ ReadFails(c)
WriteStep(c)  == WriterReceives(c) \/ WriterDrained(c) \/ WriteReturns(c)
Arrives(c)    == Connect(c) \/ ReadCommand(c) \/ CommandBroadcast(c) \/ ReadMalformed(c)
                 \/ PeerGone(c)

Next ==
    /\ up
    /\ \/ HubBroadcast
       \/ Publish
       \/ \E c \in Client : \/ Arrives(c)
                            \/ CommandDone(c)
                            \/ ServeStep(c)
                            \/ HubStep(c)
                            \/ ReadStep(c)
                            \/ WriteStep(c)

Safety == Init /\ [][Next]_vars

\* What the Go runtime schedules: every goroutine that can go on eventually
\* does.  A select with several ready cases picks one at random, so each
\* case of Run that stays ready is eventually served.  A command ends because
\* the HTTP client has a timeout; a write ends because TCP gives up on a peer
\* that no longer acknowledges.  Peers, commands and broadcasts owe nothing.
Fairness ==
    /\ WF_vars(up /\ HubBroadcast)
    /\ \A c \in Client :
          /\ WF_vars(up /\ HubRegister(c))
          /\ WF_vars(up /\ HubUnregister(c))
          /\ WF_vars(up /\ HubEvict(c))
          /\ WF_vars(up /\ ServeStep(c))
          /\ WF_vars(up /\ CommandDone(c))
          /\ WF_vars(up /\ ReadStep(c))
          /\ WF_vars(up /\ WriteStep(c))

Spec == Safety /\ Fairness

---------------------------------------------------------------------------
(* Properties                                                              *)

Registered(c) == handler[c] \notin {"idle", "registering"}

\* hub.go:53-60: the send channel of a client is open exactly while the hub
\* lists it, and is closed once, whichever of readPump and the evicting
\* goroutines reaches the hub first and however many of them follow (a second
\* close would panic inside Run and end the bridge).
CloseOnce ==
    \A c \in Client : closes[c] = IF Registered(c) /\ c \notin clients THEN 1 ELSE 0

\* hub.go:70-77: a client that missed an event is never kept as if nothing
\* had happened.  As long as the hub lists it, a goroutine is waiting to
\* unregister it, so the knob will reconnect and fetch a fresh snapshot.
NoSilentGap ==
    \A c \in clients : dropped[c] => evictors[c] > 0

\* handler.go:92-95, hub.go:73: while its reader runs, a client is only ever
\* closed because it had fallen a whole channel behind.  This is what bounds
\* the panic of handler.go:111: a bridge crash needs a client that is both
\* cut off for being slow and sending rubbish.
CutOnlyWhenBehind ==
    /\ \A c \in Client :
          Closed(c) /\ reader[c] \in {"off", "reading", "command", "replying"} => dropped[c]
    /\ ~up => \E c \in Malformed : dropped[c] /\ reader[c] = "replying"

\* handler.go:91-95, hub.go:125-133: when the connection of a well-behaved
\* client is gone, both its goroutines end and the hub forgets it.
GoneClientLeaves ==
    \A c \in Client \ Malformed :
        handler[c] = "done" /\ conn[c] = "closed"
            ~> ~up \/ (c \notin clients /\ reader[c] = "done" /\ writer[c] = "done")

\* hub.go:73: "Client send buffer full -- disconnect".  The disconnect does
\* happen, except to a client evicted while ServeHTTP is still queueing its
\* first events: that handler panics and its socket is never closed.
BehindClientIsCut ==
    \A c \in Client :
        dropped[c] ~> ~up \/ conn[c] = "closed" \/ handler[c] = "panicked"

\* hub.go:70-78: no client, however slow, keeps the hub from emptying the
\* broadcast queue that pollers, notifications and commands block on.
HubNeverBlocks == queued = BroadcastCap ~> ~up \/ queued < BroadcastCap

====
