-------------------------------- MODULE Hub --------------------------------
(***************************************************************************)
(* The live feed of one poll on one instance: the hub (ws/hub.go), its     *)
(* clients (ws/client.go) and the handler that connects them               *)
(* (handlers/ws.go).  Rooms of different polls share nothing but the        *)
(* Pub/Sub connection, so one room stands for all.                         *)
(*                                                                         *)
(* The tally is a version number: each event on the poll's channel carries *)
(* the next one.  The go-redis PubSub is external: a set of channels        *)
(* guarded by its own lock, and a Go channel of received messages.         *)
(*                                                                         *)
(* An action is what a goroutine does under one hold of hub.mu, or one     *)
(* call to Redis or to a client's channels.                                *)
(***************************************************************************)
EXTENDS Naturals, Sequences

CONSTANTS
    Clients,       \* WebSocket connections
    SendBuffer,    \* capacity of a client's send channel
    MaxVersion,    \* bound on the events published
    MaxFailures,   \* bound on the Subscribe calls that fail and the events that are lost
    MayShutDown    \* does the instance get a SIGTERM?

ASSUME SendBufferAssumption == SendBuffer \in Nat \ {0}
ASSUME BoundsAssumption     == MaxVersion \in Nat /\ MaxFailures \in Nat
ASSUME MayShutDownAssumption == MayShutDown \in BOOLEAN

VARIABLES
    version,      \* of the tally, as of the last event published
    room,         \* hub.rooms[pollID]; the empty set when there is no such key
    subscribed,   \* is the poll's channel in the PubSub's set?
    inbox,        \* versions received from Redis, not yet taken by Run
    running,      \* is Run still looping?
    batch,        \* the message dispatch is sending, and to whom it still has to
    shutdown,     \* how far Close has come: "no", "closing", "closed"
    evicted,      \* the clients Close still has to close
    pc,           \* the connection's goroutines: Serve, then readPump
    writer,       \* writePump: "off", "on", "exited"
    buffer,       \* the send channel
    closing,      \* is the closing channel closed?
    delivered,    \* the messages the browser has been written, in order, until it goes
    failures,     \* Subscribe calls that have failed, and events that were lost
    missed,       \* the versions that did not arrive here
    since         \* history: the last version dispatched when the client joined

hubVars    == <<room, running, batch, shutdown, evicted, since>>
pubsubVars == <<subscribed, inbox, failures, missed>>
clientVars == <<pc, writer, buffer, closing, delivered>>
vars == <<version, room, subscribed, inbox, running, batch, shutdown, evicted, pc, writer,
          buffer, closing, delivered, failures, missed, since>>

Versions == 0 .. MaxVersion

\* An event is its version; what the snapshot of Serve holds matters to the page only.
Snapshot == 0

Places ==
    { "idle",          \* the browser has not connected
      "subscribe",     \* Join registered the first client of the room
      "greet",         \* Join is done; the snapshot is still to be queued
      "rollback",      \* Subscribe failed, Join is about to Leave
      "undo",          \* ... and has to unsubscribe
      "reading",       \* readPump waits in ReadMessage
      "leaving",       \* ReadMessage failed, Leave is next
      "unsubscribe",   \* Leave emptied the room
      "ended" }        \* nothing of the connection is left but its writePump

Init ==
    /\ version = 0
    /\ room = {}
    /\ subscribed = FALSE
    /\ inbox = <<>>
    /\ running = TRUE
    /\ batch = [left |-> {}, version |-> 0]
    /\ shutdown = "no"
    /\ evicted = {}
    /\ pc = [c \in Clients |-> "idle"]
    /\ writer = [c \in Clients |-> "off"]
    /\ buffer = [c \in Clients |-> <<>>]
    /\ closing = [c \in Clients |-> FALSE]
    /\ delivered = [c \in Clients |-> <<>>]
    /\ failures = 0
    /\ missed = {}
    /\ since = [c \in Clients |-> 0]

RedisMayFail == failures < MaxFailures

Goto(c, place) == pc' = [pc EXCEPT ![c] = place]

----------------------------------------------------------------------------
(* Client                                                                  *)

\* A deviation: a full buffer drops the message and keeps the client.
EnqueueDropping(c, m) ==
    /\ buffer' = IF Len(buffer[c]) < SendBuffer
                   THEN [buffer EXCEPT ![c] = Append(@, m)] ELSE buffer
    /\ UNCHANGED closing

\* A deviation: a full buffer makes the hub wait.
EnqueueBlocking(c, m) ==
    /\ \/ Len(buffer[c]) < SendBuffer /\ buffer' = [buffer EXCEPT ![c] = Append(@, m)]
       \/ closing[c] /\ UNCHANGED buffer
    /\ UNCHANGED closing

\* Enqueue never blocks.  select takes any case that is ready, and the default,
\* which disconnects the client, only when none is.
Enqueue(c, m) ==
    \/ /\ Len(buffer[c]) < SendBuffer
       /\ buffer' = [buffer EXCEPT ![c] = Append(@, m)]
       /\ UNCHANGED closing
    \/ closing[c] /\ UNCHANGED <<buffer, closing>>
    \/ /\ Len(buffer[c]) >= SendBuffer /\ ~closing[c]
       /\ closing' = [closing EXCEPT ![c] = TRUE]
       /\ UNCHANGED buffer

\* writePump writes the next message; a write that fails or times out ends it.
Write(c) ==
    /\ writer[c] = "on" /\ buffer[c] # <<>>
    /\ buffer' = [buffer EXCEPT ![c] = Tail(@)]
    /\ \/ /\ delivered' = IF pc[c] # "reading" THEN delivered
                           ELSE [delivered EXCEPT ![c] = Append(@, Head(buffer[c]))]
          /\ UNCHANGED writer
       \/ writer' = [writer EXCEPT ![c] = "exited"] /\ UNCHANGED delivered
    /\ UNCHANGED <<version, hubVars, pubsubVars, pc, closing>>

\* A deviation: writePump returns without closing the connection.
WriteCloseKeepingConn(c) ==
    /\ writer[c] = "on" /\ closing[c]
    /\ writer' = [writer EXCEPT ![c] = "off"]
    /\ UNCHANGED <<version, hubVars, pubsubVars, pc, buffer, closing, delivered>>

\* writePump sees closing, or a ping fails: it exits and closes the connection.
WriteClose(c) ==
    /\ writer[c] = "on" /\ closing[c]
    /\ writer' = [writer EXCEPT ![c] = "exited"]
    /\ UNCHANGED <<version, hubVars, pubsubVars, pc, buffer, closing, delivered>>

StopReading(c) ==
    /\ pc[c] = "reading"
    /\ Goto(c, "leaving")
    /\ delivered' = [delivered EXCEPT ![c] = <<>>]
    /\ UNCHANGED <<version, hubVars, pubsubVars, writer, buffer, closing>>

\* ReadMessage fails: writePump closed the connection ...
ReadClosed(c) ==
    /\ writer[c] = "exited"
    /\ StopReading(c)

\* ... or the browser went away, or no pong came in time.
PeerGone(c) ==
    /\ writer[c] = "on"
    /\ StopReading(c)

----------------------------------------------------------------------------
(* Leave                                                                   *)

\* A deviation: the client is taken out of the room, the subscription stays.
LeaveRoomSubscribed(c, empty, other) == room' = room \ {c} /\ Goto(c, other)

\* The part of Leave under the lock; then is where it goes when it emptied the room.
\* A room that is gone (Close swapped it) needs nothing.
LeaveRoom(c, empty, other) ==
    /\ room' = room \ {c}
    /\ Goto(c, IF room # {} /\ room \ {c} = {} THEN empty ELSE other)

\* readPump's deferred Leave, and the Close that follows it.
Leave(c) ==
    /\ pc[c] = "leaving"
    /\ LeaveRoom(c, "unsubscribe", "ended")
    /\ closing' = IF pc'[c] = "ended" THEN [closing EXCEPT ![c] = TRUE] ELSE closing
    /\ UNCHANGED <<version, running, batch, shutdown, evicted, since, pubsubVars, writer,
                   buffer, delivered>>

\* The PubSub drops the channel from its set whether or not the call succeeds.
Unsubscribe(c) ==
    /\ pc[c] \in {"unsubscribe", "undo"}
    /\ subscribed' = FALSE
    /\ Goto(c, "ended")
    /\ closing' = [closing EXCEPT ![c] = TRUE]
    /\ UNCHANGED <<version, hubVars, inbox, failures, missed, writer, buffer, delivered>>

----------------------------------------------------------------------------
(* Serve and Join                                                          *)

\* Results and the upgrade, which the hub does not see, then the part of Join under the lock.
Register(c) ==
    /\ pc[c] = "idle"
    /\ room' = room \cup {c}
    /\ since' = [since EXCEPT ![c] = batch.version]
    /\ Goto(c, IF room = {} THEN "subscribe" ELSE "greet")
    /\ UNCHANGED <<version, running, batch, shutdown, evicted, pubsubVars, writer, buffer,
                   closing, delivered>>

\* A deviation: a Subscribe that fails leaves the client in the room.
SubscribeWithoutRollback(c) ==
    /\ pc[c] = "subscribe"
    /\ subscribed' = (shutdown # "closed")
    /\ \/ shutdown # "closed" /\ Goto(c, "greet") /\ UNCHANGED <<failures, closing>>
       \/ /\ shutdown = "closed" \/ RedisMayFail
          /\ failures' = IF shutdown = "closed" THEN failures ELSE failures + 1
          /\ Goto(c, "ended")
          /\ closing' = [closing EXCEPT ![c] = TRUE]
    /\ UNCHANGED <<version, hubVars, inbox, missed, writer, buffer, delivered>>

\* Subscribe puts the channel into the PubSub's set even when it returns an error
\* (it is subscribed at the next reconnect); a closed PubSub only returns an error.
Subscribe(c) ==
    /\ pc[c] = "subscribe"
    /\ subscribed' = (shutdown # "closed")
    /\ \/ shutdown # "closed" /\ Goto(c, "greet") /\ UNCHANGED failures
       \/ shutdown = "closed" /\ Goto(c, "rollback") /\ UNCHANGED failures
       \/ /\ shutdown # "closed" /\ RedisMayFail
          /\ failures' = failures + 1
          /\ Goto(c, "rollback")
    /\ UNCHANGED <<version, hubVars, inbox, missed, writer, buffer, closing, delivered>>

\* Join's Leave, then Serve closes the client.
Rollback(c) ==
    /\ pc[c] = "rollback"
    /\ LeaveRoom(c, "undo", "ended")
    /\ closing' = IF pc'[c] = "ended" THEN [closing EXCEPT ![c] = TRUE] ELSE closing
    /\ UNCHANGED <<version, running, batch, shutdown, evicted, since, pubsubVars, writer,
                   buffer, delivered>>

\* Serve queues the results it has as the first message, then starts the pumps.
Greet(c) ==
    /\ pc[c] = "greet"
    /\ Enqueue(c, Snapshot)
    /\ Goto(c, "reading")
    /\ writer' = [writer EXCEPT ![c] = "on"]
    /\ UNCHANGED <<version, hubVars, pubsubVars, delivered>>

----------------------------------------------------------------------------
(* Run and dispatch                                                        *)

\* Some instance publishes the next version.  Pub/Sub keeps nothing: an event
\* published while the PubSub is not subscribed, or reconnects, never arrives.
Publish ==
    /\ version < MaxVersion
    /\ version' = version + 1
    /\ \/ subscribed /\ inbox' = Append(inbox, version') /\ UNCHANGED <<missed, failures>>
       \/ /\ ~subscribed \/ RedisMayFail
          /\ missed' = missed \cup {version'}
          /\ failures' = IF subscribed THEN failures + 1 ELSE failures
          /\ UNCHANGED inbox
    /\ UNCHANGED <<hubVars, subscribed, clientVars>>

\* dispatch takes the snapshot of the room under the read lock.
Receive ==
    /\ running /\ batch.left = {} /\ inbox # <<>>
    /\ batch' = [left |-> room, version |-> Head(inbox)]
    /\ inbox' = Tail(inbox)
    /\ UNCHANGED <<version, room, running, shutdown, evicted, since, subscribed, failures, missed,
                   clientVars>>

\* Outside the lock it hands the message to one client after the other.
Send(c) ==
    /\ c \in batch.left
    /\ Enqueue(c, batch.version)
    /\ batch' = [batch EXCEPT !.left = @ \ {c}]
    /\ UNCHANGED <<version, room, running, shutdown, evicted, since, pubsubVars, pc, writer,
                   delivered>>

----------------------------------------------------------------------------
(* Close                                                                   *)

\* Swap the rooms under the lock.
CloseRooms ==
    /\ MayShutDown /\ shutdown = "no"
    /\ shutdown' = "closing"
    /\ evicted' = room
    /\ room' = {}
    /\ UNCHANGED <<version, running, batch, since, pubsubVars, clientVars>>

CloseClient(c) ==
    /\ c \in evicted
    /\ closing' = [closing EXCEPT ![c] = TRUE]
    /\ evicted' = evicted \ {c}
    /\ UNCHANGED <<version, room, running, batch, shutdown, since, pubsubVars, pc, writer, buffer,
                   delivered>>

ClosePubSub ==
    /\ shutdown = "closing" /\ evicted = {}
    /\ shutdown' = "closed"
    /\ subscribed' = FALSE
    /\ UNCHANGED <<version, room, running, batch, evicted, since, inbox, failures, missed,
                   clientVars>>

\* Run sees done; until then it may still take messages.
StopRun ==
    /\ running /\ shutdown # "no" /\ batch.left = {}
    /\ running' = FALSE
    /\ UNCHANGED <<version, room, batch, shutdown, evicted, since, pubsubVars, clientVars>>

----------------------------------------------------------------------------

\* What the goroutines of one connection do without the browser's help.
Serve(c) ==
    Subscribe(c) \/ Rollback(c) \/ Greet(c)
        \/ ReadClosed(c) \/ Leave(c) \/ Unsubscribe(c)

Next ==
    \/ \E c \in Clients : \/ Register(c) \/ Serve(c) \/ PeerGone(c)
                          \/ Write(c) \/ WriteClose(c) \/ Send(c) \/ CloseClient(c)
    \/ Publish \/ Receive
    \/ CloseRooms \/ ClosePubSub \/ StopRun

Spec == Init /\ [][Next]_vars

\* Goroutines that can run do run; every write and every Redis call ends at its
\* deadline.  Nothing makes browsers come or go, votes happen or SIGTERM arrive.
\* WriteClose needs its own fairness: select picks among ready cases at random, so
\* closing is not passed over for ever.
Fairness ==
    /\ \A c \in Clients : /\ WF_vars(Serve(c))
                          /\ WF_vars(Write(c))
                          /\ WF_vars(WriteClose(c))
                          /\ WF_vars(Send(c))
                          /\ WF_vars(CloseClient(c))
    /\ WF_vars(Receive)
    /\ WF_vars(ClosePubSub)
    /\ WF_vars(StopRun)

FairSpec == Spec /\ Fairness

----------------------------------------------------------------------------
(* Properties                                                              *)

\* The types, and the bound on the send channel.
TypeOK ==
    /\ version \in Versions
    /\ room \subseteq Clients
    /\ subscribed \in BOOLEAN
    /\ inbox \in Seq(Versions)
    /\ running \in BOOLEAN
    /\ batch \in [left : SUBSET Clients, version : Versions]
    /\ shutdown \in {"no", "closing", "closed"}
    /\ evicted \subseteq Clients
    /\ pc \in [Clients -> Places]
    /\ writer \in [Clients -> {"off", "on", "exited"}]
    /\ buffer \in [Clients -> Seq(Versions)]
    /\ \A c \in Clients : Len(buffer[c]) <= SendBuffer
    /\ closing \in [Clients -> BOOLEAN]
    /\ delivered \in [Clients -> Seq(Versions)]
    /\ failures \in 0 .. MaxFailures
    /\ missed \subseteq Versions
    /\ since \in [Clients -> Versions]

Still == \A c \in Clients : pc[c] \in {"idle", "greet", "reading", "ended"}

\* When nobody is joining or leaving, an instance without viewers of a poll is not
\* subscribed to its channel, however the joins, the leaves and failing Subscribe
\* calls interleaved (hub.go:135-138).
NoIdleSubscription == (Still /\ room = {} /\ shutdown # "closing") => ~subscribed

\* Every variable has its type, and a room only holds connections that will still leave
\* it: none that has ended, by whichever path, and none that has not joined.
NoGhostsInTheRoom ==
    TypeOK /\ \A c \in room : pc[c] \notin {"idle", "undo", "unsubscribe", "ended"}

\* What a browser was sent, and then what is queued for it.
FeedOf(c) == delivered[c] \o buffer[c]

\* The connection works, and dispatch has nothing to hand to it.
UpToDate(c) ==
    c \in room \ batch.left /\ ~closing[c] /\ pc[c] # "leaving" /\ writer[c] # "exited"

\* What a browser is sent are the events, in order, each once and none from before it
\* joined; as long as its connection works, none dispatched since is missing but those
\* that never reached this instance: a slow viewer is cut off (client.go:69-74), never
\* thinned out.
FeedHasNoGaps ==
    \A c \in Clients :
        LET feed   == FeedOf(c)
            events == {i \in DOMAIN feed : feed[i] # Snapshot}
        IN  /\ \A i \in events : since[c] < feed[i]
            /\ \A i, j \in events : i < j => feed[i] < feed[j]
            /\ UpToDate(c) =>
                  since[c] + 1 .. batch.version \subseteq missed \cup {feed[j] : j \in events}

\* A viewer that does not drain its buffer does not hold up the others (hub.go:100-102):
\* dispatch can always hand its message to each client that is left, whatever the other
\* goroutines, the browsers and Redis are waiting for.
SlowViewersDoNotStall == \A c \in batch.left : ENABLED Send(c)

\* A client that has been closed for being slow, or whose room is gone, which only Close
\* does, is taken out of the room and its connection ends.
ClosedClientsLeave ==
    \A c \in Clients :
        (closing[c] \/ (pc[c] = "reading" /\ c \notin room)) ~> (pc[c] = "ended" /\ c \notin room)

----------------------------------------------------------------------------
(* What the repository says of the program and TLC refutes                 *)

\* hub.go:124-125, "rather than leaving a client in a room that will never receive
\* anything": when nobody is joining or leaving, a room with clients is subscribed.
NobodyIsStranded == (Still /\ shutdown = "no" /\ room # {}) => subscribed

\* handlers/ws.go:111-112, "Queue the current results as the first message, before
\* any Redis event can arrive": no event is written before the snapshot.
SnapshotIsFirst ==
    \A c \in Clients : delivered[c] # <<>> => Head(delivered[c]) = Snapshot

\* hub.go:175, "Close shuts the hub down and disconnects every client": once it is
\* done, and nobody is joining or leaving, no client is left that has not been closed.
CloseDisconnectsEveryone ==
    (shutdown = "closed" /\ Still) => \A c \in Clients : pc[c] = "reading" => closing[c]
=============================================================================
