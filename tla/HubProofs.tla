------------------------------ MODULE HubProofs ------------------------------
(***************************************************************************)
(* Theorems about Hub, for any connections, any buffer and any number of   *)
(* events and failures: the bookkeeping of rooms and subscriptions, and    *)
(* the order and completeness of what a browser is sent.                   *)
(***************************************************************************)
EXTENDS HubBroadcast, SequenceTheorems, TLAPS

USE SendBufferAssumption, BoundsAssumption, MayShutDownAssumption

----------------------------------------------------------------------------
(* Types                                                                   *)

\* One message more in a send channel that had room, or the client is closed.
LEMMA EnqueueType ==
    ASSUME TypeOK, NEW c \in Clients, NEW m \in Versions, Enqueue(c, m)
    PROVE  /\ buffer' \in [Clients -> Seq(Versions)]
           /\ \A d \in Clients : Len(buffer'[d]) <= SendBuffer
           /\ closing' \in [Clients -> BOOLEAN]
<1>1. buffer[c] \in Seq(Versions) /\ Len(buffer[c]) \in Nat
  BY DEF TypeOK
<1>2. Append(buffer[c], m) \in Seq(Versions) /\ Len(Append(buffer[c], m)) = Len(buffer[c]) + 1
  BY <1>1
<1>3. CASE Len(buffer[c]) < SendBuffer /\ buffer' = [buffer EXCEPT ![c] = Append(@, m)]
  BY <1>1, <1>2, <1>3 DEF TypeOK, Enqueue
<1>4. CASE buffer' = buffer
  BY <1>4 DEF TypeOK, Enqueue
<1> QED BY <1>3, <1>4 DEF Enqueue, TypeOK

\* What dispatch, Redis and the end of the instance do keeps the types.
LEMMA HubType ==
    ASSUME TypeOK, \/ Publish \/ Receive \/ CloseRooms \/ ClosePubSub \/ StopRun
                   \/ \E c \in Clients : Send(c) \/ CloseClient(c)
    PROVE  TypeOK'
<1>0. 0 \in Versions
  BY DEF Versions
<1>1. CASE Publish
  <2>1. version' \in Versions /\ failures' \in 0 .. MaxFailures
    <3>1. version \in 0 .. MaxVersion /\ failures \in 0 .. MaxFailures
      BY DEF TypeOK, Versions
    <3>2. version' \in 0 .. MaxVersion
      BY <1>1, <3>1 DEF Publish
    <3>3. failures' = failures \/ (failures < MaxFailures /\ failures' = failures + 1)
      BY <1>1 DEF Publish, RedisMayFail
    <3> QED BY <3>1, <3>2, <3>3 DEF Versions
  <2>2. inbox' \in Seq(Versions) /\ missed' \subseteq Versions
    <3>1. CASE inbox' = Append(inbox, version') /\ UNCHANGED missed
      BY <2>1, <3>1 DEF TypeOK
    <3>2. CASE missed' = missed \cup {version'} /\ UNCHANGED inbox
      BY <2>1, <3>2 DEF TypeOK
    <3> QED BY <1>1, <3>1, <3>2 DEF Publish
  <2> QED BY <1>1, <2>1, <2>2 DEF Publish, TypeOK, hubVars, clientVars
<1>2. CASE Receive
  <2>1. Head(inbox) \in Versions /\ Tail(inbox) \in Seq(Versions)
    BY <1>2 DEF Receive, TypeOK
  <2> QED BY <1>2, <2>1 DEF Receive, TypeOK, clientVars
<1>3. CASE CloseRooms \/ ClosePubSub \/ StopRun
  BY <1>3 DEF CloseRooms, ClosePubSub, StopRun, TypeOK, pubsubVars, clientVars
<1>4. ASSUME NEW c \in Clients, Send(c) PROVE TypeOK'
  <2>1. batch.version \in Versions /\ Enqueue(c, batch.version)
    BY <1>4 DEF Send, TypeOK
  <2>2. batch' \in [left : SUBSET Clients, version : Versions]
    BY <1>4 DEF Send, TypeOK
  <2> QED BY <1>4, <2>1, <2>2, EnqueueType DEF Send, TypeOK, pubsubVars
<1>5. ASSUME NEW c \in Clients, CloseClient(c) PROVE TypeOK'
  BY <1>5 DEF CloseClient, TypeOK, pubsubVars
<1> QED BY <1>1, <1>2, <1>3, <1>4, <1>5

\* What the goroutines of a connection do keeps the types.
LEMMA ConnectionType ==
    ASSUME TypeOK, NEW c \in Clients,
           Register(c) \/ Serve(c) \/ PeerGone(c) \/ Write(c) \/ WriteClose(c)
    PROVE  TypeOK'
<1>1. CASE Register(c) \/ Rollback(c) \/ Leave(c)
  <2>1. since' \in [Clients -> Versions]
    BY <1>1 DEF Register, Rollback, Leave, TypeOK
  <2> QED BY <1>1, <2>1
          DEF Register, Rollback, Leave, LeaveRoom, Goto, TypeOK, Places, pubsubVars
<1>2. CASE Subscribe(c) \/ Unsubscribe(c)
  <2>1. failures' \in 0 .. MaxFailures
    <3>1. failures' = failures \/ (failures < MaxFailures /\ failures' = failures + 1)
      BY <1>2 DEF Subscribe, Unsubscribe, RedisMayFail
    <3> QED BY <3>1 DEF TypeOK
  <2>2. subscribed' \in BOOLEAN
    BY <1>2 DEF Subscribe, Unsubscribe
  <2>3. \E place \in Places : pc' = [pc EXCEPT ![c] = place]
    BY <1>2 DEF Subscribe, Unsubscribe, Goto, Places
  <2>4. closing' = closing \/ closing' = [closing EXCEPT ![c] = TRUE]
    BY <1>2 DEF Subscribe, Unsubscribe
  <2>5. UNCHANGED <<version, hubVars, inbox, missed, writer, buffer, delivered>>
    BY <1>2 DEF Subscribe, Unsubscribe
  <2>6. pc' \in [Clients -> Places]
    BY <2>3 DEF TypeOK
  <2>7. closing' \in [Clients -> BOOLEAN]
    BY <2>4 DEF TypeOK
  <2> QED BY <2>1, <2>2, <2>5, <2>6, <2>7 DEF TypeOK, hubVars
<1>3. CASE ReadClosed(c) \/ PeerGone(c)
  <2>1. pc' = [pc EXCEPT ![c] = "leaving"] /\ delivered' = [delivered EXCEPT ![c] = <<>>]
    BY <1>3 DEF ReadClosed, PeerGone, StopReading, Goto
  <2>2. UNCHANGED <<version, hubVars, pubsubVars, writer, buffer, closing>>
    BY <1>3 DEF ReadClosed, PeerGone, StopReading
  <2>3. <<>> \in Seq(Versions)
    OBVIOUS
  <2>4. pc' \in [Clients -> Places] /\ delivered' \in [Clients -> Seq(Versions)]
    BY <2>1, <2>3 DEF TypeOK, Places
  <2> QED BY <2>2, <2>4 DEF TypeOK, hubVars, pubsubVars
<1>4. CASE Greet(c)
  <2>1. Snapshot \in Versions
    BY DEF Snapshot, Versions
  <2> QED BY <1>4, <2>1, EnqueueType DEF Greet, Goto, TypeOK, Places, hubVars, pubsubVars
<1>5. CASE Write(c)
  <2>1. /\ buffer[c] \in Seq(Versions) /\ buffer[c] # <<>> /\ Len(buffer[c]) <= SendBuffer
        /\ delivered[c] \in Seq(Versions)
    BY <1>5 DEF Write, TypeOK
  <2>2. /\ Head(buffer[c]) \in Versions /\ Tail(buffer[c]) \in Seq(Versions)
        /\ Len(Tail(buffer[c])) <= SendBuffer
    BY <2>1
  <2>3. Append(delivered[c], Head(buffer[c])) \in Seq(Versions)
    BY <2>1, <2>2
  <2>4. buffer' \in [Clients -> Seq(Versions)] /\ \A d \in Clients : Len(buffer'[d]) <= SendBuffer
    BY <1>5, <2>2 DEF Write, TypeOK
  <2>5. /\ delivered' \in [Clients -> Seq(Versions)]
        /\ writer' \in [Clients -> {"off", "on", "exited"}]
    BY <1>5, <2>3 DEF Write, TypeOK
  <2>6. UNCHANGED <<version, hubVars, pubsubVars, pc, closing>>
    BY <1>5 DEF Write
  <2> QED BY <2>4, <2>5, <2>6 DEF TypeOK, hubVars, pubsubVars
<1>6. CASE WriteClose(c)
  BY <1>6 DEF WriteClose, TypeOK, hubVars, pubsubVars
<1> QED BY <1>1, <1>2, <1>3, <1>4, <1>5, <1>6 DEF Serve

LEMMA InitType == Init => TypeOK
<1> SUFFICES ASSUME Init PROVE TypeOK
  OBVIOUS
<1>1. <<>> \in Seq(Versions) /\ Len(<<>>) = 0 /\ 0 \in Versions
  BY DEF Versions
<1>2. /\ buffer \in [Clients -> Seq(Versions)] /\ delivered \in [Clients -> Seq(Versions)]
      /\ inbox \in Seq(Versions) /\ \A c \in Clients : Len(buffer[c]) <= SendBuffer
  BY <1>1 DEF Init
<1>3. batch \in [left : SUBSET Clients, version : Versions] /\ failures \in 0 .. MaxFailures
  BY <1>1 DEF Init
<1> QED BY <1>1, <1>2, <1>3 DEF Init, TypeOK, Places

LEMMA NextType ==
    ASSUME TypeOK, [Next]_vars
    PROVE  TypeOK'
<1>1. CASE UNCHANGED vars
  BY <1>1 DEF TypeOK, vars
<1> QED BY <1>1, HubType, ConnectionType DEF Next

\* Every variable keeps its type, and no send channel holds more than its capacity.
THEOREM TypeCorrect == Spec => []TypeOK
<1>1. TypeOK /\ [Next]_vars => TypeOK'
  BY NextType
<1> QED BY InitType, <1>1, PTL DEF Spec

----------------------------------------------------------------------------
(* Rooms and subscriptions                                                 *)

LEMMA InitNoGhosts == Init => NoGhostsInTheRoom
  BY InitType DEF Init, NoGhostsInTheRoom

LEMMA NextNoGhosts ==
    ASSUME NoGhostsInTheRoom, [Next]_vars
    PROVE  NoGhostsInTheRoom'
<1> DEFINE Gone == {"idle", "undo", "unsubscribe", "ended"}
<1>1. TypeOK /\ TypeOK'
  BY NextType DEF NoGhostsInTheRoom
<1>2. SUFFICES ASSUME NEW d \in room' PROVE pc'[d] \notin Gone
  BY <1>1 DEF NoGhostsInTheRoom
<1>3. d \in Clients
  BY <1>1, <1>2 DEF TypeOK
<1>4. ASSUME NEW c \in Clients, Register(c) PROVE pc'[d] \notin Gone
  BY <1>1, <1>2, <1>3, <1>4 DEF Register, Goto, NoGhostsInTheRoom, TypeOK
<1>5. ASSUME NEW c \in Clients, Rollback(c) \/ Leave(c) PROVE pc'[d] \notin Gone
  BY <1>1, <1>2, <1>3, <1>5 DEF Rollback, Leave, LeaveRoom, Goto, NoGhostsInTheRoom, TypeOK
<1>6. ASSUME NEW c \in Clients, Subscribe(c) \/ Unsubscribe(c) PROVE pc'[d] \notin Gone
  BY <1>1, <1>2, <1>3, <1>6 DEF Subscribe, Unsubscribe, Goto, NoGhostsInTheRoom, TypeOK, hubVars
<1>7. ASSUME NEW c \in Clients, Greet(c) \/ ReadClosed(c) \/ PeerGone(c)
      PROVE  pc'[d] \notin Gone
  BY <1>1, <1>2, <1>3, <1>7
     DEF Greet, ReadClosed, PeerGone, StopReading, Goto, NoGhostsInTheRoom, TypeOK, hubVars
<1>8. ASSUME room' \subseteq room, pc' = pc PROVE pc'[d] \notin Gone
  BY <1>2, <1>8 DEF NoGhostsInTheRoom
<1>9. ASSUME NEW c \in Clients, Write(c) \/ WriteClose(c) \/ Send(c) \/ CloseClient(c)
      PROVE  pc'[d] \notin Gone
  BY <1>8, <1>9 DEF Write, WriteClose, Send, CloseClient, hubVars
<1>10. CASE Publish \/ Receive \/ CloseRooms \/ ClosePubSub \/ StopRun \/ UNCHANGED vars
  BY <1>8, <1>10
     DEF Publish, Receive, CloseRooms, ClosePubSub, StopRun, hubVars, clientVars, vars
<1> QED BY <1>4, <1>5, <1>6, <1>7, <1>9, <1>10 DEF Next, Serve

\* However joins, leaves, failing Subscribe calls and Close interleave, every connection
\* in a room still has its Leave ahead of it (hub.go Join, Leave).
THEOREM NoGhostsRemain == Spec => []NoGhostsInTheRoom
<1>1. NoGhostsInTheRoom /\ [Next]_vars => NoGhostsInTheRoom'
  BY NextNoGhosts
<1> QED BY InitNoGhosts, <1>1, PTL DEF Spec

\* Where a connection that has joined is until its Leave.
Joined == {"subscribe", "greet", "rollback", "reading", "leaving"}

\* Until Close swaps the rooms, who has joined is in the room, and an empty room that is
\* still subscribed has somebody on the way to unsubscribe it; after Close nothing is
\* subscribed.
SubscriptionInv ==
    /\ shutdown = "closed" => ~subscribed
    /\ shutdown = "no" =>
         /\ \A c \in Clients : pc[c] \in Joined => c \in room
         /\ subscribed /\ room = {} => \E c \in Clients : pc[c] \in {"undo", "unsubscribe"}

LEMMA InitSubscription == Init => SubscriptionInv
  BY DEF Init, SubscriptionInv, Joined

LEMMA NextSubscription ==
    ASSUME NoGhostsInTheRoom, SubscriptionInv, [Next]_vars
    PROVE  SubscriptionInv'
<1> DEFINE Leaving == \E c \in Clients : pc[c] \in {"undo", "unsubscribe"}
<1>1. TypeOK
  BY DEF NoGhostsInTheRoom
<1>2. ASSUME NEW c \in Clients, Register(c) PROVE SubscriptionInv'
  BY <1>1, <1>2 DEF Register, Goto, SubscriptionInv, TypeOK, Joined, pubsubVars
<1>3. ASSUME NEW c \in Clients, Rollback(c) \/ Leave(c) PROVE SubscriptionInv'
  <2>1. /\ pc[c] \in {"rollback", "leaving"} /\ room' = room \ {c}
        /\ pc' = [pc EXCEPT ![c] = pc'[c]]
        /\ pc'[c] \in {"undo", "unsubscribe", "ended"}
        /\ room # {} /\ room' = {} => pc'[c] \in {"undo", "unsubscribe"}
        /\ UNCHANGED <<shutdown, subscribed>>
    BY <1>1, <1>3 DEF Rollback, Leave, LeaveRoom, Goto, TypeOK, pubsubVars
  <2>2. ASSUME shutdown = "no", NEW d \in Clients, pc'[d] \in Joined PROVE d \in room'
    BY <1>1, <2>1, <2>2 DEF SubscriptionInv, TypeOK, Joined
  <2>3. ASSUME shutdown = "no", subscribed, room' = {} PROVE Leaving'
    <3>1. CASE room = {}
      <4>1. PICK d \in Clients : pc[d] \in {"undo", "unsubscribe"}
        BY <2>3, <3>1 DEF SubscriptionInv
      <4> QED BY <1>1, <2>1, <4>1 DEF TypeOK
    <3>2. CASE room # {}
      BY <2>1, <2>3, <3>2
    <3> QED BY <3>1, <3>2
  <2> QED BY <2>1, <2>2, <2>3 DEF SubscriptionInv
<1>4. ASSUME NEW c \in Clients, Subscribe(c) PROVE SubscriptionInv'
  <2>1. /\ pc[c] = "subscribe" /\ pc' = [pc EXCEPT ![c] = pc'[c]] /\ pc'[c] \in Joined
        /\ UNCHANGED <<room, shutdown>> /\ (shutdown = "closed" => ~subscribed')
    BY <1>1, <1>4 DEF Subscribe, Goto, TypeOK, Joined, hubVars
  <2>2. shutdown = "no" => c \in room
    BY <2>1 DEF SubscriptionInv, Joined
  <2> QED BY <1>1, <2>1, <2>2 DEF SubscriptionInv, TypeOK
<1>5. ASSUME NEW c \in Clients, Unsubscribe(c) PROVE SubscriptionInv'
  BY <1>1, <1>5 DEF Unsubscribe, Goto, SubscriptionInv, TypeOK, Joined, hubVars
<1>6. ASSUME NEW c \in Clients, Greet(c) \/ ReadClosed(c) \/ PeerGone(c)
      PROVE  SubscriptionInv'
  <2>1. /\ pc[c] \in {"greet", "reading"} /\ pc' = [pc EXCEPT ![c] = pc'[c]]
        /\ pc'[c] \in Joined /\ UNCHANGED <<room, shutdown, subscribed>>
    BY <1>1, <1>6
       DEF Greet, ReadClosed, PeerGone, StopReading, Goto, TypeOK, Joined, hubVars, pubsubVars
  <2> QED BY <1>1, <2>1 DEF SubscriptionInv, TypeOK, Joined
<1>7. ASSUME UNCHANGED <<room, shutdown, subscribed, pc>> PROVE SubscriptionInv'
  BY <1>7 DEF SubscriptionInv
<1>8. ASSUME NEW c \in Clients, Write(c) \/ WriteClose(c) \/ Send(c) \/ CloseClient(c)
      PROVE  SubscriptionInv'
  BY <1>7, <1>8 DEF Write, WriteClose, Send, CloseClient, hubVars, pubsubVars
<1>9. CASE Publish \/ Receive \/ StopRun \/ UNCHANGED vars
  BY <1>7, <1>9 DEF Publish, Receive, StopRun, hubVars, pubsubVars, clientVars, vars
<1>10. CASE CloseRooms \/ ClosePubSub
  BY <1>10 DEF CloseRooms, ClosePubSub, SubscriptionInv
<1> QED BY <1>2, <1>3, <1>4, <1>5, <1>6, <1>8, <1>9, <1>10 DEF Next, Serve

\* Every interleaving of joins and leaves that leaves a poll without viewers leaves its
\* channel unsubscribed (hub.go:135-138).
THEOREM IdleRoomsUnsubscribe == Spec => []NoIdleSubscription
<1> DEFINE Inv == NoGhostsInTheRoom /\ SubscriptionInv
<1>1. Init => Inv
  BY InitNoGhosts, InitSubscription
<1>2. Inv /\ [Next]_vars => Inv'
  BY NextNoGhosts, NextSubscription
<1>3. Inv => NoIdleSubscription
  BY DEF NoGhostsInTheRoom, TypeOK, SubscriptionInv, NoIdleSubscription, Still
<1> QED BY <1>1, <1>2, <1>3, PTL DEF Spec

----------------------------------------------------------------------------
(* The feed of a browser                                                   *)

\* What Run still has to take is newer than what it took, in order and complete but for
\* what never arrived.
QueueInv ==
    /\ \A i \in DOMAIN inbox : batch.version < inbox[i] /\ inbox[i] <= version
    /\ \A i, j \in DOMAIN inbox : i < j => inbox[i] < inbox[j]
    /\ batch.version <= version
    /\ \A v \in 1 .. version :
          v <= batch.version \/ v \in missed \/ \E i \in DOMAIN inbox : inbox[i] = v

LEMMA NextQueue ==
    ASSUME TypeOK, QueueInv, [Next]_vars
    PROVE  QueueInv'
<1>1. CASE Publish
  <2>1. /\ version \in Nat /\ version' = version + 1 /\ batch' = batch
        /\ inbox \in Seq(Versions) /\ batch.version \in Nat
    BY <1>1 DEF Publish, TypeOK, Versions, hubVars
  <2>2. TypeOK'
    BY NextType
  <2>3. CASE inbox' = Append(inbox, version') /\ missed' = missed
    <3>1. /\ inbox' \in Seq(Versions) /\ DOMAIN inbox' = 1 .. Len(inbox) + 1
          /\ inbox'[Len(inbox) + 1] = version + 1
          /\ \A i \in DOMAIN inbox : i \in 1 .. Len(inbox) /\ inbox'[i] = inbox[i]
          /\ Len(inbox) \in Nat /\ DOMAIN inbox = 1 .. Len(inbox)
      BY <2>1, <2>2, <2>3, AppendProperties, LenProperties DEF TypeOK
    <3>2. \A i \in DOMAIN inbox : inbox[i] \in Nat
      BY <2>1, <3>1 DEF Versions
    <3>3. \A i \in DOMAIN inbox' : batch'.version < inbox'[i] /\ inbox'[i] <= version'
      BY <2>1, <3>1, <3>2 DEF QueueInv
    <3>4. \A i, j \in DOMAIN inbox' : i < j => inbox'[i] < inbox'[j]
      BY <2>1, <3>1, <3>2 DEF QueueInv
    <3>5. ASSUME NEW v \in 1 .. version'
          PROVE  v <= batch'.version \/ v \in missed' \/ \E i \in DOMAIN inbox' : inbox'[i] = v
      <4>1. CASE v = version + 1
        BY <3>1, <4>1
      <4>2. CASE v \in 1 .. version
        BY <2>1, <2>3, <3>1, <4>2 DEF QueueInv
      <4> QED BY <2>1, <3>5, <4>1, <4>2
    <3> QED BY <2>1, <3>3, <3>4, <3>5 DEF QueueInv
  <2>4. CASE missed' = missed \cup {version'} /\ inbox' = inbox
    <3>1. \A i \in DOMAIN inbox : inbox[i] \in Nat
      BY <2>1 DEF Versions
    <3> QED BY <2>1, <2>4, <3>1 DEF QueueInv
  <2> QED BY <1>1, <2>3, <2>4 DEF Publish
<1>2. CASE Receive
  <2>1. /\ inbox \in Seq(Versions) /\ inbox # <<>> /\ inbox' = Tail(inbox)
        /\ batch'.version = Head(inbox) /\ UNCHANGED <<version, missed>>
        /\ version \in Nat /\ batch.version \in Nat
    BY <1>2 DEF Receive, TypeOK, Versions
  <2>2. /\ Head(inbox) = inbox[1] /\ Len(inbox) \in Nat /\ Len(inbox) >= 1
        /\ DOMAIN inbox = 1 .. Len(inbox) /\ DOMAIN inbox' = 1 .. Len(inbox) - 1
        /\ \A i \in 1 .. Len(inbox) - 1 : inbox'[i] = inbox[i + 1]
        /\ \A i \in 1 .. Len(inbox) : inbox[i] \in Nat
    BY <2>1, HeadTailProperties, LenProperties DEF Versions
  <2>3. ASSUME NEW v \in 1 .. version
        PROVE  v <= batch'.version \/ v \in missed' \/ \E i \in DOMAIN inbox' : inbox'[i] = v
    <3>1. CASE v <= batch.version \/ v \in missed
      BY <2>1, <2>2, <2>3, <3>1 DEF QueueInv
    <3>2. CASE \E i \in DOMAIN inbox : inbox[i] = v
      <4>1. PICK i \in 1 .. Len(inbox) : inbox[i] = v
        BY <2>2, <3>2
      <4>2. CASE i = 1
        BY <2>1, <2>2, <4>1, <4>2
      <4>3. CASE i # 1
        <5>1. i - 1 \in DOMAIN inbox' /\ inbox'[i - 1] = v
          BY <2>2, <4>1, <4>3
        <5> QED BY <5>1
      <4> QED BY <4>2, <4>3
    <3> QED BY <2>3, <3>1, <3>2 DEF QueueInv
  <2>4. \A i \in DOMAIN inbox' : batch'.version < inbox'[i] /\ inbox'[i] <= version'
    BY <2>1, <2>2 DEF QueueInv
  <2>5. \A i, j \in DOMAIN inbox' : i < j => inbox'[i] < inbox'[j]
    BY <2>1, <2>2 DEF QueueInv
  <2>6. batch'.version <= version'
    BY <2>1, <2>2 DEF QueueInv
  <2> QED BY <2>1, <2>3, <2>4, <2>5, <2>6 DEF QueueInv
<1>3. ASSUME UNCHANGED <<inbox, missed, version>>, batch'.version = batch.version
      PROVE  QueueInv'
  BY <1>3 DEF QueueInv
<1>4. ASSUME NEW c \in Clients, Send(c) PROVE QueueInv'
  BY <1>3, <1>4 DEF Send, TypeOK, pubsubVars
<1>5. ASSUME NEW c \in Clients, Register(c) \/ Serve(c) \/ PeerGone(c) PROVE QueueInv'
  BY <1>3, <1>5 DEF Register, Serve, Subscribe, Rollback, Greet, ReadClosed, Leave,
       Unsubscribe, PeerGone, StopReading, LeaveRoom, hubVars, pubsubVars
<1>6. ASSUME NEW c \in Clients, Write(c) \/ WriteClose(c) \/ CloseClient(c) PROVE QueueInv'
  BY <1>3, <1>6 DEF Write, WriteClose, CloseClient, hubVars, pubsubVars
<1>7. CASE CloseRooms \/ ClosePubSub \/ StopRun \/ UNCHANGED vars
  BY <1>3, <1>7 DEF CloseRooms, ClosePubSub, StopRun, pubsubVars, vars
<1> QED BY <1>1, <1>2, <1>4, <1>5, <1>6, <1>7 DEF Next

\* A connection that has not joined was sent nothing, is sent nothing and is not closed,
\* only one that is read from has a browser, and one that has started its pumps no longer
\* goes through Join.
LifeInv ==
    \A c \in Clients :
        /\ pc[c] = "idle" => /\ c \notin batch.left /\ c \notin evicted /\ ~closing[c]
                             /\ buffer[c] = <<>>
        /\ pc[c] # "reading" => delivered[c] = <<>>
        /\ writer[c] # "off" => pc[c] \in {"reading", "leaving", "unsubscribe", "ended"}

LEMMA NextLife ==
    ASSUME NoGhostsInTheRoom, LifeInv, [Next]_vars
    PROVE  LifeInv'
<1>1. TypeOK
  BY DEF NoGhostsInTheRoom
<1>2. ASSUME NEW c \in Clients, Register(c) \/ Rollback(c) \/ Leave(c) PROVE LifeInv'
  BY <1>1, <1>2 DEF Register, Rollback, Leave, LeaveRoom, Goto, LifeInv, TypeOK
<1>3. ASSUME NEW c \in Clients, Subscribe(c) \/ Unsubscribe(c) PROVE LifeInv'
  BY <1>1, <1>3 DEF Subscribe, Unsubscribe, Goto, LifeInv, TypeOK, hubVars
<1>4. ASSUME NEW c \in Clients, ReadClosed(c) \/ PeerGone(c) PROVE LifeInv'
  BY <1>1, <1>4 DEF ReadClosed, PeerGone, StopReading, Goto, LifeInv, TypeOK, hubVars
<1>5. ASSUME NEW c \in Clients, Greet(c) PROVE LifeInv'
  BY <1>1, <1>5 DEF Greet, Enqueue, Goto, LifeInv, TypeOK, hubVars
<1>6. ASSUME NEW c \in Clients, Write(c) PROVE LifeInv'
  BY <1>1, <1>6 DEF Write, LifeInv, TypeOK, hubVars
<1>7. ASSUME NEW c \in Clients, WriteClose(c) \/ CloseClient(c) PROVE LifeInv'
  BY <1>1, <1>7 DEF WriteClose, CloseClient, LifeInv, TypeOK, hubVars
<1>8. ASSUME NEW c \in Clients, Send(c) PROVE LifeInv'
  BY <1>1, <1>8 DEF Send, Enqueue, LifeInv, TypeOK
<1>9. CASE Receive
  BY <1>1, <1>9 DEF Receive, LifeInv, NoGhostsInTheRoom, clientVars
<1>10. CASE CloseRooms
  BY <1>10 DEF CloseRooms, LifeInv, NoGhostsInTheRoom, clientVars
<1>11. CASE Publish \/ ClosePubSub \/ StopRun \/ UNCHANGED vars
  BY <1>11 DEF Publish, ClosePubSub, StopRun, LifeInv, hubVars, clientVars, vars
<1> QED BY <1>2, <1>3, <1>4, <1>5, <1>6, <1>7, <1>8, <1>9, <1>10, <1>11 DEF Next, Serve

\* The events of a feed come in the order of their versions, and among them is at most
\* one snapshot, anywhere.
Ascending(s) ==
    \A i, j \in DOMAIN s : i < j => s[i] < s[j] \/ (s[j] = Snapshot /\ s[i] # Snapshot)

\* dispatch is done with version v as far as c is concerned.
Handed(c, v) == v <= batch.version /\ (c \in batch.left => v < batch.version)

\* A browser is sent events in order, none from before it joined and none before dispatch
\* handed it out, and no snapshot before Greet ...
OrderOf(c) ==
    /\ Ascending(FeedOf(c))
    /\ \A v \in Versions :
          Holds(FeedOf(c), v) /\ v # Snapshot => since[c] < v /\ Handed(c, v)
    /\ since[c] <= batch.version /\ (c \in batch.left => since[c] < batch.version)
    /\ pc[c] \in {"subscribe", "greet"} => ~Holds(FeedOf(c), Snapshot)

\* ... and, while its connection works, every one that arrived since it joined.
GapOf(c) ==
    Works(c) => \A v \in Versions :
        since[c] < v /\ Handed(c, v) => v \in missed \/ Holds(FeedOf(c), v)

FeedInv == \A c \in Clients : OrderOf(c) /\ GapOf(c)

\* Appending a message to a feed.
LEMMA AppendedFeed ==
    ASSUME NEW s \in Seq(Versions), NEW m \in Versions, Ascending(s),
           IF m = Snapshot THEN ~Holds(s, Snapshot)
                           ELSE \A i \in DOMAIN s : s[i] # Snapshot => s[i] < m
    PROVE  /\ Ascending(Append(s, m))
           /\ \A v \in Versions : Holds(Append(s, m), v) <=> Holds(s, v) \/ v = m
<1>1. /\ Len(s) \in Nat /\ DOMAIN s = 1 .. Len(s) /\ DOMAIN Append(s, m) = 1 .. Len(s) + 1
      /\ \A i \in 1 .. Len(s) : Append(s, m)[i] = s[i]
      /\ Append(s, m)[Len(s) + 1] = m
  BY AppendProperties, LenProperties
<1>2. Ascending(Append(s, m))
  <2> SUFFICES ASSUME NEW i \in 1 .. Len(s) + 1, NEW j \in 1 .. Len(s) + 1, i < j
               PROVE  \/ Append(s, m)[i] < Append(s, m)[j]
                      \/ Append(s, m)[j] = Snapshot /\ Append(s, m)[i] # Snapshot
    BY <1>1 DEF Ascending
  <2>1. i \in 1 .. Len(s) /\ Append(s, m)[i] = s[i]
    BY <1>1
  <2>2. CASE j = Len(s) + 1
    <3>1. CASE m = Snapshot
      BY <1>1, <2>1, <2>2, <3>1 DEF Holds
    <3>2. CASE m # Snapshot
      <4>1. m > 0 /\ Snapshot = 0
        BY <3>2 DEF Snapshot, Versions
      <4> QED BY <1>1, <2>1, <2>2, <3>2, <4>1
    <3> QED BY <3>1, <3>2
  <2>3. CASE j \in 1 .. Len(s)
    BY <1>1, <2>1, <2>3 DEF Ascending
  <2> QED BY <1>1, <2>2, <2>3
<1>3. ASSUME NEW v \in Versions
      PROVE  Holds(Append(s, m), v) <=> Holds(s, v) \/ v = m
  <2>1. Holds(s, v) => Holds(Append(s, m), v)
    BY <1>1 DEF Holds
  <2>2. v = m => Holds(Append(s, m), v)
    BY <1>1 DEF Holds
  <2>3. Holds(Append(s, m), v) => Holds(s, v) \/ v = m
    BY <1>1 DEF Holds
  <2> QED BY <2>1, <2>2, <2>3
<1> QED BY <1>2, <1>3

\* Taking k messages out of a feed, after the first n.
LEMMA ThinnedFeed ==
    ASSUME NEW s \in Seq(Versions), NEW t \in Seq(Versions), NEW n \in Nat, NEW k \in Nat,
           Len(s) = Len(t) + k, Ascending(s),
           \A i \in 1 .. Len(t) : t[i] = IF i <= n THEN s[i] ELSE s[i + k]
    PROVE  Ascending(t) /\ \A v \in Versions : Holds(t, v) => Holds(s, v)
<1> DEFINE at(i) == IF i <= n THEN i ELSE i + k
<1>1. /\ Len(t) \in Nat /\ DOMAIN t = 1 .. Len(t) /\ DOMAIN s = 1 .. Len(t) + k
      /\ \A i \in 1 .. Len(t) : at(i) \in DOMAIN s /\ t[i] = s[at(i)]
      /\ \A i, j \in 1 .. Len(t) : i < j => at(i) < at(j)
  BY LenProperties
<1> HIDE DEF at
<1> QED BY <1>1 DEF Ascending, Holds

LEMMA FeedType ==
    ASSUME TypeOK, NEW d \in Clients
    PROVE  /\ delivered[d] \in Seq(Versions) /\ buffer[d] \in Seq(Versions)
           /\ FeedOf(d) \in Seq(Versions)
  BY ConcatProperties DEF TypeOK, FeedOf

\* Moving the first message of a queue to the end of what was written.
LEMMA MovedAlong ==
    ASSUME NEW s \in Seq(Versions), NEW t \in Seq(Versions), t # <<>>
    PROVE  Append(s, Head(t)) \o Tail(t) = s \o t
<1>1. s \o t \in Seq(Versions)
  BY ConcatProperties
<1> QED BY <1>1

\* Taking it out of the queue only.
LEMMA ShorterFeed ==
    ASSUME NEW s \in Seq(Versions), NEW t \in Seq(Versions), t # <<>>, Ascending(s \o t)
    PROVE  /\ Ascending(s \o Tail(t))
           /\ \A v \in Versions : Holds(s \o Tail(t), v) => Holds(s \o t, v)
<1>1. /\ s \o t \in Seq(Versions) /\ Tail(t) \in Seq(Versions) /\ s \o Tail(t) \in Seq(Versions)
      /\ Len(s) \in Nat /\ Len(t) \in Nat /\ Len(Tail(t)) = Len(t) - 1
      /\ \A i \in 1 .. Len(t) - 1 : Tail(t)[i] = t[i + 1]
      /\ Len(s \o t) = Len(s) + Len(t) /\ Len(s \o Tail(t)) = Len(s) + Len(t) - 1
  BY ConcatProperties, HeadTailProperties, LenProperties
<1>2. \A i \in 1 .. Len(s) + Len(t) :
          (s \o t)[i] = IF i <= Len(s) THEN s[i] ELSE t[i - Len(s)]
  BY ConcatProperties
<1>3. \A i \in 1 .. Len(s) + Len(t) - 1 :
          (s \o Tail(t))[i] = IF i <= Len(s) THEN s[i] ELSE t[i - Len(s) + 1]
  BY <1>1, ConcatProperties
<1>4. \A i \in 1 .. Len(s \o Tail(t)) :
          (s \o Tail(t))[i] = IF i <= Len(s) THEN (s \o t)[i] ELSE (s \o t)[i + 1]
  BY <1>1, <1>2, <1>3
<1>5. Len(s \o t) = Len(s \o Tail(t)) + 1
  BY <1>1
<1> QED BY <1>1, <1>4, <1>5, ThinnedFeed

\* Forgetting what was written.
LEMMA QueueOfFeed ==
    ASSUME NEW s \in Seq(Versions), NEW t \in Seq(Versions), Ascending(s \o t)
    PROVE  Ascending(t) /\ \A v \in Versions : Holds(t, v) => Holds(s \o t, v)
<1>1. /\ s \o t \in Seq(Versions) /\ Len(s) \in Nat /\ Len(t) \in Nat
      /\ Len(s \o t) = Len(t) + Len(s)
      /\ \A i \in 1 .. Len(t) : t[i] = IF i <= 0 THEN (s \o t)[i] ELSE (s \o t)[i + Len(s)]
  BY ConcatProperties, LenProperties
<1> QED BY <1>1, ThinnedFeed

LEMMA AppendToConcat ==
    ASSUME NEW s \in Seq(Versions), NEW t \in Seq(Versions), NEW m \in Versions
    PROVE  s \o Append(t, m) = Append(s \o t, m)
  OBVIOUS

\* A message queued for a connection is the last one of its feed.
LEMMA QueuedFeed ==
    ASSUME TypeOK, NEW d \in Clients, NEW m \in Versions, delivered' = delivered,
           buffer' = [buffer EXCEPT ![d] = Append(@, m)]
    PROVE  FeedOf(d)' = Append(FeedOf(d), m)
<1>1. FeedOf(d)' = delivered[d] \o Append(buffer[d], m)
  BY DEF FeedOf, TypeOK
<1> QED BY <1>1, AppendToConcat, FeedType DEF FeedOf

\* What a client joined after stays what it was, and nobody comes back to Serve.
LEMMA SinceStays ==
    ASSUME TypeOK, [Next]_vars, NEW d \in Clients, ~Register(d)
    PROVE  /\ since'[d] = since[d]
           /\ pc'[d] \in {"subscribe", "greet"} => pc[d] \in {"subscribe", "greet"}
<1> DEFINE Goal == /\ since'[d] = since[d]
                   /\ pc'[d] \in {"subscribe", "greet"} => pc[d] \in {"subscribe", "greet"}
<1>1. ASSUME NEW c \in Clients, Register(c) PROVE Goal
  BY <1>1 DEF Register, Goto, TypeOK
<1>2. ASSUME UNCHANGED <<since, pc>> PROVE Goal
  BY <1>2
<1>3. ASSUME NEW c \in Clients, Serve(c) \/ PeerGone(c) PROVE Goal
  <2>1. /\ since' = since /\ \A e \in Clients \ {c} : pc'[e] = pc[e]
        /\ pc'[c] \in {"subscribe", "greet"} => pc[c] = "subscribe"
    BY <1>3 DEF Serve, Subscribe, Rollback, Greet, ReadClosed, PeerGone, StopReading,
         Leave, Unsubscribe, LeaveRoom, Goto, TypeOK, hubVars
  <2> QED BY <2>1
<1>4. ASSUME NEW c \in Clients, Write(c) \/ WriteClose(c) \/ Send(c) \/ CloseClient(c)
      PROVE  Goal
  BY <1>2, <1>4 DEF Write, WriteClose, Send, CloseClient, hubVars
<1>5. CASE Publish \/ Receive \/ CloseRooms \/ ClosePubSub \/ StopRun \/ UNCHANGED vars
  BY <1>2, <1>5 DEF Publish, Receive, CloseRooms, ClosePubSub, StopRun, hubVars, clientVars,
       vars
<1> QED BY <1>1, <1>3, <1>4, <1>5 DEF Next

\* A connection works after a step only if it did before, or has just joined.
LEMMA WorksBefore ==
    ASSUME NoGhostsInTheRoom, LifeInv, [Next]_vars, NEW d \in Clients, ~Register(d), Works(d)'
    PROVE  Works(d)
<1>1. TypeOK
  BY DEF NoGhostsInTheRoom
<1>2. ASSUME NEW c \in Clients, Register(c) PROVE Works(d)
  BY <1>1, <1>2 DEF Register, Goto, Works, TypeOK
<1>3. ASSUME NEW c \in Clients, Rollback(c) \/ Leave(c) PROVE Works(d)
  BY <1>1, <1>3 DEF Rollback, Leave, LeaveRoom, Goto, Works, TypeOK
<1>4. ASSUME NEW c \in Clients, Subscribe(c) \/ Unsubscribe(c) PROVE Works(d)
  <2>1. c \in room => pc[c] \notin {"unsubscribe", "undo"}
    BY DEF NoGhostsInTheRoom
  <2>2. CASE Subscribe(c)
    BY <1>1, <2>2 DEF Subscribe, Goto, Works, TypeOK, hubVars
  <2>3. CASE Unsubscribe(c)
    BY <1>1, <2>1, <2>3 DEF Unsubscribe, Goto, Works, TypeOK, hubVars
  <2> QED BY <1>4, <2>2, <2>3
<1>5. ASSUME NEW c \in Clients, ReadClosed(c) \/ PeerGone(c) PROVE Works(d)
  BY <1>1, <1>5 DEF ReadClosed, PeerGone, StopReading, Goto, Works, TypeOK, hubVars
<1>6. ASSUME NEW c \in Clients, Greet(c) PROVE Works(d)
  BY <1>1, <1>6 DEF Greet, Enqueue, Goto, Works, LifeInv, TypeOK, hubVars
<1>7. ASSUME NEW c \in Clients, Write(c) \/ WriteClose(c) \/ CloseClient(c) PROVE Works(d)
  BY <1>1, <1>7 DEF Write, WriteClose, CloseClient, Works, TypeOK, hubVars
<1>8. ASSUME NEW c \in Clients, Send(c) PROVE Works(d)
  BY <1>1, <1>8 DEF Send, Enqueue, Works, TypeOK
<1>9. CASE Publish \/ Receive \/ CloseRooms \/ ClosePubSub \/ StopRun \/ UNCHANGED vars
  BY <1>9 DEF Publish, Receive, CloseRooms, ClosePubSub, StopRun, Works, hubVars,
       clientVars, vars
<1> QED BY <1>2, <1>3, <1>4, <1>5, <1>6, <1>7, <1>8, <1>9 DEF Next, Serve

\* A step that gives the connection nothing, or takes messages out of the feed of one
\* that does not work.
LEMMA FeedShrinks ==
    ASSUME NoGhostsInTheRoom, LifeInv, [Next]_vars, NEW d \in Clients, OrderOf(d), GapOf(d),
           ~Register(d),
           batch'.version = batch.version, d \in batch'.left <=> d \in batch.left,
           missed \subseteq missed', Ascending(FeedOf(d)'),
           \A v \in Versions :
              Holds(FeedOf(d), v)' => Holds(FeedOf(d), v) \/ (v = Snapshot /\ pc'[d] = "reading"),
           Works(d)' => \A v \in Versions : Holds(FeedOf(d), v) => Holds(FeedOf(d), v)'
    PROVE  OrderOf(d)' /\ GapOf(d)'
<1>1. /\ since'[d] = since[d] /\ Snapshot \in Versions
      /\ pc'[d] \in {"subscribe", "greet"} => pc[d] \in {"subscribe", "greet"}
  BY SinceStays DEF NoGhostsInTheRoom, Snapshot, Versions
<1>2. OrderOf(d)'
  BY <1>1 DEF OrderOf, Handed
<1>3. ASSUME Works(d)', NEW v \in Versions, since'[d] < v, Handed(d, v)'
      PROVE  v \in missed' \/ Holds(FeedOf(d), v)'
  <2>1. Works(d)
    BY <1>3, WorksBefore
  <2>2. since[d] < v /\ Handed(d, v)
    BY <1>1, <1>3 DEF Handed
  <2>3. v \in missed \/ Holds(FeedOf(d), v)
    BY <2>1, <2>2 DEF GapOf
  <2> QED BY <1>3, <2>3
<1> QED BY <1>2, <1>3 DEF GapOf, Versions

LEMMA FeedUntouched ==
    ASSUME NoGhostsInTheRoom, LifeInv, [Next]_vars, NEW d \in Clients, OrderOf(d), GapOf(d),
           ~Register(d),
           batch'.version = batch.version, d \in batch'.left <=> d \in batch.left,
           missed \subseteq missed', delivered'[d] = delivered[d], buffer'[d] = buffer[d]
    PROVE  OrderOf(d)' /\ GapOf(d)'
<1>1. FeedOf(d)' = FeedOf(d)
  BY DEF FeedOf
<1>2. Ascending(FeedOf(d)') /\ \A v \in Versions : Holds(FeedOf(d), v)' <=> Holds(FeedOf(d), v)
  BY <1>1 DEF OrderOf, Holds
<1> QED BY <1>2, FeedShrinks

\* Serve queues the snapshot: the events of the feed are the same.
LEMMA GreetFeed ==
    ASSUME NoGhostsInTheRoom, LifeInv, NEW d \in Clients, OrderOf(d), GapOf(d),
           ~Register(d), NEW c \in Clients, Greet(c)
    PROVE  OrderOf(d)' /\ GapOf(d)'
<1>1. TypeOK /\ [Next]_vars /\ UNCHANGED <<batch, missed, delivered>> /\ Enqueue(c, Snapshot)
  BY DEF NoGhostsInTheRoom, Next, Serve, Greet, hubVars, pubsubVars
<1>2. CASE buffer'[d] = buffer[d]
  BY <1>1, <1>2, FeedUntouched
<1>3. CASE c = d /\ buffer' = [buffer EXCEPT ![d] = Append(@, Snapshot)]
  <2>1. Snapshot \in Versions /\ FeedOf(d) \in Seq(Versions)
    BY <1>1, FeedType DEF Snapshot, Versions
  <2>2. FeedOf(d)' = Append(FeedOf(d), Snapshot) /\ pc'[d] = "reading" /\ pc[d] = "greet"
    BY <1>1, <1>3, <2>1, QueuedFeed DEF Greet, Goto, TypeOK
  <2>3. /\ Ascending(FeedOf(d)')
        /\ \A v \in Versions : Holds(FeedOf(d), v)' <=> Holds(FeedOf(d), v) \/ v = Snapshot
    <3>1. Ascending(FeedOf(d)) /\ ~Holds(FeedOf(d), Snapshot)
      BY <2>2 DEF OrderOf
    <3>2. /\ Ascending(Append(FeedOf(d), Snapshot))
          /\ \A v \in Versions :
                Holds(Append(FeedOf(d), Snapshot), v) <=> Holds(FeedOf(d), v) \/ v = Snapshot
      BY <2>1, <3>1, AppendedFeed
    <3> QED BY <2>2, <3>2 DEF Holds
  <2> QED BY <1>1, <2>2, <2>3, FeedShrinks
<1> QED BY <1>1, <1>2, <1>3 DEF Enqueue, TypeOK

\* dispatch hands the message to a client: it is queued, or the client is being closed.
LEMMA SendFeed ==
    ASSUME NoGhostsInTheRoom, LifeInv, NEW d \in Clients, OrderOf(d), GapOf(d),
           ~Register(d), NEW c \in Clients, Send(c)
    PROVE  OrderOf(d)' /\ GapOf(d)'
<1> DEFINE m == batch.version
<1>1. /\ TypeOK /\ [Next]_vars /\ c \in batch.left /\ Enqueue(c, batch.version)
      /\ UNCHANGED <<missed, delivered, room, pc, writer>>
      /\ batch.version \in Versions /\ batch'.version = batch.version
      /\ batch'.left = batch.left \ {c}
  BY DEF NoGhostsInTheRoom, Next, Send, pubsubVars, TypeOK
<1>0. /\ since'[d] = since[d] /\ since[d] \in Versions /\ (c = d => m # Snapshot)
  BY <1>1, SinceStays DEF TypeOK, OrderOf, Versions, Snapshot
<1>2. CASE c # d
  <2>1. buffer'[d] = buffer[d]
    BY <1>1, <1>2 DEF Enqueue, TypeOK
  <2> QED BY <1>1, <1>2, <2>1, FeedUntouched
<1>3. CASE c = d /\ buffer'[d] = buffer[d]
  <2>1. CASE buffer' = [buffer EXCEPT ![c] = Append(@, batch.version)]
    <3>1. buffer[d] \in Seq(Versions)
      BY <1>1 DEF TypeOK
    <3>2. Len(Append(buffer[d], batch.version)) = Len(buffer[d]) + 1 /\ Len(buffer[d]) \in Nat
      BY <1>1, <3>1, AppendProperties, LenProperties
    <3> QED BY <1>1, <1>3, <2>1, <3>2 DEF TypeOK
  <2>2. CASE closing'[d]
    <3>1. FeedOf(d)' = FeedOf(d)
      BY <1>1, <1>3 DEF FeedOf
    <3>2. OrderOf(d)'
      BY <1>0, <1>1, <1>3, <3>1 DEF OrderOf, Handed, Holds, Versions, TypeOK
    <3> QED BY <2>2, <3>2 DEF GapOf, Works
  <2> QED BY <1>1, <1>3, <2>1, <2>2 DEF Enqueue, TypeOK
<1>4. CASE c = d /\ buffer' = [buffer EXCEPT ![d] = Append(@, batch.version)]
  <2>1. FeedOf(d) \in Seq(Versions) /\ FeedOf(d)' = Append(FeedOf(d), m)
    BY <1>1, <1>4, QueuedFeed, FeedType
  <2>2. \A i \in DOMAIN FeedOf(d) : FeedOf(d)[i] # Snapshot => FeedOf(d)[i] < m
    <3>1. \A i \in DOMAIN FeedOf(d) : FeedOf(d)[i] \in Versions
      BY <2>1
    <3> QED BY <1>1, <1>4, <3>1 DEF OrderOf, Handed, Holds
  <2>3. /\ Ascending(FeedOf(d)')
        /\ \A v \in Versions : Holds(FeedOf(d), v)' <=> Holds(FeedOf(d), v) \/ v = m
    BY <1>0, <1>1, <1>4, <2>1, <2>2, AppendedFeed DEF OrderOf
  <2>4. \A v \in Versions : Handed(d, v)' <=> v <= m
    BY <1>1, <1>4 DEF Handed
  <2>5. OrderOf(d)'
    <3>1. since[d] < m /\ d \notin batch'.left
      BY <1>1, <1>4 DEF OrderOf
    <3>2. ASSUME NEW v \in Versions, Holds(FeedOf(d), v)', v # Snapshot
          PROVE  since[d] < v /\ v <= m
      <4>1. Holds(FeedOf(d), v) \/ v = m
        BY <2>3, <3>2
      <4> QED BY <1>1, <3>1, <3>2, <4>1 DEF OrderOf, Handed, Versions
    <3>3. pc'[d] \in {"subscribe", "greet"} => ~Holds(FeedOf(d), Snapshot)'
      BY <1>0, <1>1, <1>4, <2>3 DEF OrderOf, Snapshot, Versions
    <3> QED BY <1>0, <1>1, <2>3, <2>4, <3>1, <3>2, <3>3 DEF OrderOf, Versions
  <2>6. ASSUME Works(d)', NEW v \in Versions, since'[d] < v, Handed(d, v)'
        PROVE  v \in missed' \/ Holds(FeedOf(d), v)'
    <3>1. CASE v = m
      BY <2>3, <3>1
    <3>2. CASE v # m
      <4>1. v < m
        BY <1>1, <2>4, <2>6, <3>2 DEF Versions
      <4>2. Handed(d, v) /\ since[d] < v
        BY <1>0, <1>1, <2>6, <4>1 DEF Handed, Versions
      <4>3. Works(d)
        BY <1>1, <2>6 DEF Works, Enqueue, TypeOK
      <4>4. v \in missed \/ Holds(FeedOf(d), v)
        BY <2>6, <4>2, <4>3 DEF GapOf
      <4> QED BY <1>1, <2>3, <4>4
    <3> QED BY <3>1, <3>2
  <2> QED BY <2>5, <2>6 DEF GapOf
<1> QED BY <1>1, <1>2, <1>3, <1>4 DEF Enqueue, TypeOK

\* A message is written: it stays in the feed, or the connection is no longer read from
\* and the message is gone.
LEMMA WriteFeed ==
    ASSUME NoGhostsInTheRoom, LifeInv, NEW d \in Clients, OrderOf(d), GapOf(d),
           ~Register(d), NEW c \in Clients, Write(c)
    PROVE  OrderOf(d)' /\ GapOf(d)'
<1>1. /\ TypeOK /\ [Next]_vars /\ writer[c] = "on" /\ buffer[c] # <<>>
      /\ buffer' = [buffer EXCEPT ![c] = Tail(@)]
      /\ UNCHANGED <<batch, missed, room, pc, closing>>
      /\ \/ delivered' = delivered /\ (pc[c] # "reading" \/ writer'[c] = "exited")
         \/ delivered' = [delivered EXCEPT ![c] = Append(@, Head(buffer[c]))]
  BY DEF NoGhostsInTheRoom, Next, Write, hubVars, pubsubVars, TypeOK
<1>2. CASE c # d
  BY <1>1, <1>2, FeedUntouched DEF TypeOK
<1>3. CASE c = d /\ delivered' = [delivered EXCEPT ![c] = Append(@, Head(buffer[c]))]
  <2>1. delivered[d] \in Seq(Versions) /\ buffer[d] \in Seq(Versions) /\ buffer[d] # <<>>
    BY <1>1, <1>3, FeedType
  <2>2. FeedOf(d)' = Append(delivered[d], Head(buffer[d])) \o Tail(buffer[d])
    BY <1>1, <1>3 DEF FeedOf, TypeOK
  <2>3. FeedOf(d)' = FeedOf(d)
    BY <2>1, <2>2, MovedAlong DEF FeedOf
  <2>4. Ascending(FeedOf(d)') /\ \A v \in Versions : Holds(FeedOf(d), v)' <=> Holds(FeedOf(d), v)
    BY <2>3 DEF OrderOf, Holds
  <2> QED BY <1>1, <2>4, FeedShrinks
<1>4. CASE c = d /\ delivered' = delivered /\ (pc[c] # "reading" \/ writer'[c] = "exited")
  <2>1. ~Works(d)'
    <3>1. pc[d] \in {"reading", "leaving", "unsubscribe", "ended"}
      BY <1>1, <1>4 DEF LifeInv
    <3> QED BY <1>1, <1>4, <3>1 DEF Works, NoGhostsInTheRoom
  <2>2. /\ delivered[d] \in Seq(Versions) /\ buffer[d] \in Seq(Versions) /\ buffer[d] # <<>>
        /\ FeedOf(d)' = delivered[d] \o Tail(buffer[d]) /\ FeedOf(d) = delivered[d] \o buffer[d]
    BY <1>1, <1>4, FeedType DEF FeedOf, TypeOK
  <2>3. Ascending(FeedOf(d)') /\ \A v \in Versions : Holds(FeedOf(d), v)' => Holds(FeedOf(d), v)
    <3> DEFINE rest == delivered[d] \o Tail(buffer[d])
    <3>1. /\ Ascending(rest)
          /\ \A v \in Versions : Holds(rest, v) => Holds(delivered[d] \o buffer[d], v)
      BY <2>2, ShorterFeed DEF OrderOf
    <3>2. FeedOf(d)' = rest
      BY <2>2
    <3> HIDE DEF rest
    <3> QED BY <2>2, <3>1, <3>2 DEF Holds
  <2> QED BY <1>1, <2>1, <2>3, FeedShrinks
<1> QED BY <1>1, <1>2, <1>3, <1>4

\* The browser is gone, and what it was written with it.
LEMMA StopReadingFeed ==
    ASSUME NoGhostsInTheRoom, LifeInv, NEW d \in Clients, OrderOf(d), GapOf(d),
           ~Register(d), NEW c \in Clients, ReadClosed(c) \/ PeerGone(c)
    PROVE  OrderOf(d)' /\ GapOf(d)'
<1>1. /\ TypeOK /\ [Next]_vars /\ delivered' = [delivered EXCEPT ![c] = <<>>]
      /\ pc' = [pc EXCEPT ![c] = "leaving"]
      /\ UNCHANGED <<batch, missed, buffer>>
  BY DEF NoGhostsInTheRoom, Next, Serve, ReadClosed, PeerGone, StopReading, Goto,
     hubVars, pubsubVars
<1>2. CASE c # d
  BY <1>1, <1>2, FeedUntouched DEF TypeOK
<1>3. CASE c = d
  <2>1. ~Works(d)'
    BY <1>1, <1>3 DEF Works, TypeOK
  <2>2. delivered[d] \in Seq(Versions) /\ buffer[d] \in Seq(Versions)
    BY <1>1, FeedType
  <2>3. FeedOf(d)' = buffer[d]
    <3>1. FeedOf(d)' = <<>> \o buffer[d]
      BY <1>1, <1>3 DEF FeedOf, TypeOK
    <3> QED BY <2>2, <3>1, ConcatEmptySeq
  <2>4. Ascending(FeedOf(d)') /\ \A v \in Versions : Holds(FeedOf(d), v)' => Holds(FeedOf(d), v)
    <3>1. /\ Ascending(buffer[d])
          /\ \A v \in Versions : Holds(buffer[d], v) => Holds(delivered[d] \o buffer[d], v)
      BY <2>2, QueueOfFeed DEF OrderOf, FeedOf
    <3> QED BY <2>3, <3>1 DEF Holds, FeedOf
  <2> QED BY <1>1, <2>1, <2>4, FeedShrinks
<1> QED BY <1>2, <1>3

\* Run takes the next event: those between it and the one before never arrived.
LEMMA ReceiveFeed ==
    ASSUME NoGhostsInTheRoom, LifeInv, QueueInv, NEW d \in Clients, OrderOf(d), GapOf(d), Receive
    PROVE  OrderOf(d)' /\ GapOf(d)'
<1> DEFINE h == Head(inbox)
<1>1. /\ TypeOK /\ batch.left = {} /\ inbox # <<>> /\ batch' = [left |-> room, version |-> h]
      /\ UNCHANGED <<room, missed, pc, writer, closing, delivered, buffer>>
      /\ inbox \in Seq(Versions) /\ batch.version \in Versions /\ version \in Versions
  BY DEF NoGhostsInTheRoom, Receive, clientVars, TypeOK
<1>2. /\ h = inbox[1] /\ 1 \in DOMAIN inbox /\ h \in Versions
      /\ \A i \in DOMAIN inbox : inbox[i] \in Versions /\ h <= inbox[i]
  <2>1. /\ h = inbox[1] /\ Len(inbox) \in Nat /\ Len(inbox) >= 1
        /\ DOMAIN inbox = 1 .. Len(inbox)
        /\ \A i \in 1 .. Len(inbox) : inbox[i] \in Versions
    BY <1>1, HeadTailProperties, LenProperties
  <2>2. ASSUME NEW i \in 1 .. Len(inbox) PROVE h <= inbox[i]
    <3>1. CASE i = 1
      BY <2>1, <3>1 DEF Versions
    <3>2. CASE 1 < i
      BY <2>1, <3>2 DEF QueueInv, Versions
    <3> QED BY <3>1, <3>2
  <2> QED BY <2>1, <2>2
<1>3. batch.version < h /\ h <= version
  BY <1>2 DEF QueueInv
<1>4. FeedOf(d)' = FeedOf(d) /\ (Works(d)' <=> Works(d)) /\ since' = since
  BY <1>1 DEF FeedOf, Works, Receive
<1>5. \A v \in Versions : Handed(d, v) <=> v <= batch.version
  BY <1>1 DEF Handed
<1>6. \A v \in Versions : (v <= batch.version => Handed(d, v)') /\ (Handed(d, v)' => v <= h)
  BY <1>1, <1>2, <1>3 DEF Handed, Versions
<1>7. OrderOf(d)'
  <2>1. since[d] < h /\ since[d] \in Versions /\ batch'.version = h
    BY <1>1, <1>2, <1>3 DEF OrderOf, Versions, TypeOK
  <2>2. since'[d] <= batch'.version /\ since'[d] < batch'.version
    BY <1>2, <1>4, <2>1 DEF Versions
  <2>3. ASSUME NEW v \in Versions, Holds(FeedOf(d), v)', v # Snapshot
        PROVE  since'[d] < v /\ Handed(d, v)'
    <3>1. since[d] < v /\ Handed(d, v)
      BY <1>4, <2>3 DEF OrderOf, Holds
    <3> QED BY <1>4, <1>5, <1>6, <3>1
  <2>4. Ascending(FeedOf(d)')
    BY <1>4 DEF OrderOf
  <2>5. pc'[d] \in {"subscribe", "greet"} => ~Holds(FeedOf(d), Snapshot)'
    BY <1>1, <1>4 DEF OrderOf, Holds
  <2> QED BY <2>2, <2>3, <2>4, <2>5 DEF OrderOf
<1>8. ASSUME Works(d)', NEW v \in Versions, since'[d] < v, Handed(d, v)'
      PROVE  v \in missed' \/ Holds(FeedOf(d), v)'
  <2>1. Works(d) /\ since[d] < v /\ d \in batch'.left /\ batch'.version = h
    BY <1>1, <1>4, <1>8 DEF Works
  <2>2. v < h
    BY <2>1, <1>8 DEF Handed
  <2>3. CASE v <= batch.version
    <3>1. v \in missed \/ Holds(FeedOf(d), v)
      BY <1>5, <1>8, <2>1, <2>3 DEF GapOf
    <3> QED BY <1>1, <1>4, <3>1 DEF Holds
  <2>4. CASE ~(v <= batch.version)
    <3>1. v \in 1 .. version
      BY <1>1, <1>2, <1>3, <2>2, <2>4 DEF Versions
    <3>2. ~\E i \in DOMAIN inbox : inbox[i] = v
      BY <1>2, <2>2 DEF Versions
    <3>3. v \in missed
      BY <2>4, <3>1, <3>2 DEF QueueInv
    <3> QED BY <1>1, <3>3
  <2> QED BY <2>3, <2>4
<1> QED BY <1>7, <1>8 DEF GapOf

\* The client joins: its feed is empty and everything dispatched is before it.
LEMMA RegisterFeed ==
    ASSUME NoGhostsInTheRoom, LifeInv, NEW d \in Clients, Register(d)
    PROVE  OrderOf(d)' /\ GapOf(d)'
<1>1. /\ TypeOK /\ since'[d] = batch.version /\ batch' = batch /\ batch.version \in Versions
      /\ d \notin batch.left
  BY DEF NoGhostsInTheRoom, LifeInv, Register, TypeOK
<1>2. FeedOf(d)' = <<>>
  <2>1. delivered'[d] = <<>> /\ buffer'[d] = <<>> /\ <<>> \in Seq(Versions)
    BY DEF LifeInv, Register
  <2> QED BY <1>1, <2>1, ConcatEmptySeq, FeedType DEF FeedOf
<1>3. \A v : ~Holds(FeedOf(d), v)'
  BY <1>2 DEF Holds
<1>4. Ascending(FeedOf(d)')
  BY <1>2 DEF Ascending
<1>5. OrderOf(d)'
  BY <1>1, <1>3, <1>4 DEF OrderOf, Versions
<1>6. GapOf(d)'
  BY <1>1 DEF GapOf, Handed, Versions
<1> QED BY <1>5, <1>6

LEMMA InitFeed == Init => QueueInv /\ LifeInv /\ FeedInv
<1> SUFFICES ASSUME Init PROVE QueueInv /\ LifeInv /\ FeedInv
  OBVIOUS
<1>1. QueueInv /\ LifeInv
  BY DEF Init, QueueInv, LifeInv
<1>2. ASSUME NEW c \in Clients PROVE OrderOf(c) /\ GapOf(c)
  <2>1. FeedOf(c) = <<>>
    BY InitType, FeedType, ConcatEmptySeq DEF Init, FeedOf
  <2> QED BY <2>1 DEF Init, OrderOf, GapOf, Works, Ascending, Holds, Versions
<1> QED BY <1>1, <1>2 DEF FeedInv

LEMMA NextFeed ==
    ASSUME NoGhostsInTheRoom, LifeInv, QueueInv, FeedInv, [Next]_vars
    PROVE  FeedInv'
<1> SUFFICES ASSUME NEW d \in Clients PROVE OrderOf(d)' /\ GapOf(d)'
  BY DEF FeedInv
<1>0. CASE Register(d)
  BY <1>0, RegisterFeed
<1> SUFFICES ASSUME ~Register(d) PROVE OrderOf(d)' /\ GapOf(d)'
  BY <1>0
<1> USE DEF FeedInv
<1>1. CASE \E c \in Clients : Greet(c)
  BY <1>1, GreetFeed
<1>2. CASE \E c \in Clients : Send(c)
  BY <1>2, SendFeed
<1>3. CASE \E c \in Clients : Write(c)
  BY <1>3, WriteFeed
<1>4. CASE \E c \in Clients : ReadClosed(c) \/ PeerGone(c)
  BY <1>4, StopReadingFeed
<1>5. CASE Receive
  BY <1>5, ReceiveFeed
<1>6. ASSUME UNCHANGED <<batch, delivered, buffer>>, missed \subseteq missed'
      PROVE  OrderOf(d)' /\ GapOf(d)'
  BY <1>6, FeedUntouched
<1>7. CASE \E c \in Clients : \/ Register(c) \/ Subscribe(c) \/ Rollback(c) \/ Leave(c)
                              \/ Unsubscribe(c) \/ WriteClose(c) \/ CloseClient(c)
  BY <1>6, <1>7 DEF Register, Subscribe, Rollback, Leave, Unsubscribe, WriteClose,
       CloseClient, LeaveRoom, hubVars, pubsubVars
<1>8. CASE Publish \/ CloseRooms \/ ClosePubSub \/ StopRun \/ UNCHANGED vars
  BY <1>6, <1>8 DEF Publish, CloseRooms, ClosePubSub, StopRun, hubVars, pubsubVars,
       clientVars, vars
<1> QED BY <1>1, <1>2, <1>3, <1>4, <1>5, <1>7, <1>8 DEF Next, Serve

\* The invariant says of the feed as a set what the property says of its indices.
LEMMA NoGaps ==
    ASSUME TypeOK, FeedInv
    PROVE  FeedHasNoGaps
<1> SUFFICES ASSUME NEW c \in Clients
             PROVE  LET feed   == FeedOf(c)
                        events == {i \in DOMAIN feed : feed[i] # Snapshot}
                    IN  /\ \A i \in events : since[c] < feed[i]
                        /\ \A i, j \in events : i < j => feed[i] < feed[j]
                        /\ UpToDate(c) => since[c] + 1 .. batch.version
                                             \subseteq missed \cup {feed[j] : j \in events}
  BY DEF FeedHasNoGaps
<1> DEFINE feed   == FeedOf(c)
           events == {i \in DOMAIN feed : feed[i] # Snapshot}
<1>1. /\ OrderOf(c) /\ GapOf(c) /\ batch.version \in Versions
      /\ \A i \in DOMAIN feed : feed[i] \in Versions
  BY FeedType DEF FeedInv, TypeOK
<1>2. \A i, j \in events : i < j => feed[i] < feed[j]
  BY <1>1 DEF OrderOf, Ascending
<1>3. \A i \in events : since[c] < feed[i]
  BY <1>1 DEF OrderOf, Holds
<1>4. ASSUME UpToDate(c), NEW v \in since[c] + 1 .. batch.version
      PROVE  v \in missed \cup {feed[j] : j \in events}
  <2>1. since[c] \in Versions
    BY DEF TypeOK
  <2>2. v \in Versions /\ since[c] < v /\ v # Snapshot
    BY <1>1, <1>4, <2>1 DEF Versions, Snapshot
  <2>3. Works(c) /\ Handed(c, v)
    BY <1>1, <1>4, <2>1 DEF UpToDate, Works, Handed, Versions
  <2>4. v \in missed \/ Holds(feed, v)
    BY <1>1, <2>2, <2>3 DEF GapOf
  <2> QED BY <2>2, <2>4 DEF Holds
<1> QED BY <1>2, <1>3, <1>4

\* A browser gets the events in order and each once, and none is left out as long as its
\* connection works, for every buffer, number of viewers and loss of events
\* (client.go:69-74, hub.go dispatch).
THEOREM FeedsHaveNoGaps == Spec => []FeedHasNoGaps
<1> DEFINE Inv == NoGhostsInTheRoom /\ QueueInv /\ LifeInv /\ FeedInv
<1>1. Init => Inv
  BY InitNoGhosts, InitFeed
<1>2. Inv /\ [Next]_vars => Inv'
  BY NextNoGhosts, NextQueue, NextLife, NextFeed DEF NoGhostsInTheRoom
<1>3. Inv => FeedHasNoGaps
  BY NoGaps DEF NoGhostsInTheRoom
<1> QED BY <1>1, <1>2, <1>3, PTL DEF Spec

----------------------------------------------------------------------------
(* The broadcast                                                           *)

\* What the invariants above are for here.
AudienceInv == NoGhostsInTheRoom /\ QueueInv /\ LifeInv /\ FeedInv

LEMMA AudienceInit == Init => Audience!Init
<1> SUFFICES ASSUME Init PROVE Audience!Init
  OBVIOUS
<1>1. \A c \in Clients : PhaseOf(c) = "away"
  BY DEF Init, PhaseOf
<1>2. \A c \in Clients, v \in Versions : ~Holds(delivered[c], v)
  BY DEF Init, Holds
<1>3. phaseBar = [c \in Clients |-> "away"]
  BY <1>1 DEF phaseBar
<1>4. Snapshot \in Versions
  BY DEF Snapshot, Versions
<1>5. gotBar = [c \in Clients |-> {}] /\ greetedBar = {}
  <2>1. \A c \in Clients : {v \in Versions : v # Snapshot /\ Holds(delivered[c], v)} = {}
    BY <1>2
  <2>2. gotBar = [c \in Clients |-> {}]
    BY <2>1 DEF gotBar
  <2>3. greetedBar = {}
    BY <1>2, <1>4 DEF greetedBar
  <2> QED BY <2>2, <2>3
<1> QED BY <1>3, <1>5 DEF Init, Audience!Init

\* A step that at most takes clients out of the audience that watches cuts those off.
LEMMA AudienceFades ==
    ASSUME UNCHANGED <<version, missed, since, delivered>>,
           \A c \in Clients : \/ PhaseOf(c)' = PhaseOf(c)
                              \/ PhaseOf(c) = "watching" /\ PhaseOf(c)' = "cut"
    PROVE  [Audience!Next]_(Audience!vars)
<1> DEFINE C == {c \in Clients : PhaseOf(c)' # PhaseOf(c)}
<1>1. gotBar' = gotBar /\ greetedBar' = greetedBar
  BY DEF gotBar, greetedBar
<1>2. phaseBar' = [c \in Clients |-> IF c \in C THEN "cut" ELSE phaseBar[c]]
  BY DEF phaseBar
<1>3. \A c \in C : phaseBar[c] = "watching"
  BY DEF phaseBar
<1>4. CASE C = {}
  <2>1. phaseBar' = phaseBar
    BY <1>4 DEF phaseBar
  <2> QED BY <1>1, <2>1 DEF Audience!vars
<1>5. CASE C # {}
  <2>1. C \in SUBSET Clients
    OBVIOUS
  <2> HIDE DEF C
  <2>2. Audience!CutOff(C)
    BY <1>1, <1>2, <1>3, <1>5 DEF Audience!CutOff
  <2> QED BY <2>1, <2>2 DEF Audience!Next
<1> QED BY <1>4, <1>5

\* A connection that comes to its end takes what its browser was written with it.
LEMMA AudienceLeaves ==
    ASSUME NEW c \in Clients, UNCHANGED <<version, missed, since>>,
           PhaseOf(c) \in {"watching", "cut"}, PhaseOf(c)' = "gone", delivered'[c] = <<>>,
           \A d \in Clients \ {c} :
               PhaseOf(d)' = PhaseOf(d) /\ delivered'[d] = delivered[d]
    PROVE  [Audience!Next]_(Audience!vars)
<1>1. phaseBar' = [phaseBar EXCEPT ![c] = "gone"] /\ phaseBar[c] \in {"watching", "cut"}
  BY DEF phaseBar
<1>2. \A v : ~Holds(delivered[c], v)'
  BY DEF Holds
<1>3. \A d \in Clients \ {c} : \A v : Holds(delivered[d], v)' <=> Holds(delivered[d], v)
  BY DEF Holds
<1>4. gotBar' = [gotBar EXCEPT ![c] = {}]
  <2>1. gotBar'[c] = {}
    BY <1>2 DEF gotBar
  <2>2. \A d \in Clients \ {c} : gotBar'[d] = gotBar[d]
    BY DEF gotBar, Holds
  <2> QED BY <2>1, <2>2 DEF gotBar
<1>5. greetedBar' = greetedBar \ {c}
  BY <1>2, <1>3 DEF greetedBar
<1>6. Audience!Leave(c)
  BY <1>1, <1>4, <1>5 DEF Audience!Leave
<1> QED BY <1>6 DEF Audience!Next

LEMMA AudienceJoins ==
    ASSUME AudienceInv, NEW c \in Clients, Register(c)
    PROVE  [Audience!Next]_(Audience!vars)
<1>1. TypeOK /\ QueueInv /\ LifeInv
  BY DEF AudienceInv, NoGhostsInTheRoom
<1>2. UNCHANGED <<version, missed, delivered>> /\ since' = [since EXCEPT ![c] = batch.version]
  BY DEF Register, pubsubVars
<1>3. PhaseOf(c) = "away" /\ PhaseOf(c)' = "watching"
  <2>1. pc[c] = "idle" /\ ~closing[c] /\ writer[c] = "off"
    BY <1>1 DEF Register, LifeInv, TypeOK
  <2>2. /\ pc'[c] \in {"subscribe", "greet"} /\ c \in room'
        /\ closing'[c] = FALSE /\ writer'[c] = "off"
    BY <1>1, <2>1 DEF Register, Goto, TypeOK
  <2>3. Works(c)'
    BY <2>2 DEF Works
  <2> QED BY <2>1, <2>2, <2>3 DEF PhaseOf
<1>4. \A d \in Clients \ {c} : PhaseOf(d)' = PhaseOf(d)
  <2> SUFFICES ASSUME NEW d \in Clients \ {c} PROVE PhaseOf(d)' = PhaseOf(d)
    OBVIOUS
  <2>1. /\ pc'[d] = pc[d] /\ closing'[d] = closing[d] /\ writer'[d] = writer[d]
        /\ d \in room' <=> d \in room
    BY <1>1 DEF Register, Goto, TypeOK
  <2>2. Works(d)' <=> Works(d)
    BY <2>1 DEF Works
  <2> QED BY <2>1, <2>2 DEF PhaseOf
<1>5. phaseBar[c] = "away" /\ phaseBar' = [phaseBar EXCEPT ![c] = "watching"]
  BY <1>3, <1>4 DEF phaseBar
<1>6. gotBar' = gotBar /\ greetedBar' = greetedBar
  BY <1>2 DEF gotBar, greetedBar
<1>7. batch.version \in 0 .. version
  BY <1>1 DEF QueueInv, TypeOK, Versions
<1>8. Audience!Join(c)
  BY <1>2, <1>5, <1>6, <1>7 DEF Audience!Join
<1> QED BY <1>8 DEF Audience!Next

LEMMA AudiencePublish ==
    ASSUME Publish
    PROVE  [Audience!Next]_(Audience!vars)
<1>1. /\ version' = version + 1 /\ missed' \in {missed, missed \cup {version'}}
      /\ UNCHANGED <<since, room, pc, writer, closing, delivered>>
  BY DEF Publish, hubVars, clientVars
<1>2. phaseBar' = phaseBar
  BY <1>1 DEF phaseBar, PhaseOf, Works
<1>3. gotBar' = gotBar /\ greetedBar' = greetedBar
  BY <1>1 DEF gotBar, greetedBar
<1>4. Audience!Publish
  BY <1>1, <1>2, <1>3 DEF Audience!Publish
<1> QED BY <1>4 DEF Audience!Next

\* The part of a feed that was written and the first message that is queued.
LEMMA FeedParts ==
    ASSUME NEW s \in Seq(Versions), NEW t \in Seq(Versions), t # <<>>
    PROVE  /\ Len(s) \in Nat /\ Len(s) + 1 \in DOMAIN (s \o t)
           /\ (s \o t)[Len(s) + 1] = Head(t) /\ Head(t) \in Versions
           /\ \A i \in DOMAIN s : i \in DOMAIN (s \o t) /\ i < Len(s) + 1 /\ (s \o t)[i] = s[i]
           /\ \A i \in DOMAIN (s \o t) : \/ i \in DOMAIN s
                                         \/ i = Len(s) + 1
                                         \/ i > Len(s) + 1
<1>1. /\ Len(s) \in Nat /\ Len(t) \in Nat /\ Len(t) >= 1 /\ Len(s \o t) = Len(s) + Len(t)
      /\ DOMAIN s = 1 .. Len(s) /\ Head(t) = t[1] /\ Head(t) \in Versions
      /\ s \o t \in Seq(Versions)
  BY HeadTailProperties, LenProperties, ConcatProperties
<1>2. DOMAIN (s \o t) = 1 .. Len(s) + Len(t)
  BY <1>1, LenProperties
<1>3. \A i \in 1 .. Len(s) + Len(t) :
          (s \o t)[i] = IF i <= Len(s) THEN s[i] ELSE t[i - Len(s)]
  BY ConcatProperties
<1>4. (s \o t)[Len(s) + 1] = t[1]
  BY <1>1, <1>3
<1> QED BY <1>1, <1>2, <1>3, <1>4

\* The browser is written a message: the snapshot, or the next event.
LEMMA AudienceReceives ==
    ASSUME AudienceInv, NEW c \in Clients, Write(c), pc[c] = "reading",
           delivered' = [delivered EXCEPT ![c] = Append(@, Head(buffer[c]))],
           UNCHANGED writer
    PROVE  [Audience!Next]_(Audience!vars)
<1> DEFINE m == Head(buffer[c])
           feed == FeedOf(c)
           n == Len(delivered[c]) + 1
<1>1. /\ TypeOK /\ QueueInv /\ OrderOf(c) /\ GapOf(c) /\ buffer[c] # <<>>
      /\ UNCHANGED <<version, missed, since, room, pc, closing>>
  BY DEF AudienceInv, NoGhostsInTheRoom, FeedInv, Write, hubVars, pubsubVars
<1>2. delivered[c] \in Seq(Versions) /\ buffer[c] \in Seq(Versions) /\ feed \in Seq(Versions)
  BY <1>1, FeedType
<1>3. /\ n \in DOMAIN feed /\ feed[n] = m /\ m \in Versions /\ n \in Nat
      /\ \A i \in DOMAIN delivered[c] : i \in DOMAIN feed /\ i < n /\ feed[i] = delivered[c][i]
      /\ \A i \in DOMAIN feed : i \in DOMAIN delivered[c] \/ i = n \/ i > n
  <2> DEFINE s == delivered[c]
             t == buffer[c]
  <2>1. /\ Len(s) \in Nat /\ Len(s) + 1 \in DOMAIN (s \o t)
        /\ (s \o t)[Len(s) + 1] = Head(t) /\ Head(t) \in Versions
        /\ \A i \in DOMAIN s : i \in DOMAIN (s \o t) /\ i < Len(s) + 1 /\ (s \o t)[i] = s[i]
        /\ \A i \in DOMAIN (s \o t) : i \in DOMAIN s \/ i = Len(s) + 1 \/ i > Len(s) + 1
    BY <1>1, <1>2, FeedParts
  <2>2. feed = s \o t
    BY DEF FeedOf
  <2>3. n \in Nat
    BY <2>1
  <2>4. n = Len(s) + 1 /\ m = Head(t) /\ delivered[c] = s
    OBVIOUS
  <2> HIDE DEF s, t, feed, m, n
  <2> QED BY <2>1, <2>2, <2>3, <2>4
<1>4. phaseBar' = phaseBar /\ phaseBar[c] \in {"watching", "cut"}
  BY <1>1 DEF phaseBar, PhaseOf, Works
<1>5. /\ \A v \in Versions : Holds(delivered[c], v)' <=> Holds(delivered[c], v) \/ v = m
      /\ \A d \in Clients \ {c} : \A v \in Versions :
            Holds(delivered[d], v)' <=> Holds(delivered[d], v)
  <2>1. /\ delivered'[c] = Append(delivered[c], m)
        /\ \A d \in Clients \ {c} : delivered'[d] = delivered[d]
    BY <1>1 DEF TypeOK
  <2>2. /\ DOMAIN delivered'[c] = 1 .. n /\ DOMAIN delivered[c] = 1 .. n - 1
        /\ delivered'[c][n] = m
        /\ \A i \in 1 .. n - 1 : delivered'[c][i] = delivered[c][i]
    BY <1>2, <1>3, <2>1, AppendProperties, LenProperties
  <2> HIDE DEF m, n
  <2>3. 1 .. n = 1 .. n - 1 \cup {n}
    <3>1. n >= 1
      BY <1>2, LenProperties DEF n
    <3> QED BY <1>3, <3>1
  <2>4. \A v \in Versions : Holds(delivered[c], v)' <=> Holds(delivered[c], v) \/ v = m
    BY <2>2, <2>3 DEF Holds
  <2> QED BY <2>1, <2>4 DEF Holds
<1>6. \A v \in Versions : Holds(delivered[c], v) => \E i \in DOMAIN feed : i < n /\ feed[i] = v
  BY <1>3 DEF Holds
<1>7. Snapshot \in Versions
  BY DEF Snapshot, Versions
<1> HIDE DEF m, feed, n
<1>8. CASE m = Snapshot
  <2>1. ~Holds(delivered[c], Snapshot)
    <3> SUFFICES ASSUME Holds(delivered[c], Snapshot) PROVE FALSE
      OBVIOUS
    <3>1. PICK i \in DOMAIN feed : i < n /\ feed[i] = Snapshot
      BY <1>6, <1>7
    <3> QED BY <1>1, <1>3, <1>8, <3>1 DEF OrderOf, Ascending, feed, Snapshot
  <2>2. gotBar' = gotBar
    <3>1. gotBar'[c] = gotBar[c]
      BY <1>5, <1>8 DEF gotBar
    <3>2. ASSUME NEW d \in Clients \ {c} PROVE gotBar'[d] = gotBar[d]
      BY <1>5 DEF gotBar
    <3> QED BY <3>1, <3>2 DEF gotBar
  <2>3. greetedBar' = greetedBar \cup {c} /\ c \notin greetedBar
    BY <1>5, <1>7, <1>8, <2>1 DEF greetedBar
  <2>4. Audience!Greet(c)
    BY <1>1, <1>4, <2>2, <2>3 DEF Audience!Greet
  <2> QED BY <2>4 DEF Audience!Next
<1>9. CASE m # Snapshot
  <2>1. since[c] < m /\ Handed(c, m)
    BY <1>1, <1>3, <1>9 DEF OrderOf, Holds, feed
  <2>2. /\ since[c] \in Nat /\ m \in Nat /\ batch.version \in Nat /\ version \in Nat
        /\ m <= batch.version /\ batch.version <= version /\ version \in Versions
    BY <1>1, <1>3, <2>1 DEF Handed, TypeOK, QueueInv, Versions
  <2>3. m \in since[c] + 1 .. version /\ m \in 1 .. version
    BY <2>1, <2>2
  <2>4. \A u \in gotBar[c] : u < m
    <3> SUFFICES ASSUME NEW u \in Versions, u # Snapshot, Holds(delivered[c], u) PROVE u < m
      BY DEF gotBar
    <3>1. PICK i \in DOMAIN feed : i < n /\ feed[i] = u
      BY <1>6
    <3> QED BY <1>1, <1>3, <1>9, <3>1 DEF OrderOf, Ascending, feed
  <2>5. ASSUME phaseBar[c] = "watching", NEW v \in since[c] + 1 .. m - 1
        PROVE  v \in gotBar[c] \cup missed
    <3>1. Works(c)
      BY <2>5 DEF phaseBar, PhaseOf
    <3>2. v \in Versions /\ v # Snapshot /\ since[c] < v /\ v < m /\ Handed(c, v)
      <4>1. v \in Nat /\ since[c] < v /\ v < m
        BY <2>2
      <4> QED BY <2>1, <2>2, <4>1 DEF Versions, Snapshot, Handed
    <3>3. CASE Holds(feed, v)
      <4>1. PICK i \in DOMAIN feed : feed[i] = v
        BY <3>3 DEF Holds
      <4>2. ~(i = n)
        BY <1>3, <2>2, <3>2, <4>1
      <4>3. ~(i > n)
        <5> SUFFICES ASSUME i > n PROVE FALSE
          OBVIOUS
        <5>1. n < i
          <6>1. i \in Nat
            BY <1>2, LenProperties DEF feed
          <6> QED BY <1>3, <6>1
        <5>2. m < v
          BY <1>1, <1>3, <3>2, <4>1, <5>1 DEF OrderOf, Ascending, feed
        <5> QED BY <2>2, <3>2, <5>2
      <4>4. i \in DOMAIN delivered[c] /\ delivered[c][i] = v
        BY <1>3, <4>1, <4>2, <4>3
      <4> QED BY <3>2, <4>4 DEF gotBar, Holds
    <3>4. CASE v \in missed
      BY <3>4
    <3> QED BY <1>1, <3>1, <3>2, <3>3, <3>4 DEF GapOf, feed
  <2>6. gotBar' = [gotBar EXCEPT ![c] = @ \cup {m}]
    <3>1. gotBar'[c] = gotBar[c] \cup {m}
      BY <1>3, <1>5, <1>9 DEF gotBar
    <3>2. ASSUME NEW d \in Clients \ {c} PROVE gotBar'[d] = gotBar[d]
      BY <1>5 DEF gotBar
    <3> QED BY <3>1, <3>2 DEF gotBar
  <2>7. greetedBar' = greetedBar
    BY <1>5, <1>7, <1>9 DEF greetedBar
  <2>8. Audience!Receive(c, m)
    BY <1>1, <1>4, <2>3, <2>4, <2>5, <2>6, <2>7 DEF Audience!Receive
  <2> QED BY <2>3, <2>8 DEF Audience!Next
<1> QED BY <1>8, <1>9

\* The remaining steps of a connection: it is served, leaves, or is closed.
LEMMA AudienceConnection ==
    ASSUME AudienceInv, NEW c \in Clients,
           Serve(c) \/ PeerGone(c) \/ Write(c) \/ WriteClose(c)
    PROVE  [Audience!Next]_(Audience!vars)
<1>1. TypeOK /\ NoGhostsInTheRoom /\ LifeInv
  BY DEF AudienceInv, NoGhostsInTheRoom
<1>2. CASE ReadClosed(c) \/ PeerGone(c)
  <2>1. /\ UNCHANGED <<version, missed, since, room, writer, closing>> /\ pc[c] = "reading"
        /\ pc' = [pc EXCEPT ![c] = "leaving"] /\ delivered' = [delivered EXCEPT ![c] = <<>>]
    BY <1>2 DEF ReadClosed, PeerGone, StopReading, Goto, hubVars, pubsubVars
  <2>2. /\ pc'[c] = "leaving" /\ delivered'[c] = <<>>
        /\ \A d \in Clients \ {c} : pc'[d] = pc[d] /\ delivered'[d] = delivered[d]
    BY <1>1, <2>1 DEF TypeOK
  <2>3. PhaseOf(c) \in {"watching", "cut"} /\ PhaseOf(c)' = "gone"
    BY <2>1, <2>2 DEF PhaseOf
  <2>4. \A d \in Clients \ {c} : PhaseOf(d)' = PhaseOf(d)
    BY <2>1, <2>2 DEF PhaseOf, Works
  <2> QED BY <2>1, <2>2, <2>3, <2>4, AudienceLeaves
<1>3. CASE Subscribe(c)
  <2>1. /\ UNCHANGED <<version, missed, since, room, writer, closing, delivered>>
        /\ pc[c] = "subscribe" /\ pc'[c] \in {"greet", "rollback"}
        /\ \A d \in Clients \ {c} : pc'[d] = pc[d]
    BY <1>1, <1>3 DEF Subscribe, Goto, TypeOK, hubVars
  <2>2. \A d \in Clients \ {c} : PhaseOf(d)' = PhaseOf(d)
    BY <2>1 DEF PhaseOf, Works
  <2>3. Works(c)' <=> Works(c)
    BY <2>1 DEF Works
  <2>4. CASE pc'[c] = "greet"
    <3>1. PhaseOf(c)' = PhaseOf(c)
      BY <2>1, <2>3, <2>4 DEF PhaseOf
    <3> QED BY <2>1, <2>2, <3>1, AudienceFades
  <2>5. CASE pc'[c] = "rollback"
    <3>1. PhaseOf(c) \in {"watching", "cut"} /\ PhaseOf(c)' = "gone"
      BY <2>1, <2>5 DEF PhaseOf
    <3>2. delivered'[c] = <<>>
      BY <1>1, <2>1 DEF LifeInv
    <3> QED BY <2>1, <2>2, <3>1, <3>2, AudienceLeaves
  <2> QED BY <2>1, <2>4, <2>5
<1>4. CASE Rollback(c) \/ Leave(c) \/ Unsubscribe(c)
  <2>1. /\ UNCHANGED <<version, missed, since, writer, delivered>>
        /\ pc[c] \in {"rollback", "leaving", "unsubscribe", "undo"}
        /\ pc'[c] \in {"undo", "unsubscribe", "ended"}
        /\ \A d \in Clients \ {c} :
              pc'[d] = pc[d] /\ closing'[d] = closing[d] /\ (d \in room' <=> d \in room)
    BY <1>1, <1>4 DEF Rollback, Leave, Unsubscribe, LeaveRoom, Goto, TypeOK, hubVars,
       pubsubVars
  <2>2. PhaseOf(c) = "gone" /\ PhaseOf(c)' = "gone"
    BY <2>1 DEF PhaseOf
  <2>3. \A d \in Clients \ {c} : PhaseOf(d)' = PhaseOf(d)
    BY <2>1 DEF PhaseOf, Works
  <2> QED BY <2>1, <2>2, <2>3, AudienceFades
<1>5. CASE Greet(c)
  <2>1. /\ UNCHANGED <<version, missed, since, room, delivered>>
        /\ pc[c] = "greet" /\ pc'[c] = "reading"
        /\ closing[c] => closing'[c]
        /\ \A d \in Clients \ {c} :
              pc'[d] = pc[d] /\ closing'[d] = closing[d] /\ writer'[d] = writer[d]
    BY <1>1, <1>5 DEF Greet, Enqueue, Goto, TypeOK, hubVars, pubsubVars
  <2>2. \A d \in Clients \ {c} : PhaseOf(d)' = PhaseOf(d)
    BY <2>1 DEF PhaseOf, Works
  <2>3. Works(c)' => Works(c)
    <3>1. writer[c] = "off"
      BY <1>1, <2>1 DEF LifeInv, TypeOK
    <3> QED BY <2>1, <3>1 DEF Works
  <2>4. PhaseOf(c)' = PhaseOf(c) \/ (PhaseOf(c) = "watching" /\ PhaseOf(c)' = "cut")
    BY <2>1, <2>3 DEF PhaseOf
  <2> QED BY <2>1, <2>2, <2>4, AudienceFades
<1>6. CASE WriteClose(c) \/ (Write(c) /\ delivered' = delivered)
  <2>1. /\ UNCHANGED <<version, missed, since, room, pc, closing, delivered>>
        /\ writer[c] = "on"
        /\ \A d \in Clients \ {c} : writer'[d] = writer[d]
    BY <1>1, <1>6 DEF Write, WriteClose, TypeOK, hubVars, pubsubVars
  <2>2. \A d \in Clients \ {c} : PhaseOf(d)' = PhaseOf(d)
    BY <2>1 DEF PhaseOf, Works
  <2>3. Works(c)' => Works(c)
    BY <2>1 DEF Works
  <2>4. PhaseOf(c)' = PhaseOf(c) \/ (PhaseOf(c) = "watching" /\ PhaseOf(c)' = "cut")
    BY <2>1, <2>3 DEF PhaseOf
  <2> QED BY <2>1, <2>2, <2>4, AudienceFades
<1>7. CASE Write(c) /\ delivered' # delivered
  BY <1>7, AudienceReceives DEF Write
<1> QED BY <1>2, <1>3, <1>4, <1>5, <1>6, <1>7 DEF Serve

\* What Run, dispatch and Close do cuts clients off or is invisible to the audience.
LEMMA AudienceHub ==
    ASSUME AudienceInv,
           \/ Receive \/ CloseRooms \/ ClosePubSub \/ StopRun \/ UNCHANGED vars
           \/ \E c \in Clients : Send(c) \/ CloseClient(c)
    PROVE  [Audience!Next]_(Audience!vars)
<1>1. UNCHANGED <<version, missed, since, pc, writer, delivered>>
  BY DEF Receive, CloseRooms, ClosePubSub, StopRun, Send, CloseClient, vars, clientVars,
     pubsubVars
<1>2. \A d \in Clients : (d \in room' => d \in room) /\ (closing[d] => closing'[d])
  <2>1. TypeOK
    BY DEF AudienceInv, NoGhostsInTheRoom
  <2> QED BY <2>1 DEF Receive, CloseRooms, ClosePubSub, StopRun, Send, CloseClient, Enqueue,
          TypeOK, vars, clientVars
<1>3. \A d \in Clients : Works(d)' => Works(d)
  BY <1>1, <1>2 DEF Works
<1>4. \A d \in Clients : \/ PhaseOf(d)' = PhaseOf(d)
                         \/ PhaseOf(d) = "watching" /\ PhaseOf(d)' = "cut"
  BY <1>1, <1>3 DEF PhaseOf
<1> QED BY <1>1, <1>4, AudienceFades

\* Rooms, buffers, pumps, lost subscriptions and the shut down together are a broadcast:
\* whatever a browser receives, and whenever it is cut off, Broadcast allows it.
THEOREM HubImplementsBroadcast == Spec => ImplementsBroadcast
<1>1. Init => AudienceInv
  BY InitNoGhosts, InitFeed DEF AudienceInv
<1>2. AudienceInv /\ [Next]_vars => AudienceInv'
  BY NextNoGhosts, NextQueue, NextLife, NextFeed DEF NoGhostsInTheRoom, AudienceInv
<1>3. AudienceInv /\ [Next]_vars => [Audience!Next]_(Audience!vars)
  BY AudienceJoins, AudiencePublish, AudienceConnection, AudienceHub DEF Next
<1> QED BY <1>1, <1>2, <1>3, AudienceInit, PTL DEF Spec, Audience!Spec, ImplementsBroadcast
=============================================================================
