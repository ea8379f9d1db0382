--------------------------- MODULE LivePageProofs ---------------------------
(***************************************************************************)
(* The safety properties of LivePage, for any number of votes, broken      *)
(* connections and failed requests.  The inductive invariant follows what  *)
(* is under way: what a connection brings is as new as its reconnect, or   *)
(* the event of a vote that was under way then, and so is the answer to    *)
(* the refetch that the reconnect asked for.                               *)
(***************************************************************************)
EXTENDS LivePage, FiniteSetTheorems, TLAPS

-----------------------------------------------------------------------------
(* The inductive invariant                                                 *)

\* Serve works for a socket that is there, and sends to a client that has joined.
SocketInv ==
    /\ timer => socket = "none"
    /\ ~mounted \/ ~running => socket = "none" /\ ~timer
    /\ socket \in {"none", "dropped"} => peer = "none"
    /\ peer \in {"none", "resolved", "upgraded"} => wire = <<>>

\* Redis counts no vote that MongoDB has not counted.
TallyInv == live + Cardinality(counted) <= version

\* Everything that the current connection brings, or will bring, has caught up with the
\* reconnect.
FreshInv ==
    /\ since # None => connected /\ since <= live
    /\ \A v \in UnderWay : CaughtUp(v)
    /\ peer \in {"resolved", "upgraded", "joined"} => CaughtUp(snapshot)
    /\ \A i \in DOMAIN wire : wire[i].type = "results" => CaughtUp(wire[i].version)

\* A page with no load under way, and none that failed, has something to show.
LoadedInv == mounted /\ fetch.state = "none" /\ error = "none" => screen # None

\* Once the refetch of a reconnect has begun, its answer, or what was shown since it
\* landed, has caught up with the reconnect.
CatchUpInv ==
    since # None /\ socket = "open" /\ ~reload =>
        /\ fetch.state = "ok" => CaughtUp(fetch.version)
        /\ cast.state # "done" /\ fetch.state = "none" /\ error = "none" =>
              screen # None /\ CaughtUp(screen)

PageInv == TypeOK /\ SocketInv /\ TallyInv /\ FreshInv /\ LoadedInv /\ CatchUpInv

LEMMA InitPage == Init => PageInv
<1> SUFFICES ASSUME Init PROVE PageInv
  OBVIOUS
<1>1. TypeOK
  <2>1. /\ 0 \in Versions /\ 0 \in 0 .. MaxAttempt /\ 0 \in 0 .. MaxDrops
        /\ 0 \in 0 .. MaxFailures /\ 0 \in 0 .. MaxMoves
    BY BoundsAssumption DEF Versions, MaxAttempt
  <2>2. <<>> \in Seq(Messages)
    OBVIOUS
  <2>3. fetch \in [state : {"none", "sent", "ok", "notFound", "failed"}, version : Versions]
    BY <2>1 DEF Init, Sent
  <2>4. cast \in [state : {"none", "sent", "counted", "ok", "refused", "done"}, version : Versions]
    BY <2>1 DEF Init, NoRequest
  <2> QED BY <2>1, <2>2, <2>3, <2>4 DEF Init, TypeOK
<1>2. TallyInv
  BY FS_EmptySet DEF Init, TallyInv
<1>3. SocketInv /\ FreshInv /\ LoadedInv /\ CatchUpInv
  BY DEF Init, SocketInv, FreshInv, UnderWay, LoadedInv, CatchUpInv, Sent
<1> QED BY <1>1, <1>2, <1>3 DEF PageInv

\* What the hub hands out comes last.
LEMMA Pushed ==
    ASSUME TypeOK, NEW m \in Messages, Push(m)
    PROVE  /\ wire' \in Seq(Messages)
           /\ \A i \in DOMAIN wire' : (i \in DOMAIN wire /\ wire'[i] = wire[i]) \/ wire'[i] = m
           /\ peer \in {"none", "resolved", "upgraded"} => wire' = wire
<1>1. wire' = Append(wire, m) \/ wire' = wire
  BY DEF Push
<1>2. wire \in Seq(Messages)
  BY DEF TypeOK
<1>3. CASE wire' = Append(wire, m)
  BY <1>2, <1>3 DEF Push
<1>4. CASE wire' = wire
  BY <1>2, <1>4 DEF Push
<1> QED BY <1>1, <1>3, <1>4

\* A greeting or an event with a tally is a message.
LEMMA ResultsAreMessages ==
    ASSUME NEW v \in Versions
    PROVE  Results(v) \in Messages /\ Results(v).type = "results" /\ Results(v).version = v
  BY DEF Results, Messages

\* There are finitely many votes between their calls; one more and one less.
LEMMA CountedCardinality ==
    ASSUME TypeOK
    PROVE  /\ IsFiniteSet(counted) /\ Cardinality(counted) \in Nat
           /\ \A v : Cardinality(counted \cup {v}) <= Cardinality(counted) + 1
           /\ \A v \in counted : /\ Cardinality(counted) >= 1
                                /\ Cardinality(counted \ {v}) = Cardinality(counted) - 1
<1>1. IsFiniteSet(counted)
  <2>1. IsFiniteSet(Versions)
    BY FS_Interval, BoundsAssumption DEF Versions
  <2> QED BY <2>1, FS_Subset DEF TypeOK
<1>2. Cardinality(counted) \in Nat
  BY <1>1, FS_CardinalityType
<1>3. ASSUME NEW v PROVE Cardinality(counted \cup {v}) <= Cardinality(counted) + 1
  BY <1>1, <1>2, FS_AddElement
<1>4. ASSUME NEW v \in counted
      PROVE  Cardinality(counted) >= 1 /\ Cardinality(counted \ {v}) = Cardinality(counted) - 1
  <2>1. IsFiniteSet(counted \ {v}) /\ Cardinality(counted \ {v}) = Cardinality(counted) - 1
    BY <1>1, FS_RemoveElement
  <2>2. Cardinality(counted \ {v}) \in Nat
    BY <2>1, FS_CardinalityType
  <2> QED BY <1>2, <2>1, <2>2
<1> QED BY <1>1, <1>2, <1>3, <1>4

\* The message that the browser reads next.
LEMMA NextMessage ==
    ASSUME wire \in Seq(Messages), wire # <<>>
    PROVE  /\ 1 \in DOMAIN wire /\ Head(wire) = wire[1]
           /\ Head(wire).version \in Versions /\ Tail(wire) \in Seq(Messages)
<1>1. 1 \in DOMAIN wire /\ Head(wire) = wire[1] /\ Head(wire) \in Messages
  OBVIOUS
<1>2. Head(wire).version \in Versions
  BY <1>1 DEF Messages
<1> QED BY <1>1, <1>2

-----------------------------------------------------------------------------
(* The types                                                               *)

\* The calls of the votes, and the deletion.
LEMMA TallyType ==
    ASSUME TypeOK, TallyInv,
           Count \/ CountOwn \/ Delete \/ (\E v \in counted : ApplyLive(v)) \/ (\E m \in events : Publish(m))
    PROVE  TypeOK'
<1>1. CASE Count \/ CountOwn
  <2>0. version < MaxVersion /\ version' = version + 1 /\ counted' = counted \cup {version'}
    BY <1>1 DEF Count, CountOwn, Increment
  <2>1. version' \in Versions /\ counted' \subseteq Versions
    <3>1. version' \in Versions
      BY <2>0, BoundsAssumption DEF TypeOK, Versions
    <3> QED BY <2>0, <3>1 DEF TypeOK
  <2>2. cast' \in [state : {"none", "sent", "counted", "ok", "refused", "done"}, version : Versions]
    BY <1>1, <2>1 DEF Count, CountOwn, TypeOK
  <2>3. UNCHANGED <<live, exists, events, mounted, screen, error, reload, fetch, deleted, running,
                    socket, timer, attempt, connected, peer, snapshot, wire, drops, failures, moves,
                    since, late, bounces>>
    BY <1>1 DEF Count, CountOwn, Increment, dataVars, socketVars, peerVars, bounds, history
  <2> QED BY <2>1, <2>2, <2>3 DEF TypeOK
<1>2. CASE Delete
  <2>1. [type |-> "deleted", version |-> 0] \in Messages
    BY BoundsAssumption DEF Messages, Versions
  <2>2. /\ events' \subseteq Messages /\ exists' \in BOOLEAN
        /\ moves' \in 0 .. MaxMoves
    <3>1. moves' \in 0 .. MaxMoves
      BY <1>2, BoundsAssumption DEF Delete, Move, TypeOK
    <3> QED BY <1>2, <2>1, <3>1 DEF Delete, TypeOK
  <2>3. UNCHANGED <<version, live, counted, mounted, screen, error, reload, fetch, cast, deleted,
                    running, socket, timer, attempt, connected, peer, snapshot, wire, drops, failures,
                    since, late, bounces>>
    BY <1>2 DEF Delete, dataVars, socketVars, peerVars, history
  <2> QED BY <2>2, <2>3 DEF TypeOK
<1>3. ASSUME NEW v \in counted, ApplyLive(v) PROVE TypeOK'
  <2>1. events' \subseteq Messages /\ counted' \subseteq Versions
    BY <1>3, ResultsAreMessages DEF ApplyLive, TypeOK
  <2>2. live' \in Versions
    <3>1. live' = live \/ live' = live + 1
      BY <1>3 DEF ApplyLive
    <3>2. Cardinality(counted) \in Nat /\ Cardinality(counted) >= 1
      BY CountedCardinality
    <3>3. live \in Nat /\ version \in Nat /\ version <= MaxVersion /\ live + Cardinality(counted) <= version
      BY DEF TypeOK, TallyInv, Versions
    <3>4. live' \in Nat /\ live' <= MaxVersion
      BY <3>1, <3>2, <3>3, BoundsAssumption
    <3> QED BY <3>4, BoundsAssumption DEF Versions
  <2>3. failures' \in 0 .. MaxFailures
    BY <1>3, BoundsAssumption DEF ApplyLive, Fails, TypeOK
  <2>4. UNCHANGED <<version, exists, mounted, screen, error, reload, fetch, cast, deleted, running,
                    socket, timer, attempt, connected, peer, snapshot, wire, drops, moves, since, late,
                    bounces>>
    BY <1>3 DEF ApplyLive, dataVars, socketVars, peerVars, history
  <2> QED BY <2>1, <2>2, <2>3, <2>4 DEF TypeOK
<1>4. ASSUME NEW m \in events, Publish(m) PROVE TypeOK'
  <2>1. wire' \in Seq(Messages)
    BY <1>4, Pushed DEF Publish, TypeOK
  <2>2. failures' \in 0 .. MaxFailures /\ events' \subseteq Messages
    BY <1>4, BoundsAssumption DEF Publish, Fails, TypeOK
  <2>3. UNCHANGED <<version, live, exists, counted, mounted, screen, error, reload, fetch, cast,
                    deleted, running, socket, timer, attempt, connected, peer, snapshot, drops, moves,
                    since, late, bounces>>
    BY <1>4 DEF Publish, dataVars, socketVars, history
  <2> QED BY <2>1, <2>2, <2>3 DEF TypeOK
<1> QED BY <1>1, <1>2, <1>3, <1>4

\* What the server does for the requests and the connection of this page.
LEMMA ServerType ==
    ASSUME TypeOK, Answer \/ AnswerVote \/ Resolve \/ Serve \/ Drop
    PROVE  TypeOK'
<1>0. 0 \in Versions
  BY BoundsAssumption DEF Versions
<1>1. CASE Answer
  <2>1. fetch' \in [state : {"none", "sent", "ok", "notFound", "failed"}, version : Versions]
    BY <1>1 DEF Answer, TypeOK
  <2>2. failures' \in 0 .. MaxFailures
    BY <1>1, BoundsAssumption DEF Answer, Fails, TypeOK
  <2> QED BY <1>1, <2>1, <2>2 DEF Answer, TypeOK, serverVars, socketVars, peerVars, history
<1>2. CASE AnswerVote
  <2>1. failures' \in 0 .. MaxFailures
    BY <1>2, BoundsAssumption DEF AnswerVote, Fails, TypeOK
  <2>2. cast' \in [state : {"none", "sent", "counted", "ok", "refused", "done"}, version : Versions]
    BY <1>0, <1>2 DEF AnswerVote, NoRequest, TypeOK
  <2> QED BY <1>2, <2>1, <2>2
          DEF AnswerVote, TypeOK, serverVars, dataVars, socketVars, peerVars, history
<1>3. CASE Resolve
  BY <1>3 DEF Resolve, TypeOK, serverVars, dataVars, bounds, history
<1>4. CASE Serve
  <2>1. wire' \in Seq(Messages)
    BY <1>4, Pushed, ResultsAreMessages DEF Serve, TypeOK
  <2>2. snapshot' \in Versions
    BY <1>0, <1>4 DEF Serve, TypeOK
  <2> QED BY <1>4, <2>1, <2>2 DEF Serve, TypeOK, serverVars, dataVars, socketVars, bounds, history
<1>5. CASE Drop
  <2>1. <<>> \in Seq(Messages)
    OBVIOUS
  <2>2. drops' \in 0 .. MaxDrops
    BY <1>5, BoundsAssumption DEF Drop, TypeOK
  <2> QED BY <1>0, <1>5, <2>1, <2>2 DEF Drop, Hangup, TypeOK, serverVars, dataVars, history
<1> QED BY <1>1, <1>2, <1>3, <1>4, <1>5

\* The loads, the form and the user.
LEMMA DataType ==
    ASSUME TypeOK, RunEffect \/ Land \/ Retry \/ Cast \/ CastLands
    PROVE  TypeOK'
<1>0. 0 \in Versions
  BY BoundsAssumption DEF Versions
<1>1. moves' \in 0 .. MaxMoves
  BY BoundsAssumption DEF RunEffect, Land, Retry, Cast, CastLands, Move, bounds, TypeOK
<1>2. CASE RunEffect \/ Land \/ Retry
  <2>1. fetch' \in [state : {"none", "sent", "ok", "notFound", "failed"}, version : Versions]
    BY <1>0, <1>2 DEF RunEffect, Land, Retry, Sent, NoRequest, TypeOK
  <2>2. /\ screen' \in Versions \cup {None} /\ error' \in {"none", "notFound", "failed"}
        /\ reload' \in BOOLEAN
    BY <1>2 DEF RunEffect, Land, Retry, TypeOK
  <2>3. UNCHANGED <<serverVars, mounted, cast, deleted, socketVars, peerVars, drops, failures, history>>
    BY <1>2 DEF RunEffect, Land, Retry, bounds
  <2> QED BY <1>1, <2>1, <2>2, <2>3 DEF TypeOK, serverVars, socketVars, peerVars, history
<1>3. CASE Cast \/ CastLands
  <2>1. cast' \in [state : {"none", "sent", "counted", "ok", "refused", "done"}, version : Versions]
    BY <1>0, <1>3 DEF Cast, CastLands, Sent, TypeOK
  <2>2. screen' \in Versions \cup {None} /\ reload' \in BOOLEAN
    BY <1>3 DEF Cast, CastLands, dataVars, TypeOK
  <2>3. UNCHANGED <<serverVars, mounted, error, fetch, deleted, socketVars, peerVars, drops, failures,
                    history>>
    BY <1>3 DEF Cast, CastLands, dataVars, bounds
  <2> QED BY <1>1, <2>1, <2>2, <2>3 DEF TypeOK, serverVars, socketVars, peerVars, history
<1> QED BY <1>2, <1>3

\* The socket.
LEMMA SocketType ==
    ASSUME TypeOK, OnOpen \/ OnMessage \/ OnClose \/ Connect \/ Disable \/ Leave
    PROVE  TypeOK'
<1>1. 0 \in 0 .. MaxAttempt /\ 0 \in Nat /\ <<>> \in Seq(Messages) /\ 0 \in Versions
  BY BoundsAssumption DEF MaxAttempt, Versions
<1>2. CASE OnOpen
  BY <1>1, <1>2 DEF OnOpen, TypeOK, serverVars, peerVars, bounds
<1>3. CASE OnMessage
  <2>1. Head(wire).version \in Versions /\ Tail(wire) \in Seq(Messages)
    BY <1>3, NextMessage DEF OnMessage, TypeOK
  <2>2. /\ wire' \in Seq(Messages) /\ bounces' = 0
        /\ screen' \in Versions \cup {None} /\ deleted' \in BOOLEAN
    BY <1>3, <2>1 DEF OnMessage, TypeOK
  <2>3. UNCHANGED <<version, live, exists, counted, events, mounted, error, reload, fetch, cast,
                    running, socket, timer, attempt, connected, peer, snapshot, drops, failures, moves,
                    since, late>>
    BY <1>3 DEF OnMessage, serverVars, socketVars, bounds
  <2> QED BY <1>1, <2>2, <2>3 DEF TypeOK
<1>4. CASE OnClose
  <2>1. attempt' \in 0 .. MaxAttempt
    BY <1>4 DEF OnClose, TypeOK, MaxAttempt
  <2> QED BY <1>4, <2>1 DEF OnClose, TypeOK, serverVars, dataVars, peerVars, bounds, history
<1>5. CASE Connect
  <2>1. UNCHANGED <<version, live, exists, counted, events, mounted, screen, error, reload, fetch, cast,
                    deleted, running, attempt, connected, peer, snapshot, wire, drops, failures, moves,
                    bounces>>
    BY <1>5 DEF Connect, serverVars, dataVars, peerVars, bounds
  <2>2. since' \in Versions \cup {None}
    BY <1>5 DEF Connect, TypeOK
  <2>3. late' \subseteq Versions
    <3>1. UnderWay \subseteq Versions
      BY DEF UnderWay, Messages, TypeOK
    <3> QED BY <1>5, <3>1 DEF Connect, TypeOK
  <2>4. timer' \in BOOLEAN /\ socket' = "connecting"
    BY <1>5 DEF Connect
  <2> QED BY <2>1, <2>2, <2>3, <2>4 DEF TypeOK
<1>6. CASE Disable
  <2>1. UNCHANGED <<version, live, exists, counted, events, mounted, screen, error, reload, fetch, cast,
                    deleted, attempt, connected, drops, failures, moves, since, late, bounces>>
    BY <1>6 DEF Disable, serverVars, dataVars, bounds, history
  <2> QED BY <1>1, <1>6, <2>1 DEF Disable, Cleanup, Hangup, TypeOK
<1>7. CASE Leave
  <2>1. /\ fetch' \in [state : {"none", "sent", "ok", "notFound", "failed"}, version : Versions]
        /\ cast' \in [state : {"none", "sent", "counted", "ok", "refused", "done"}, version : Versions]
    BY <1>1, <1>7 DEF Leave, NoRequest
  <2>2. moves' \in 0 .. MaxMoves
    BY <1>7, BoundsAssumption DEF Leave, Move, TypeOK
  <2> QED BY <1>1, <1>7, <2>1, <2>2 DEF Leave, Cleanup, Hangup, TypeOK, serverVars
<1> QED BY <1>2, <1>3, <1>4, <1>5, <1>6, <1>7

LEMMA NextType ==
    ASSUME TypeOK, TallyInv, [Next]_vars
    PROVE  TypeOK'
<1>1. CASE UNCHANGED vars
  BY <1>1 DEF TypeOK, vars
<1> QED BY <1>1, TallyType, ServerType, DataType, SocketType DEF Next, Work

-----------------------------------------------------------------------------
(* The steps                                                               *)

\* The steps that neither touch the connection nor the ledger.
Local == Answer \/ AnswerVote \/ RunEffect \/ Land \/ Retry \/ Cast \/ CastLands

LEMMA LocalSteps ==
    ASSUME Local
    PROVE  UNCHANGED <<version, live, exists, counted, events, mounted, deleted, running, socket,
                       timer, attempt, connected, peer, snapshot, wire, drops, since, late, bounces>>
  BY DEF Local, Answer, AnswerVote, RunEffect, Land, Retry, Cast, CastLands, serverVars, dataVars,
         socketVars, peerVars, bounds, history

\* The steps of the ledger: what is new on the wire was an event.
Ledger ==
    \/ Count \/ CountOwn \/ Delete
    \/ (\E v \in counted : ApplyLive(v)) \/ (\E m \in events : Publish(m))

LEMMA LedgerSteps ==
    ASSUME TypeOK, Ledger
    PROVE  /\ UNCHANGED <<mounted, screen, error, reload, fetch, deleted, running, socket, timer,
                          attempt, connected, peer, snapshot, drops, since, late, bounces>>
           /\ live <= live'
           /\ \A v \in UnderWay' : v \in UnderWay \/ v = version + 1
           /\ \A i \in DOMAIN wire' :
                 (i \in DOMAIN wire /\ wire'[i] = wire[i]) \/ wire'[i] \in events
           /\ peer \in {"none", "resolved", "upgraded"} => wire' = wire
<1>1. UNCHANGED <<mounted, screen, error, reload, fetch, deleted, running, socket, timer,
                  attempt, connected, peer, snapshot, drops, since, late, bounces>>
  BY DEF Ledger, Count, CountOwn, Delete, ApplyLive, Publish, dataVars, socketVars, peerVars,
         bounds, history
<1>2. live <= live'
  <2>1. live' = live \/ live' = live + 1
    BY DEF Ledger, Count, CountOwn, Increment, Delete, ApplyLive, Publish
  <2> QED BY <2>1 DEF TypeOK, Versions
<1>3. \A v \in UnderWay' : v \in UnderWay \/ v = version + 1
  <2>1. CASE Count \/ CountOwn
    BY <2>1 DEF Count, CountOwn, Increment, UnderWay
  <2>2. CASE Delete
    BY <2>2 DEF Delete, UnderWay
  <2>3. CASE \E v \in counted : ApplyLive(v)
    BY <2>3 DEF ApplyLive, UnderWay, Results
  <2>4. CASE \E m \in events : Publish(m)
    BY <2>4 DEF Publish, UnderWay
  <2> QED BY <2>1, <2>2, <2>3, <2>4 DEF Ledger
<1>4. wire' = wire \/ \E m \in events : Push(m)
  BY DEF Ledger, Count, CountOwn, Increment, Delete, ApplyLive, Publish, peerVars
<1>5. wire \in Seq(Messages) /\ events \subseteq Messages
  BY DEF TypeOK
<1> QED BY <1>1, <1>2, <1>3, <1>4, <1>5, Pushed

LEMMA NextSocket ==
    ASSUME TypeOK, SocketInv, [Next]_vars
    PROVE  SocketInv'
<1>1. CASE Local \/ UNCHANGED vars
  <2>1. UNCHANGED <<mounted, running, socket, timer, peer, wire>>
    BY <1>1, LocalSteps DEF vars
  <2> QED BY <2>1 DEF SocketInv
<1>2. CASE Ledger
  BY <1>2, LedgerSteps DEF SocketInv
<1>3. CASE Resolve \/ Drop
  BY <1>3 DEF Resolve, Drop, Hangup, SocketInv, TypeOK
<1>4. CASE Serve
  <2>1. UNCHANGED <<mounted, running, socket, timer>>
    BY <1>4 DEF Serve, socketVars
  <2> QED BY <1>4, <2>1 DEF Serve, SocketInv
<1>5. CASE OnOpen \/ OnMessage
  BY <1>5 DEF OnOpen, OnMessage, socketVars, peerVars, SocketInv
<1>6. CASE OnClose \/ Connect
  BY <1>6 DEF OnClose, Connect, peerVars, SocketInv
<1>7. CASE Disable \/ Leave
  BY <1>7 DEF Disable, Leave, Cleanup, Hangup, SocketInv
<1> QED BY <1>1, <1>2, <1>3, <1>4, <1>5, <1>6, <1>7 DEF Next, Work, Local, Ledger

\* The steps outside the ledger leave it alone.
LEMMA NextTally ==
    ASSUME TypeOK, TallyInv, [Next]_vars
    PROVE  TallyInv'
<1>0. version \in Nat /\ live \in Nat /\ Cardinality(counted) \in Nat
  BY CountedCardinality DEF TypeOK, Versions
<1>1. CASE Count \/ CountOwn
  <2>1. /\ version' = version + 1 /\ live' = live
        /\ counted' = counted \cup {version'}
    BY <1>1 DEF Count, CountOwn, Increment
  <2>2. IsFiniteSet(counted') /\ Cardinality(counted') \in Nat
    BY <2>1, CountedCardinality, FS_AddElement, FS_CardinalityType
  <2>3. Cardinality(counted') <= Cardinality(counted) + 1
    BY <2>1, CountedCardinality
  <2>4. live + Cardinality(counted) <= version
    BY DEF TallyInv
  <2>5. live + Cardinality(counted') <= version + 1
    BY <1>0, <2>2, <2>3, <2>4
  <2> QED BY <2>1, <2>5 DEF TallyInv
<1>2. ASSUME NEW v \in counted, ApplyLive(v) PROVE TallyInv'
  <2>1. /\ version' = version /\ counted' = counted \ {v}
        /\ live' = live \/ live' = live + 1
    BY <1>2 DEF ApplyLive
  <2> QED BY <1>0, <2>1, CountedCardinality DEF TallyInv
<1>3. CASE Delete \/ \E m \in events : Publish(m)
  BY <1>3 DEF Delete, Publish, TallyInv
<1>4. CASE Resolve \/ Serve \/ Drop \/ OnOpen \/ OnMessage \/ OnClose \/ Connect \/ Disable \/ Leave
  BY <1>4 DEF Resolve, Serve, Drop, OnOpen, OnMessage, OnClose, Connect, Disable, Leave,
              serverVars, TallyInv
<1>5. CASE Local \/ UNCHANGED vars
  BY <1>5, LocalSteps DEF vars, TallyInv
<1> QED BY <1>1, <1>2, <1>3, <1>4, <1>5 DEF Next, Work, Local

LEMMA NextFresh ==
    ASSUME TypeOK, SocketInv, TallyInv, FreshInv, [Next]_vars
    PROVE  FreshInv'
<1>0. /\ version \in Nat /\ live \in Nat /\ snapshot \in Nat /\ wire \in Seq(Messages)
      /\ since \in Nat \cup {None}
  BY DEF TypeOK, Versions
<1>1. CASE Local \/ UNCHANGED vars
  <2>1. UNCHANGED <<connected, since, late, live, counted, events, peer, snapshot, wire>>
    BY <1>1, LocalSteps DEF vars
  <2>2. UnderWay' = UnderWay /\ \A v : CaughtUp(v)' = CaughtUp(v)
    BY <2>1 DEF UnderWay, CaughtUp
  <2> QED BY <2>1, <2>2 DEF FreshInv
<1>2. CASE Ledger
  <2>0. live' \in Nat
    <3>1. TypeOK'
      BY <1>2, TallyType DEF Ledger
    <3> QED BY <3>1 DEF TypeOK, Versions
  <2>1. UNCHANGED <<connected, since, late, peer, snapshot>> /\ live <= live'
    BY <1>2, LedgerSteps
  <2>2. \A v : CaughtUp(v)' = CaughtUp(v)
    BY <2>1 DEF CaughtUp
  <2>3. since # None => connected' /\ since <= live'
    BY <1>0, <2>0, <2>1 DEF FreshInv
  <2>4. \A v \in UnderWay' : CaughtUp(v)
    <3>1. CaughtUp(version + 1)
      BY <1>0, CountedCardinality DEF CaughtUp, FreshInv, TallyInv
    <3> QED BY <1>2, <3>1, LedgerSteps DEF FreshInv
  <2>5. \A i \in DOMAIN wire' : wire'[i].type = "results" => CaughtUp(wire'[i].version)
    <3>1. \A m \in events : m.type = "results" => CaughtUp(m.version)
      BY DEF UnderWay, FreshInv
    <3> QED BY <1>2, <3>1, LedgerSteps DEF FreshInv
  <2> QED BY <2>1, <2>2, <2>3, <2>4, <2>5 DEF FreshInv
<1>3. CASE Resolve \/ Drop
  <2>1. UNCHANGED <<connected, since, late, live, counted, events>>
    BY <1>3 DEF Resolve, Drop, serverVars, history
  <2>2. \A v : CaughtUp(v)' = CaughtUp(v)
    BY <2>1 DEF CaughtUp
  <2>3. CaughtUp(live)
    BY <1>0 DEF FreshInv, CaughtUp
  <2>4. (peer' = "none" \/ snapshot' = live) /\ (wire' = wire \/ wire' = <<>>)
    BY <1>3 DEF Resolve, Drop, Hangup
  <2> QED BY <1>0, <2>1, <2>2, <2>3, <2>4 DEF FreshInv, UnderWay
<1>4. CASE Serve
  <2>1. UNCHANGED <<connected, since, late, live, counted, events>>
    BY <1>4 DEF Serve, serverVars, socketVars, history
  <2>2. \A v : CaughtUp(v)' = CaughtUp(v)
    BY <2>1 DEF CaughtUp
  <2>3. wire' = wire \/ (CaughtUp(snapshot) /\ Push(Results(snapshot)))
    BY <1>4 DEF Serve, FreshInv
  <2>4. \A i \in DOMAIN wire' : wire'[i].type = "results" => CaughtUp(wire'[i].version)
    <3>1. CASE wire' = wire
      BY <3>1 DEF FreshInv
    <3>2. CASE CaughtUp(snapshot) /\ Push(Results(snapshot))
      <4>1. /\ Results(snapshot).version = snapshot
            /\ \A i \in DOMAIN wire' :
                  (i \in DOMAIN wire /\ wire'[i] = wire[i]) \/ wire'[i] = Results(snapshot)
        BY <3>2, Pushed, ResultsAreMessages DEF TypeOK
      <4> QED BY <3>2, <4>1 DEF FreshInv
    <3> QED BY <2>3, <3>1, <3>2
  <2>5. peer' \in {"resolved", "upgraded", "joined"} => CaughtUp(snapshot')
    BY <1>4 DEF Serve, FreshInv
  <2> QED BY <2>1, <2>2, <2>4, <2>5 DEF FreshInv, UnderWay
<1>5. CASE OnOpen
  BY <1>5 DEF OnOpen, serverVars, peerVars, FreshInv, UnderWay, CaughtUp
<1>6. CASE OnMessage
  <2>1. UNCHANGED <<connected, since, late, live, counted, events, peer, snapshot>>
    BY <1>6 DEF OnMessage, serverVars, socketVars
  <2>2. \A v : CaughtUp(v)' = CaughtUp(v)
    BY <2>1 DEF CaughtUp
  <2>3. \A i \in DOMAIN wire' : i + 1 \in DOMAIN wire /\ wire'[i] = wire[i + 1]
    BY <1>0, <1>6 DEF OnMessage
  <2> QED BY <2>1, <2>2, <2>3 DEF FreshInv, UnderWay
<1>7. CASE OnClose
  BY <1>7 DEF OnClose, serverVars, peerVars, history, FreshInv, UnderWay, CaughtUp
<1>8. CASE Connect /\ connected
  <2>1. UNCHANGED <<connected, live, counted, events, peer, wire>>
    BY <1>8 DEF Connect, serverVars, peerVars
  <2>2. since' = live /\ late' = UnderWay
    BY <1>8 DEF Connect
  <2>3. peer = "none" /\ wire = <<>>
    BY <1>8 DEF Connect, SocketInv
  <2>4. UnderWay' = late'
    BY <2>1, <2>2 DEF UnderWay
  <2> QED BY <1>0, <1>8, <2>1, <2>2, <2>3, <2>4 DEF FreshInv, CaughtUp
<1>9. CASE Connect /\ ~connected
  BY <1>9 DEF Connect, serverVars, peerVars, FreshInv, UnderWay, CaughtUp
<1>10. CASE Disable
  <2>1. /\ UNCHANGED <<connected, since, late, live, counted, events>>
        /\ peer' = "none" /\ wire' = <<>>
    BY <1>10 DEF Disable, Cleanup, Hangup, serverVars, history
  <2> QED BY <2>1 DEF FreshInv, UnderWay, CaughtUp
<1>11. CASE Leave
  BY <1>11 DEF Leave, Cleanup, Hangup, FreshInv, CaughtUp
<1> QED BY <1>1, <1>2, <1>3, <1>4, <1>5, <1>6, <1>7, <1>8, <1>9, <1>10, <1>11
        DEF Next, Work, Local, Ledger

\* A load ends with something to show or with an error.
LEMMA NextLoaded ==
    ASSUME TypeOK, LoadedInv, [Next]_vars
    PROVE  LoadedInv'
<1>0. fetch.version \in Nat /\ cast.version \in Nat
  BY DEF TypeOK, Versions
<1>1. CASE Answer \/ RunEffect
  <2>1. fetch'.state # "none"
    BY <1>1 DEF Answer, RunEffect, Sent, TypeOK
  <2> QED BY <2>1 DEF LoadedInv
<1>2. CASE Land \/ Retry
  <2>1. UNCHANGED <<mounted, screen, error, fetch>> \/ screen' = fetch.version \/ error' # "none"
    BY <1>2 DEF Land, Retry
  <2> QED BY <1>0, <2>1, NoneAssumption DEF LoadedInv
<1>3. CASE Cast \/ CastLands
  <2>1. /\ UNCHANGED <<mounted, error, fetch>>
        /\ screen' = screen \/ screen' = cast.version
    BY <1>3 DEF Cast, CastLands, dataVars
  <2> QED BY <1>0, <2>1, NoneAssumption DEF LoadedInv
<1>4. CASE Leave
  BY <1>4 DEF Leave, LoadedInv
<1>5. CASE OnMessage
  <2>1. Head(wire).version \in Versions
    BY <1>5, NextMessage DEF OnMessage, TypeOK
  <2> QED BY <1>5, <2>1, NoneAssumption DEF OnMessage, LoadedInv, Versions
<1>6. CASE Ledger
  BY <1>6, LedgerSteps DEF LoadedInv
<1>7. CASE AnswerVote \/ Resolve \/ Serve \/ Drop \/ OnOpen \/ OnClose \/ Connect \/ Disable
           \/ UNCHANGED vars
  <2>1. UNCHANGED <<mounted, screen, error, fetch>>
    BY <1>7 DEF AnswerVote, Resolve, Serve, Drop, OnOpen, OnClose, Connect, Disable, dataVars, vars
  <2> QED BY <2>1 DEF LoadedInv
<1> QED BY <1>1, <1>2, <1>3, <1>4, <1>5, <1>6, <1>7 DEF Next, Work, Ledger

\* A reconnect asks for the data again, and nothing older takes the place of the answer,
\* but for an event that was under way.
LEMMA NextCatchUp ==
    ASSUME TypeOK, SocketInv, FreshInv, CatchUpInv, [Next]_vars
    PROVE  CatchUpInv'
<1>0. /\ live \in Nat /\ since \in Nat \cup {None} /\ screen \in Nat \cup {None}
      /\ fetch.version \in Nat /\ wire \in Seq(Messages)
  BY DEF TypeOK, Versions
<1>a. (UNCHANGED <<since, late>>) => \A v : CaughtUp(v)' = CaughtUp(v)
  BY DEF CaughtUp
<1>1. CASE Answer
  <2>1. UNCHANGED <<since, late, socket, reload, cast, screen, error>>
    BY <1>1 DEF Answer, socketVars, history
  <2>2. fetch'.state = "ok" => fetch'.version = live
    BY <1>1 DEF Answer, TypeOK
  <2>3. fetch'.state # "none"
    BY <1>1 DEF Answer, TypeOK
  <2>4. CaughtUp(live)
    BY <1>0 DEF FreshInv, CaughtUp
  <2> QED BY <1>a, <2>1, <2>2, <2>3, <2>4 DEF CatchUpInv
<1>2. CASE RunEffect
  <2>1. UNCHANGED <<since, late, socket>> /\ fetch'.state = "sent"
    BY <1>2 DEF RunEffect, Sent, socketVars, history
  <2> QED BY <2>1 DEF CatchUpInv
<1>3. CASE Land
  <2>1. UNCHANGED <<since, late, socket, reload, cast>> /\ fetch'.state = "none"
    BY <1>3 DEF Land, NoRequest, socketVars, history
  <2>2. \/ fetch.state = "ok" /\ screen' = fetch.version
        \/ error' # "none"
    BY <1>3 DEF Land
  <2> QED BY <1>0, <1>a, <2>1, <2>2, NoneAssumption DEF CatchUpInv
<1>4. CASE Retry
  BY <1>4 DEF Retry, CatchUpInv
<1>5. CASE Cast
  <2>1. UNCHANGED <<since, late, socket, reload, fetch, error, screen>> /\ cast.state = "none"
    BY <1>5 DEF Cast, NoRequest, dataVars, socketVars, history
  <2> QED BY <1>a, <2>1 DEF CatchUpInv
<1>6. CASE CastLands
  <2>1. UNCHANGED <<since, late, socket, fetch, error>> /\ cast'.state = "done" /\ (reload => reload')
    BY <1>6 DEF CastLands, socketVars, history, TypeOK
  <2> QED BY <1>a, <2>1 DEF CatchUpInv
<1>7. CASE AnswerVote \/ Ledger
  <2>1. cast'.state = "done" <=> cast.state = "done"
    BY <1>7 DEF Ledger, Count, CountOwn, Delete, ApplyLive, Publish, AnswerVote, NoRequest, TypeOK
  <2>2. UNCHANGED <<since, late, socket, reload, fetch, error, screen>>
    BY <1>7, LedgerSteps DEF AnswerVote, dataVars, socketVars, history
  <2> QED BY <1>a, <2>1, <2>2 DEF CatchUpInv
<1>8. CASE OnOpen
  <2>1. UNCHANGED <<since, late>> /\ reload' = (reload \/ connected)
    BY <1>8 DEF OnOpen
  <2> QED BY <2>1 DEF CatchUpInv, FreshInv
<1>9. CASE OnMessage
  <2>1. UNCHANGED <<since, late, socket, reload, cast, fetch, error>>
    BY <1>9 DEF OnMessage, socketVars
  <2>2. Head(wire).version \in Nat /\ Head(wire) = wire[1] /\ 1 \in DOMAIN wire
    BY <1>0, <1>9, NextMessage DEF OnMessage, Versions
  <2>3. Head(wire) \in Messages
    BY <1>0, <2>2
  <2>4. screen' = screen \/ (screen' = Head(wire).version /\ Head(wire).type = "results")
    BY <1>9, <2>3 DEF OnMessage, Messages
  <2>5. screen' = screen \/ (screen' # None /\ CaughtUp(screen'))
    BY <2>2, <2>4, NoneAssumption DEF FreshInv
  <2> QED BY <1>a, <2>1, <2>5 DEF CatchUpInv
<1>10. CASE Resolve \/ Serve \/ UNCHANGED vars
  <2>1. /\ UNCHANGED <<since, late, reload, cast, fetch, error, screen>>
        /\ socket' = socket \/ socket' = "dropped"
    BY <1>10 DEF Resolve, Serve, dataVars, socketVars, history, vars
  <2> QED BY <1>a, <2>1 DEF CatchUpInv
<1>11. CASE Drop \/ OnClose \/ Connect \/ Disable \/ Leave
  BY <1>11 DEF Drop, OnClose, Connect, Disable, Leave, Cleanup, CatchUpInv
<1> QED BY <1>1, <1>2, <1>3, <1>4, <1>5, <1>6, <1>7, <1>8, <1>9, <1>10, <1>11
        DEF Next, Work, Ledger

-----------------------------------------------------------------------------
(* The safety properties                                                   *)

\* What is under way, what is shown and what the reconnect asked for stay tied together in
\* every execution.
THEOREM PageInvHolds == Spec => []PageInv
<1>1. PageInv /\ [Next]_vars => PageInv'
  BY NextType, NextSocket, NextTally, NextFresh, NextLoaded, NextCatchUp DEF PageInv
<1> QED BY InitPage, <1>1, PTL DEF Spec

\* An attempt is only scheduled when there is no socket, and a page that was left, or whose
\* poll was deleted, neither has nor awaits one (useWebSocket.js onclose and cleanup).
THEOREM OneSocketOnly == Spec => []OneSocketAtATime
<1>1. PageInv => OneSocketAtATime
  BY DEF PageInv, SocketInv, OneSocketAtATime
<1> QED BY PageInvHolds, <1>1, PTL

\* A page at rest that has reconnected, and has not voted, shows what was counted while it
\* was cut off, whatever loads were under way when it broke (useWebSocket.js:31-35), or the
\* event of a vote whose calls were under way when it reconnected.
THEOREM MissedVotesDoCatchUp == Spec => []MissedVotesAreCaughtUp
<1>1. PageInv => MissedVotesAreCaughtUp
  <2> SUFFICES ASSUME PageInv, Settled, cast = NoRequest
               PROVE  screen # None /\ CaughtUp(screen)
    BY DEF MissedVotesAreCaughtUp
  <2>1. fetch.state = "none" /\ cast.state = "none"
    BY DEF Settled, NoRequest
  <2>2. screen # None
    BY <2>1 DEF PageInv, LoadedInv, Settled
  <2>3. CaughtUp(screen)
    BY <2>1 DEF PageInv, CatchUpInv, Settled, CaughtUp
  <2> QED BY <2>2, <2>3
<1> QED BY PageInvHolds, <1>1, PTL
=============================================================================
