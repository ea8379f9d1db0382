------------------------------ MODULE LivePage -----------------------------
(***************************************************************************)
(* One browser tab that shows a poll: the hooks that load it               *)
(* (useAsyncData), keep a socket open (useWebSocket) and put both together *)
(* (useLivePoll), and the vote form (VotePage).  The server is as small as *)
(* handlers/ws.go allows: it resolves the poll, upgrades, joins the room   *)
(* and greets, and each of these comes at a time of its own.               *)
(*                                                                         *)
(* The poll is its number of votes: what is shown is the number in the     *)
(* page's hands.  A vote is counted in three calls (services/poll.go): the *)
(* $inc of MongoDB, whose tally its event carries, the HINCRBY of the      *)
(* counters in Redis, which every read takes its numbers from, and the     *)
(* PUBLISH.  The calls of different votes come in any order.               *)
(* JavaScript runs one callback at a time, so each callback is an action,  *)
(* and so is the effect that React runs after one.                         *)
(***************************************************************************)
EXTENDS Naturals, Sequences, FiniteSets

CONSTANTS
    MaxVersion,   \* bound on the votes that are counted
    MaxDrops,     \* bound on the connections that fail or break
    MaxFailures,  \* bound on the REST answers and the calls to Redis that fail
    MaxMoves,     \* bound on what the user of this page, or the owner, does
    None          \* nothing has been loaded

ASSUME BoundsAssumption == {MaxVersion, MaxDrops, MaxFailures, MaxMoves} \subseteq Nat
ASSUME NoneAssumption   == None \notin Nat

VARIABLES
    version,    \* the votes that MongoDB has counted
    live,       \* the votes that Redis has counted
    exists,     \* is the poll in the database?
    counted,    \* the votes between their $inc and their HINCRBY, by their tally
    events,     \* the events that are to be published, and dispatched, yet
    mounted,    \* is the page on screen?
    screen,     \* data of useAsyncData: the version shown, or None
    error,      \* error of useAsyncData
    reload,     \* refetch() was called, the effect has not run again yet
    fetch,      \* the request of the current effect; older ones are cancelled
    cast,       \* the POST of handleVote
    deleted,    \* deleted of useLivePoll
    running,    \* the socket effect is on; FALSE is its disposed
    socket,     \* the current WebSocket; "dropped" until onclose runs
    timer,      \* is a reconnect scheduled?
    attempt,    \* the attempts since the last open
    connected,  \* hasConnectedBefore
    peer,       \* how far Serve has come with this connection
    snapshot,   \* the votes Serve took from Results
    wire,       \* the messages on their way to the browser
    drops, failures, moves,  \* how much of the bounds is used up
    since,      \* history: live when the last reconnect was begun, or None
    late,       \* history: the votes under way then, which are announced afterwards
    bounces     \* history: connections that opened since the last message

serverVars == <<version, live, exists, counted, events>>
dataVars   == <<screen, error, reload, fetch>>
socketVars == <<running, socket, timer, attempt, connected>>
peerVars   == <<peer, snapshot, wire>>
bounds     == <<drops, failures, moves>>
history    == <<since, late, bounces>>
vars == <<version, live, exists, counted, events, mounted, screen, error, reload, fetch, cast,
          deleted, running, socket, timer, attempt, connected, peer, snapshot, wire, drops,
          failures, moves, since, late, bounces>>

Versions == 0 .. MaxVersion

\* backoffDelay doubles 500 ms up to a cap of 15 s: all attempts from the fifth on
\* are alike.
MaxAttempt == 5

NoRequest == [state |-> "none", version |-> 0]
Sent      == [state |-> "sent", version |-> 0]

Messages == [type : {"results", "deleted"}, version : Versions]

Results(v) == [type |-> "results", version |-> v]

\* The votes that are still to be announced.
UnderWay == counted \cup {m.version : m \in {e \in events : e.type = "results"}}

\* Mounting runs both effects: the load and the first connect.
Init ==
    /\ version = 0 /\ live = 0 /\ exists = TRUE /\ counted = {} /\ events = {}
    /\ mounted = TRUE
    /\ screen = None /\ error = "none" /\ reload = FALSE /\ fetch = Sent
    /\ cast = NoRequest
    /\ deleted = FALSE
    /\ running = TRUE /\ socket = "connecting" /\ timer = FALSE
    /\ attempt = 0 /\ connected = FALSE
    /\ peer = "none" /\ snapshot = 0 /\ wire = <<>>
    /\ drops = 0 /\ failures = 0 /\ moves = 0
    /\ since = None /\ late = {} /\ bounces = 0

----------------------------------------------------------------------------
(* The server                                                              *)

Move == moves < MaxMoves /\ moves' = moves + 1

Fails == failures < MaxFailures /\ failures' = failures + 1

\* The hub hands a message to the clients that have joined.
Push(m) == wire' = IF peer \in {"joined", "greeted"} THEN Append(wire, m) ELSE wire

\* The $inc of a vote.
Increment ==
    /\ exists /\ version < MaxVersion
    /\ version' = version + 1
    /\ counted' = counted \cup {version'}
    /\ UNCHANGED <<live, exists, events>>

\* Somebody's vote reaches MongoDB.
Count ==
    /\ Increment
    /\ UNCHANGED <<mounted, dataVars, cast, deleted, socketVars, peerVars, bounds, history>>

\* The vote of this page does.
CountOwn ==
    /\ cast.state = "sent" /\ Increment
    /\ cast' = [state |-> "counted", version |-> version']
    /\ UNCHANGED <<mounted, dataVars, deleted, socketVars, peerVars, bounds, history>>

\* applyLive: the HINCRBY, whose failure is only logged; the event is next.
ApplyLive(v) ==
    /\ v \in counted
    /\ counted' = counted \ {v}
    /\ events' = events \cup {Results(v)}
    /\ \/ live' = live + 1 /\ UNCHANGED failures
       \/ Fails /\ UNCHANGED live
    /\ UNCHANGED <<version, exists, mounted, dataVars, cast, deleted, socketVars, peerVars, drops,
                   moves, history>>

\* PUBLISH, and the dispatch of the hub; or the event is lost, which is only logged.
Publish(m) ==
    /\ m \in events
    /\ events' = events \ {m}
    /\ \/ Push(m) /\ UNCHANGED failures
       \/ Fails /\ UNCHANGED wire
    /\ UNCHANGED <<version, live, exists, counted, mounted, dataVars, cast, deleted, socketVars, peer,
                   snapshot, drops, moves, history>>

\* The owner's Delete; its event is under way.  (Votes that loaded the poll before are
\* left out from here on, and so are the counters: nothing reads them any more.)
Delete ==
    /\ exists /\ Move
    /\ exists' = FALSE
    /\ events' = events \cup {[type |-> "deleted", version |-> 0]}
    /\ UNCHANGED <<version, live, counted, mounted, dataVars, cast, deleted, socketVars, peerVars,
                   drops, failures, history>>

\* GET /api/polls/:id, with the numbers of Redis, or the request fails on the way.
Answer ==
    /\ fetch.state = "sent"
    /\ \/ /\ fetch' = IF exists THEN [state |-> "ok", version |-> live]
                                 ELSE [fetch EXCEPT !.state = "notFound"]
          /\ UNCHANGED failures
       \/ /\ Fails
          /\ fetch' = [fetch EXCEPT !.state = "failed"]
    /\ UNCHANGED <<serverVars, mounted, screen, error, reload, cast, deleted, socketVars, peerVars,
                   drops, moves, history>>

\* The answer of POST /vote: the tally of its $inc, when the calls to Redis are over
\* (the hub may dispatch the event later); a refusal (already voted, closed); or an error
\* that leaves the form as it was, though the vote may have been counted.
AnswerVote ==
    /\ \/ /\ cast.state = "counted" /\ cast.version \notin counted
          /\ cast' = [cast EXCEPT !.state = "ok"]
          /\ UNCHANGED failures
       \/ /\ cast.state = "sent"
          /\ cast' = [cast EXCEPT !.state = "refused"]
          /\ UNCHANGED failures
       \/ /\ cast.state \in {"sent", "counted"} /\ Fails
          /\ cast' = NoRequest
    /\ UNCHANGED <<serverVars, mounted, dataVars, deleted, socketVars, peerVars, drops, moves,
                   history>>

\* Serve resolves the poll; a poll that is gone refuses the handshake.
Resolve ==
    /\ socket = "connecting" /\ peer = "none"
    /\ IF exists THEN peer' = "resolved" /\ snapshot' = live /\ UNCHANGED socket
                 ELSE socket' = "dropped" /\ UNCHANGED <<peer, snapshot>>
    /\ UNCHANGED <<serverVars, mounted, dataVars, cast, deleted, running, timer, attempt, connected,
                   wire, bounds, history>>

\* Upgrade, Join, and the snapshot as the first message.
Serve ==
    /\ \/ peer = "resolved" /\ peer' = "upgraded" /\ UNCHANGED wire
       \/ peer = "upgraded" /\ peer' = "joined" /\ UNCHANGED wire
       \/ peer = "joined" /\ peer' = "greeted" /\ Push(Results(snapshot))
    /\ snapshot' = IF peer = "joined" THEN 0 ELSE snapshot
    /\ UNCHANGED <<serverVars, mounted, dataVars, cast, deleted, socketVars, bounds, history>>

\* The server's end of a connection that is gone.
Hangup == peer' = "none" /\ snapshot' = 0 /\ wire' = <<>>

\* A deviation: onerror schedules a reconnect, and so does the onclose that follows.
DropSchedulingOnError ==
    /\ socket \in {"connecting", "open"} /\ drops < MaxDrops
    /\ drops' = drops + 1
    /\ socket' = "dropped" /\ Hangup
    /\ timer' = TRUE
    /\ attempt' = IF attempt < MaxAttempt THEN attempt + 1 ELSE attempt
    /\ UNCHANGED <<serverVars, mounted, dataVars, cast, deleted, running, connected, failures,
                   moves, history>>

\* The connection fails or breaks; what is on the wire is lost.  onerror does nothing.
Drop ==
    /\ socket \in {"connecting", "open"} /\ drops < MaxDrops
    /\ drops' = drops + 1
    /\ socket' = "dropped" /\ Hangup
    /\ UNCHANGED <<serverVars, mounted, dataVars, cast, deleted, running, timer, attempt, connected,
                   failures, moves, history>>

----------------------------------------------------------------------------
(* useAsyncData                                                            *)

\* The pages render the poll when no load is under way and the last one succeeded.
Shown == fetch = NoRequest /\ error = "none" /\ screen # None

\* The effect runs again: its cleanup cancels the request in flight.
RunEffect ==
    /\ mounted /\ reload
    /\ reload' = FALSE /\ error' = "none" /\ fetch' = Sent
    /\ UNCHANGED <<serverVars, mounted, screen, cast, deleted, socketVars, peerVars, bounds, history>>

\* The promise of the current request settles.
Land ==
    /\ fetch.state \in {"ok", "notFound", "failed"}
    /\ fetch' = NoRequest
    /\ IF fetch.state = "ok" THEN screen' = fetch.version /\ UNCHANGED error
                             ELSE error' = fetch.state /\ UNCHANGED screen
    /\ UNCHANGED <<serverVars, mounted, reload, cast, deleted, socketVars, peerVars, bounds, history>>

\* "Try again" on the error page, and the refresh button while the socket is down.
Retry ==
    /\ mounted /\ ~deleted /\ ~reload /\ Move
    /\ error = "failed" \/ (Shown /\ socket # "open")
    /\ reload' = TRUE
    /\ UNCHANGED <<serverVars, mounted, screen, error, fetch, cast, deleted, socketVars, peerVars,
                   drops, failures, history>>

----------------------------------------------------------------------------
(* useWebSocket                                                            *)

\* A deviation: a reconnect is an open like any other.
OnOpenWithoutRefetch ==
    /\ socket = "connecting" /\ peer \in {"upgraded", "joined", "greeted"}
    /\ socket' = "open" /\ attempt' = 0 /\ connected' = TRUE
    /\ bounces' = bounces + 1
    /\ UNCHANGED <<serverVars, mounted, dataVars, cast, deleted, running, timer, peerVars, bounds,
                   since, late>>

\* onopen: the backoff starts anew; a reconnect refetches.
OnOpen ==
    /\ socket = "connecting" /\ peer \in {"upgraded", "joined", "greeted"}
    /\ socket' = "open" /\ attempt' = 0 /\ connected' = TRUE
    /\ reload' = (reload \/ connected)
    /\ bounces' = bounces + 1
    /\ UNCHANGED <<serverVars, mounted, screen, error, fetch, cast, deleted, running, timer,
                   peerVars, bounds, since, late>>

\* onmessage, and handleEvent of useLivePoll.
OnMessage ==
    /\ socket = "open" /\ wire # <<>>
    /\ wire' = Tail(wire)
    /\ bounces' = 0
    /\ IF Head(wire).type = "deleted"
         THEN deleted' = TRUE /\ UNCHANGED screen
         ELSE screen' = Head(wire).version /\ UNCHANGED deleted
    /\ UNCHANGED <<serverVars, mounted, error, reload, fetch, cast, socketVars, peer, snapshot,
                   bounds, since, late>>

\* A deviation: a connection that never opened is not tried again.
OnCloseOfOpenOnly ==
    /\ socket = "dropped"
    /\ socket' = "none"
    /\ timer' = connected
    /\ attempt' = IF attempt < MaxAttempt THEN attempt + 1 ELSE attempt
    /\ UNCHANGED <<serverVars, mounted, dataVars, cast, deleted, running, connected, peerVars, bounds,
                   history>>

\* onclose: the next attempt is scheduled.
OnClose ==
    /\ socket = "dropped"
    /\ socket' = "none" /\ timer' = TRUE
    /\ attempt' = IF attempt < MaxAttempt THEN attempt + 1 ELSE attempt
    /\ UNCHANGED <<serverVars, mounted, dataVars, cast, deleted, running, connected, peerVars, bounds,
                   history>>

\* The timer fires: connect.
Connect ==
    /\ timer /\ running
    /\ timer' = FALSE /\ socket' = "connecting"
    /\ IF connected THEN since' = live /\ late' = UnderWay ELSE UNCHANGED <<since, late>>
    /\ UNCHANGED <<serverVars, mounted, dataVars, cast, deleted, running, attempt, connected, peerVars,
                   bounds, bounces>>

\* The cleanup of the socket effect: disposed, no timer, handlers off, socket closed.
Cleanup ==
    /\ running' = FALSE /\ timer' = FALSE
    /\ socket' = "none" /\ Hangup

\* useLivePoll disables the socket of a deleted poll.
Disable ==
    /\ mounted /\ deleted /\ running
    /\ Cleanup
    /\ UNCHANGED <<serverVars, mounted, dataVars, cast, deleted, attempt, connected, bounds, history>>

\* The user navigates away: both effects are cleaned up, and the state of the page is gone.
Leave ==
    /\ mounted /\ Move
    /\ mounted' = FALSE
    /\ Cleanup
    /\ screen' = None /\ error' = "none" /\ fetch' = NoRequest /\ reload' = FALSE
    /\ cast' = NoRequest /\ deleted' = FALSE /\ attempt' = 0 /\ connected' = FALSE
    /\ since' = None /\ late' = {} /\ bounces' = 0
    /\ UNCHANGED <<serverVars, drops, failures>>

----------------------------------------------------------------------------
(* VotePage                                                                *)

Cast ==
    /\ mounted /\ ~deleted
    /\ Shown /\ cast = NoRequest /\ Move
    /\ cast' = Sent
    /\ UNCHANGED <<serverVars, mounted, dataVars, deleted, socketVars, peerVars, drops, failures,
                   history>>

\* handleVote goes on after its await: replace the data, or refetch.
CastLands ==
    /\ cast.state \in {"ok", "refused"}
    /\ cast' = [state |-> "done", version |-> 0]
    /\ IF cast.state = "ok" THEN screen' = cast.version /\ UNCHANGED reload
                            ELSE reload' = TRUE /\ UNCHANGED screen
    /\ UNCHANGED <<serverVars, mounted, error, fetch, deleted, socketVars, peerVars, bounds, history>>

----------------------------------------------------------------------------

\* What the browser and the server do of themselves.
Work ==
    \/ \E v \in counted : ApplyLive(v)
    \/ \E m \in events : Publish(m)
    \/ Answer \/ AnswerVote \/ Resolve \/ Serve
    \/ RunEffect \/ Land \/ CastLands
    \/ OnOpen \/ OnMessage \/ OnClose \/ Connect \/ Disable

Next == Work \/ Count \/ CountOwn \/ Delete \/ Drop \/ Retry \/ Cast \/ Leave

Spec == Init /\ [][Next]_vars

\* Timers fire, queued callbacks and effects run, the server serves: each for itself,
\* since the browser's event queue and the server's goroutines starve none of them.
\* Votes, deletions, drops and the user are not fair.
Fairness ==
    /\ WF_vars(\E v \in counted : ApplyLive(v)) /\ WF_vars(\E m \in events : Publish(m))
    /\ WF_vars(Answer) /\ WF_vars(AnswerVote) /\ WF_vars(Resolve) /\ WF_vars(Serve)
    /\ WF_vars(RunEffect) /\ WF_vars(Land) /\ WF_vars(CastLands)
    /\ WF_vars(OnOpen) /\ WF_vars(OnMessage) /\ WF_vars(OnClose) /\ WF_vars(Connect)
    /\ WF_vars(Disable)

FairSpec == Spec /\ Fairness

----------------------------------------------------------------------------
(* Properties                                                              *)

TypeOK ==
    /\ version \in Versions /\ live \in Versions /\ exists \in BOOLEAN
    /\ counted \subseteq Versions /\ events \subseteq Messages
    /\ mounted \in BOOLEAN
    /\ screen \in Versions \cup {None}
    /\ error \in {"none", "notFound", "failed"}
    /\ reload \in BOOLEAN
    /\ fetch \in [state : {"none", "sent", "ok", "notFound", "failed"}, version : Versions]
    /\ cast \in [state : {"none", "sent", "counted", "ok", "refused", "done"}, version : Versions]
    /\ deleted \in BOOLEAN
    /\ running \in BOOLEAN
    /\ socket \in {"none", "connecting", "open", "dropped"}
    /\ timer \in BOOLEAN
    /\ attempt \in 0 .. MaxAttempt
    /\ connected \in BOOLEAN
    /\ peer \in {"none", "resolved", "upgraded", "joined", "greeted"}
    /\ snapshot \in Versions
    /\ wire \in Seq(Messages)
    /\ drops \in 0 .. MaxDrops /\ failures \in 0 .. MaxFailures
    /\ moves \in 0 .. MaxMoves
    /\ since \in Versions \cup {None} /\ late \subseteq Versions /\ bounces \in Nat

\* The page is connected and everything that is under way has arrived.
Settled ==
    /\ mounted /\ exists /\ ~deleted
    /\ socket = "open" /\ peer = "greeted" /\ wire = <<>>
    /\ fetch = NoRequest /\ ~reload /\ error = "none" /\ cast.state \in {"none", "done"}

\* What a page that has reconnected may show: no fewer votes than the server gave out
\* when the reconnect was begun, or the event of a vote that was under way just then.
CaughtUp(v) == since = None \/ v >= since \/ v \in late

\* A page that has reconnected, and from which nobody has voted, shows whatever was
\* counted while the socket was down (useWebSocket.js:31-35), also when the load of the
\* beginning is still under way; only the event of a vote that was counted before the
\* reconnect, and is published after it, can take it back behind that (see below).
MissedVotesAreCaughtUp == Settled /\ cast = NoRequest => screen # None /\ CaughtUp(screen)

\* Every variable has its type.  A reconnect is only ever scheduled when there is no
\* socket: a failure, for which the browser fires two events, is not counted twice
\* (useWebSocket.js:112-116).  Once the user has left, or the deleted poll's socket is
\* disabled, nothing opens a socket or waits to (useWebSocket.js:58-59).
OneSocketAtATime ==
    /\ TypeOK
    /\ timer => socket = "none"
    /\ ~mounted \/ ~running => socket = "none" /\ ~timer

\* However often the connection fails, a page that stays open is connected and at rest in
\* the end, with every vote announced, as long as its poll exists; a load that failed
\* waits for the user.
SettlesInTheEnd == []<>((Settled /\ UnderWay = {}) \/ ~mounted \/ ~exists \/ error = "failed")

----------------------------------------------------------------------------
(* What the repository says of the program and TLC refutes                 *)

\* useLivePoll.js:37-40, "That is what makes a client correct on the first message it
\* receives after a reconnect": having it, with nothing under way, it is up to date.
FirstMessageIsEnough ==
    Settled /\ since # None /\ UnderWay = {} /\ failures = 0 => screen = version

\* useLivePoll.js:19-21, useWebSocket.js:31-35: the refetch of a reconnect makes good what
\* was missed while the socket was down.
ReconnectedPagesAreCurrent ==
    Settled /\ since # None /\ UnderWay = {} /\ failures = 0 /\ cast = NoRequest => screen >= since

\* VotePage.jsx:86-87, "The vote response contains the updated tally, so the results below
\* are correct": the answer to a vote never replaces newer results.
VoteAnswerIsCurrent ==
    [][cast.state = "ok" /\ cast'.state = "done" => screen' >= screen]_vars

\* useLivePoll.js:60, "No point holding a socket open for a poll that failed to load": a
\* page whose poll was not found gives its socket up.
FailedPollsHoldNoSocket == (error = "notFound") ~> (~running)

\* useWebSocket.js:90-92: a server that accepts and then drops connections meets a growing
\* delay, not a tight reconnect loop.
BouncingBacksOff == (timer /\ bounces >= 2) => attempt >= 2
=============================================================================
