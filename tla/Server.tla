------------------------------- MODULE Server -------------------------------
(***************************************************************************)
(* The life of the server process (cmd/server/main.go) and of the requests *)
(* it accepts (handlers/router.go, the middleware, handlers/response.go):  *)
(* start-up, the middleware chain, the deadlines, and the graceful stop.   *)
(*                                                                         *)
(* Time is in units of five seconds.  What a handler asks of the stores is *)
(* the subject of the other modules; here a call takes any time, works or  *)
(* fails, and a handler is the sequence of its calls: it reads the body of *)
(* the request, asks MongoDB under the context of the request, and Redis   *)
(* under a context of its own.                                             *)
(***************************************************************************)
EXTENDS Configuration

CONSTANTS
    Requests,
    OtherOrigin,   \* a page that is not configured
    NoOrigin,      \* not a browser
    MaxFaults,     \* bound on failing calls and panics
    MaxGone,       \* bound on clients that hang up
    None

ASSUME FaultAssumption == MaxFaults \in Nat /\ MaxGone \in Nat

VARIABLES
    env,       \* the environment, until it is read
    config,
    phase,     \* of main.run
    store, indexes, live, hub,
    signalled, drain, timedOut,   \* the stop: asked for, units waited, given up
    req, faults, goneCount

process == <<env, config, phase, store, indexes, live, hub, signalled, timedOut>>
vars == <<process, drain, req, faults, goneCount>>

Phases == {"config", "mongo", "indexes", "redis", "router", "listening", "closingHub",
           "draining", "closingMongo", "closingRedis", "stopped", "failed"}

Kinds == {"preflight", "unknown", "health", "socket", "vote", "manage"}

Origins == {PageOrigin, OtherOrigin, NoOrigin}

\* What a handler asks of MongoDB: one call, and for a vote that was inserted its $inc,
\* and the recount when that fails.
Mongo == {"store", "increment", "recount"}

\* Then HINCRBY, and PUBLISH.
Calls == Mongo \cup {"count", "publish"}

\* Before all that, the body is read.
InHandler == {"body"} \cup Calls

Idle == [pc |-> "idle"]

Init ==
    /\ env \in Environments /\ config = None
    /\ phase = "config"
    /\ store = "none" /\ live = "none" /\ hub = "none" /\ indexes = FALSE
    /\ signalled = FALSE /\ drain = 0 /\ timedOut = FALSE
    /\ req = [r \in Requests |-> Idle]
    /\ faults = 0 /\ goneCount = 0

ASSUME NoneAssumption == None \notin Int /\ None \notin Environments

-----------------------------------------------------------------------------
(* Start-up: each step may fail, and the process exits                     *)

Fault == faults < MaxFaults /\ faults' = faults + 1

Quiet == UNCHANGED <<indexes, signalled, drain, timedOut, req, goneCount>>

LoadConfig ==
    /\ phase = "config"
    /\ env' = None
    /\ IF Loads(env) THEN config' = Load(env) /\ phase' = "mongo"
                     ELSE phase' = "failed" /\ UNCHANGED config
    /\ UNCHANGED <<store, live, hub, faults>> /\ Quiet

\* Connect pings before it returns.
ConnectMongo ==
    /\ phase = "mongo"
    /\ \/ store' = "open" /\ phase' = "indexes" /\ UNCHANGED faults
       \/ Fault /\ phase' = "failed" /\ UNCHANGED store
    /\ UNCHANGED <<env, config, live, hub>> /\ Quiet

EnsureIndexes ==
    /\ phase = "indexes"
    /\ \/ indexes' = TRUE /\ phase' = "redis" /\ UNCHANGED faults
       \/ Fault /\ phase' = "failed" /\ UNCHANGED indexes
    /\ UNCHANGED <<env, config, store, live, hub, signalled, drain, timedOut, req, goneCount>>

\* redisstore.Connect; then the hub starts to run.
ConnectRedis ==
    /\ phase = "redis"
    /\ \/ live' = "open" /\ hub' = "running" /\ phase' = "router" /\ UNCHANGED faults
       \/ Fault /\ phase' = "failed" /\ UNCHANGED <<live, hub>>
    /\ UNCHANGED <<env, config, store>> /\ Quiet

\* NewRouter refuses proxies it cannot parse.
BuildRouter ==
    /\ phase = "router"
    /\ phase' = IF ~config.proxiesOK THEN "failed" ELSE "listening"
    /\ UNCHANGED <<env, config, store, live, hub, faults>> /\ Quiet

\* ListenAndServe fails, or a signal comes before NotifyContext was called.
Die ==
    /\ phase \in {"mongo", "indexes", "redis", "router", "listening"}
    /\ ~signalled /\ \A r \in Requests : req[r] = Idle
    /\ Fault
    /\ phase' = "failed"
    /\ UNCHANGED <<env, config, store, live, hub>> /\ Quiet

StartUp == LoadConfig \/ ConnectMongo \/ EnsureIndexes \/ ConnectRedis \/ BuildRouter \/ Die

-----------------------------------------------------------------------------
(* The middleware                                                          *)

\* The end of a handler.  NewLogger writes its line, unless a panic skips it; the line of a
\* 499 is below the level that main.run sets.
Answer(r, q, status) ==
    req' = [req EXCEPT ![r] = [q EXCEPT
        !.pc = "done", !.status = status, !.age = 0, !.logged = ~q.panicked /\ status # 499]]

\* CheckOrigin of the upgrader lets anyone in who is not a browser.
CheckOrigin(origin) == origin = NoOrigin \/ origin \in config.origins

\* The chain of NewRouter: CORS ends a preflight; an unknown route has no handler;
\* RequireAuth aborts before the body is read.  Only the handshake looks at the origin (the
\* headers of NewCORS are left out).
Arrive(r) ==
    /\ phase \in {"listening", "closingHub"}
    /\ req[r] = Idle
    /\ \E k \in Kinds, token, body \in BOOLEAN :
       \E o \in IF k = "socket" THEN Origins ELSE {NoOrigin} :
         LET q == [ pc |-> IF body THEN "body" ELSE "store", kind |-> k, origin |-> o, age |-> 0,
                    gone |-> FALSE, recorded |-> FALSE, counted |-> FALSE, announced |-> FALSE,
                    unheard |-> FALSE, panicked |-> FALSE, status |-> 0, logged |-> FALSE ]
         IN \/ k = "preflight" /\ Answer(r, q, 204)
            \/ k = "unknown" /\ Answer(r, q, 404)
            \/ k = "manage" /\ ~token /\ Answer(r, q, 401)
            \/ /\ \/ k \in {"health", "socket"} /\ ~body
                  \/ k = "manage" /\ token
                  \/ k = "vote" /\ body
               /\ req' = [req EXCEPT ![r] = q]
    /\ UNCHANGED <<process, drain, faults, goneCount>>

-----------------------------------------------------------------------------
(* The handlers                                                            *)

\* A deviation: no NewTimeout.
NoDeadline(k) == IF k = "health" THEN 2 ELSE None

\* NewTimeout bounds /api, two pings of three seconds bound /healthz, and nothing
\* bounds the handshake of a socket.
Deadline(k) == CASE k \in {"vote", "manage"} -> 3 [] k = "health" -> 2 [] k = "socket" -> None

\* The bound on what the handler is waiting for; detached calls have their own.  That of
\* the request is shared by its calls to MongoDB.
CallBound(q) == IF q.pc \in {"count", "publish"} THEN 1 ELSE Deadline(q.kind)

\* The read of a body is no call: the server has no ReadTimeout, and no context ends it.
Overdue(q) == q.pc \in Calls /\ q.age = CallBound(q)

\* The context of the request is over: fail answers 499 and no body.
ContextOver(q) == q.gone \/ q.age = Deadline(q.kind)

Unchanged == UNCHANGED <<process, drain, goneCount>>

\* bindJSON has the body, or refuses one that is too large or not JSON; a client that
\* hangs up here is one that sent half of it.
ReadBody(r) ==
    LET q == req[r]
    IN /\ q.pc = "body"
       /\ \/ ~ContextOver(q) /\ req' = [req EXCEPT ![r] = [q EXCEPT !.pc = "store"]]
          \/ Answer(r, q, IF ContextOver(q) THEN 499 ELSE 400)
       /\ UNCHANGED faults /\ Unchanged

\* The first call to MongoDB returns: the vote is inserted, the poll closed or deleted; or
\* the answer is ready (a read, a refusal).
StoreAnswers(r) ==
    LET q == req[r]
    IN /\ q.pc = "store" /\ store = "open"
       /\ \/ /\ q.kind = "vote"
             /\ req' = [req EXCEPT ![r] = [q EXCEPT !.pc = "increment", !.recorded = TRUE]]
          \/ /\ q.kind = "manage"
             /\ req' = [req EXCEPT ![r] = [q EXCEPT !.pc = "publish", !.age = 0, !.counted = TRUE]]
          \/ q.kind = "manage" /\ Answer(r, q, 200)
          \/ q.kind \in {"vote", "manage"} /\ Answer(r, q, IF ContextOver(q) THEN 499 ELSE 409)
          \/ q.kind = "health" /\ Answer(r, q, 200)
          \/ q.kind = "socket" /\ Answer(r, q, IF CheckOrigin(q.origin) THEN 101 ELSE 403)
       /\ UNCHANGED faults /\ Unchanged

\* The $inc of a recorded vote returns its tally, or the recount after it does.  Under a
\* context that is over they fail.
TallyAnswers(r) ==
    LET q == req[r]
    IN /\ q.pc \in {"increment", "recount"} /\ store = "open" /\ ~ContextOver(q)
       /\ req' = [req EXCEPT ![r] = [q EXCEPT !.pc = "count", !.age = 0, !.counted = TRUE]]
       /\ UNCHANGED faults /\ Unchanged

\* A call to MongoDB fails: the client has gone, the deadline has passed, the pool is
\* closed, or so.  An insert that fails may have been applied; after an $inc that fails
\* comes the recount, and after that nothing.
StoreFails(r) ==
    LET q == req[r]
    IN /\ q.pc \in Mongo
       /\ \/ (ContextOver(q) \/ store = "closed") /\ UNCHANGED faults
          \/ Fault
       /\ \/ q.pc = "increment" /\ req' = [req EXCEPT ![r] = [q EXCEPT !.pc = "recount"]]
          \/ /\ q.pc # "increment"
             /\ \E applied \in BOOLEAN :
                   /\ applied => q.pc = "store" /\ q.kind = "vote"
                   /\ Answer(r, [q EXCEPT !.recorded = @ \/ applied],
                             IF q.kind = "health" THEN 503 ELSE IF ContextOver(q) THEN 499 ELSE 500)
       /\ Unchanged

\* A deviation: the context of the request is used.
LiveReachedByRequest(q) == live = "open" /\ ~q.gone

\* detached: the call does not end with the request.
LiveReached(q) == live = "open"

\* What follows a call to Redis, whether it worked or not.
AfterLive(r, q) ==
    IF q.pc = "count" THEN req' = [req EXCEPT ![r] = [q EXCEPT !.pc = "publish", !.age = 0]]
                      ELSE Answer(r, q, 200)

LiveAnswers(r) ==
    LET q == req[r]
    IN /\ q.pc \in {"count", "publish"} /\ LiveReached(q)
       /\ AfterLive(r, [q EXCEPT !.announced = (q.pc = "publish")])
       /\ UNCHANGED faults /\ Unchanged

\* The failure is logged and the request goes on; a PUBLISH that fails is heard by nobody.
LiveFails(r) ==
    LET q == req[r]
    IN /\ q.pc \in {"count", "publish"}
       /\ \/ ~LiveReached(q) /\ UNCHANGED faults /\ AfterLive(r, q)
          \/ /\ (Overdue(q) /\ UNCHANGED faults) \/ Fault
             /\ AfterLive(r, [q EXCEPT !.unheard = (q.pc = "publish")])
       /\ Unchanged

\* NewRecovery answers for a handler that panics; the panic skips NewLogger.
Panic(r) ==
    /\ req[r].pc \in Calls
    /\ Fault
    /\ Answer(r, [req[r] EXCEPT !.panicked = TRUE], 500)
    /\ Unchanged

\* The server notices, once the body has been read.
ClientGone(r) ==
    /\ req[r].pc \in Calls /\ ~req[r].gone
    /\ goneCount < MaxGone /\ goneCount' = goneCount + 1
    /\ req' = [req EXCEPT ![r].gone = TRUE]
    /\ UNCHANGED <<process, drain, faults>>

Handle(r) ==
    \/ Arrive(r) \/ ReadBody(r)
    \/ StoreAnswers(r) \/ TallyAnswers(r) \/ StoreFails(r) \/ LiveAnswers(r) \/ LiveFails(r)
    \/ Panic(r) \/ ClientGone(r)

-----------------------------------------------------------------------------
(* The stop                                                                *)

Busy == \E r \in Requests : req[r].pc \in InHandler

Signal ==
    /\ phase = "listening" /\ ~signalled /\ signalled' = TRUE
    /\ UNCHANGED <<env, config, phase, store, indexes, live, hub, timedOut, drain, req, faults, goneCount>>

Stop(from, to) ==
    /\ phase = from /\ phase' = to
    /\ UNCHANGED <<env, config, indexes, signalled, drain, req, faults, goneCount>>

\* stopHub and hub.Close, so that no socket is in the way of Shutdown.
CloseHub ==
    /\ signalled /\ Stop("listening", "closingHub")
    /\ hub' = "closed" /\ UNCHANGED <<store, live, timedOut>>

\* Shutdown closes the listener.
CloseListener == Stop("closingHub", "draining") /\ UNCHANGED <<store, live, hub, timedOut>>

DrainLimit == 3

\* A deviation: Close instead of Shutdown.
DrainedWithoutWaiting ==
    /\ Stop("draining", "closingMongo")
    /\ UNCHANGED <<store, live, hub, timedOut>>

\* A deviation: Shutdown without a timeout.
DrainedWhenIdle ==
    /\ ~Busy
    /\ Stop("draining", "closingMongo")
    /\ UNCHANGED <<store, live, hub, timedOut>>

\* Shutdown returns when no request is left, or after its 15 seconds.
Drained ==
    /\ ~Busy \/ drain = DrainLimit
    /\ Stop("draining", "closingMongo")
    /\ timedOut' = Busy
    /\ UNCHANGED <<store, live, hub>>

Disconnect ==
    /\ Stop("closingMongo", "closingRedis")
    /\ store' = "closed" /\ UNCHANGED <<live, hub, timedOut>>

CloseLive ==
    /\ Stop("closingRedis", "stopped")
    /\ live' = "closed" /\ UNCHANGED <<store, hub, timedOut>>

ShutDown == Signal \/ CloseHub \/ CloseListener \/ Drained \/ Disconnect \/ CloseLive

-----------------------------------------------------------------------------

Running == phase \notin {"stopped", "failed"}

\* Five seconds pass.  Deadlines are kept: what is overdue comes first.  A body may take
\* longer than the deadline that it uses up.
Tick ==
    /\ \A r \in Requests : ~Overdue(req[r])
    /\ phase = "draining" => drain < DrainLimit
    /\ drain' = IF phase = "draining" THEN drain + 1 ELSE drain
    /\ req' = [r \in Requests |->
          IF req[r].pc \in InHandler /\ CallBound(req[r]) \notin {None, req[r].age}
          THEN [req[r] EXCEPT !.age = @ + 1] ELSE req[r]]
    /\ UNCHANGED <<process, faults, goneCount>>

Next == Running /\ (StartUp \/ ShutDown \/ Tick \/ \E r \in Requests : Handle(r))

Spec == Init /\ [][Next]_vars

\* Time passes, a call that is overdue fails, and main goes through its steps.  Nothing
\* makes a client send the rest of its body.
FairSpec ==
    /\ Spec
    /\ WF_vars(Running /\ Tick)
    /\ WF_vars(Running /\ (CloseHub \/ CloseListener \/ Drained \/ Disconnect \/ CloseLive))
    /\ \A r \in Requests :
          WF_vars(Running /\ Overdue(req[r]) /\ (StoreFails(r) \/ LiveFails(r)))

-----------------------------------------------------------------------------
(* Properties                                                              *)

\* Every variable has its type.
TypeOK ==
    /\ phase \in Phases /\ (phase = "config" <=> env # None)
    /\ store \in {"none", "open", "closed"} /\ live \in {"none", "open", "closed"}
    /\ hub \in {"none", "running", "closed"}
    /\ indexes \in BOOLEAN /\ signalled \in BOOLEAN /\ timedOut \in BOOLEAN
    /\ drain \in 0 .. DrainLimit /\ faults \in 0 .. MaxFaults /\ goneCount \in 0 .. MaxGone
    /\ \A r \in Requests :
         \/ req[r] = Idle
         \/ req[r].pc \in InHandler \cup {"done"} /\ req[r].kind \in Kinds /\ req[r].age \in 0 .. 3

\* Every variable has its type.  No handler runs before the unique indexes are there, or
\* without its stores, and no request is dropped, as long as the requests end within the
\* 15 seconds of the drain.
StoresOutliveHandlers ==
    TypeOK /\ (Busy /\ ~timedOut => Running /\ indexes /\ store = "open" /\ live = "open")

\* Once MongoDB has given the tally of a vote, or has closed or deleted a poll, that is
\* announced (services/poll.go:368-386): neither a client that goes away nor a deadline
\* that passes can stop it, only a PUBLISH that fails or takes five seconds, a panic, or
\* the end of the process.
CountedVotesAreAnnounced ==
    \A r \in Requests : req[r].pc = "done" /\ req[r].counted =>
        req[r].announced \/ req[r].unheard \/ req[r].panicked \/ timedOut

\* A request whose body has been read, and that is not a handshake, ends, however slow the
\* stores are, unless the process ends.
EveryRequestIsAnswered ==
    \A r \in Requests :
        req[r].pc \in Calls /\ req[r].kind # "socket" ~> req[r].pc = "done" \/ ~Running

\* Whoever stops the server gets it stopped, whatever the requests do.
ShutdownEnds == signalled ~> phase = "stopped"

-----------------------------------------------------------------------------
(* What the repository says of the program and TLC refutes                 *)

\* services/poll.go:435-436, "the vote is already durable, and this work must complete
\* even if the voter closed the tab the instant they submitted".
RecordedVotesAreAnnounced ==
    \A r \in Requests : req[r].pc = "done" /\ req[r].recorded =>
        req[r].announced \/ faults > 0 \/ timedOut

\* timeout.go:10, "NewTimeout bounds how long a single REST request may take."
RequestsAreBounded ==
    \A r \in Requests :
        req[r].pc \in InHandler /\ req[r].kind # "socket" ~> req[r].pc = "done" \/ ~Running

\* config.go:57-59, Load "fails loudly if anything required is missing"; README.md:123-130
\* lists what is required.
MissingSettingsAreRefused ==
    env # None /\ Loads(env) => Unset \notin {env.mongo, env.redis} /\ env.secret > 0 /\ env.origins # {}

\* DEPLOY.md:159-161, of COOKIE_SAMESITE=none and COOKIE_SECURE=true: "config.go refuses to
\* start if you set one without the other."
CookieSettingsComeTogether ==
    env # None /\ Loads(env) => (env.sameSite = "none" <=> env.secure = TRUE)

\* apperr.go:39-40: a 499 "never reaches a browser -- by definition the connection is
\* already gone".
ClosedRequestsHaveNoClient == \A r \in Requests : req[r].pc = "done" /\ req[r].status = 499 => req[r].gone

\* observability.go:59: "NewLogger emits one structured line per request."
EveryRequestIsLogged == \A r \in Requests : req[r].pc = "done" => req[r].logged
=============================================================================
