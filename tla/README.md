# live-polls: TLA+ verification

live-polls is a polling site: a Go backend that keeps polls and votes in MongoDB and
live counters, events and rate limits in Redis, a hub that pushes events to browsers over
WebSockets, and a React frontend.  This directory holds its specification: modules
translated from the source, TLC configurations that check them on small instances, and
theorems that TLAPS proves for every instance.

Paths below are relative to `src/`; `services/`, `db/`, `redisstore/`, `models/`, `ws/`,
`handlers/`, `middleware/`, `apperr/` and `config/` live in `src/backend/internal/`.

## 1. Inventory

| Component | State | Operations | Meets |
|---|---|---|---|
| Poll service (`services/poll.go`) | none of its own; the document in each request's hands | Create, Results, ListByOwner, Close, Delete, Vote | repositories, Redis store |
| Poll repository (`db/polls.go`, `models/poll.go`) | `polls` collection: closed flag, expiry, cached counts and ballots | Create, FindByKey, ListByOwner, SetClosed, Delete, IncrementCounts, ReplaceCounts; each atomic on one document | MongoDB |
| Vote repository (`db/votes.go`, `db/indexes.go`) | `votes` collection, unique on (poll, voter) | Create, RecountByPoll (two reads) | MongoDB |
| Redis counters (`redisstore/counters.go`) | one hash per poll with a TTL | IncrementVote and SeedTally (scripts), GetTally, DropTally | Redis |
| Events (`redisstore/pubsub.go`) | none | PublishEvent | Redis Pub/Sub |
| Rate limit (`redisstore/ratelimit.go`) | one counter with a TTL per hashed address | AllowVote (script) | Redis |
| Hub (`ws/hub.go`) | rooms, PubSub subscriptions, done | Run/dispatch, Join, Leave, Stats, Close | PubSub, clients |
| Client (`ws/client.go`) | send buffer, closing | Enqueue, Close, readPump, writePump | hub, browser |
| WebSocket handler (`handlers/ws.go`) | none | Serve: Results, upgrade, Join, snapshot, Start | poll service, hub |
| HTTP handlers (`handlers/poll.go`, `handlers/auth.go`, `handlers/response.go`) | voter cookie (in the browser) | one handler per route; `fail` | services |
| Router, middleware, health (`handlers/router.go`, `handlers/health.go`, `middleware/`) | the context and the deadline of each request | CORS, recovery, logging, timeout, RequireAuth, ping | handlers |
| Accounts (`services/auth.go`, `db/users.go`) | `users` collection, unique address | Signup, Login, UserByID, ParseToken | MongoDB |
| Validation (`services/validate.go`, mirrored in `frontend/src/lib/validation.js`) | none | Clean*, Validate* | services, forms |
| Configuration (`config/config.go`) | read once from the environment | Load | everything |
| Start-up, shutdown (`cmd/server/main.go`), connections (`db/mongo.go`, `redisstore/client.go`) | process | run, Connect, Disconnect | everything |
| Peek tool (`cmd/peek/main.go`) | none | prints documents and counters | MongoDB, Redis |
| Live page (`frontend/src/hooks/`) | poll on screen, request and socket in flight, retry timer | load, refetch, replace, connect, reconnect | REST, WebSocket |
| API client, session (`frontend/src/api/`, `frontend/src/auth/`) | token, user, status of each tab; the token in localStorage, shared by the tabs | request, signIn, register, signOut, boot check | REST |
| Pages (`frontend/src/pages/`) and presentation | forms, the poll whose link is shown | edit, submit, render | hooks, API client |

What is hard in it:

- A vote is four writes to three places (votes, counts, Redis, Pub/Sub) without a
  transaction, by many requests and several instances at once, each call with its own
  failures and deadlines.
- Redis is a cache that is both incremented by writers and seeded by readers.
- Closing and deleting race votes that loaded the poll earlier.
- Events carry whole polls and are published after the writes they describe, so their order
  is not the order of the writes.
- The hub decides under a lock and talks to Redis outside it; clients end by a chain of two
  goroutines; shutdown races handshakes.
- In the browser, answers, events, timers and clean-ups arrive in any order, and several
  tabs share one localStorage.
- A vote is known by its cookie and limited by its address; either may be missing, lost or
  late.
- Calls have different deadlines: the request's, their own, or none; the stop of the
  server has one too, and they overlap.

What makes each part correct is stated as the properties of its module (section 4); the
hazards behind them are listed with their lines in `PROJECT.json`.

## 2. Modules

| Module | What it is |
|---|---|
| `PollService` | the core: requests on one poll, MongoDB, Redis counters, published events |
| `PollLedger` | abstract specification: what a poll promises about ballots, tally and answers |
| `PollServiceLedger` | refinement mapping, `ImplementsLedger` |
| `MCPollService` | operations, fault budgets and symmetry for TLC |
| `PollLedgerProofs` | types, the ledger invariant, ballots and answers, and the refinement, proved |
| `PollViewsProofs` | what owners, voters and viewers may rely on, proved |
| `Hub` | one room: hub, clients, WebSocket handler, go-redis PubSub |
| `Broadcast` | abstract specification: what the live feed of a poll promises to a browser |
| `HubBroadcast` | refinement mapping, `ImplementsBroadcast` |
| `MCHub` | symmetry for TLC |
| `HubProofs` | types, rooms and subscriptions, order and completeness of feeds, and the refinement, proved |
| `LivePage` | one browser tab with a poll page: `useAsyncData`, `useWebSocket`, `useLivePoll`, the vote form |
| `LivePageProofs` | one socket at a time, missed votes are caught up, proved |
| `VoteGate` | what a vote passes before the poll is looked at: voter cookie, rate limit, and how its answer gets back |
| `MCVoteGate` | symmetry for TLC |
| `VoteGateProofs` | types, the limit, twice the limit, the announced wait and one ballot per known browser, proved |
| `Accounts` | accounts, tokens, `RequireAuth` |
| `AuthSession` | extends `Accounts` with the tabs of a browser: API client, `AuthProvider`, forms, stored token |
| `MCAuthSession` | symmetry for TLC |
| `AuthSessionProofs` | one account per address, truthful tabs, expiry, proved |
| `Configuration` | `config.Load`, as operators on an environment |
| `Server` | extends `Configuration` with the process: start-up, middleware, deadlines, stop |
| `MCServer` | the instance for TLC |
| `ServerProofs` | stores that outlive handlers, counted votes that are announced, proved |
| `Validation` | the rules for a new poll, on the server and in the browser, as operators |
| `PollCreation` | extends `Validation` with the form, a caller without a form, `Create` and its slugs |
| `MCPollCreation` | texts, hand-made requests and symmetry for TLC |
| `PollCreationProofs` | one poll per request, links, well-formed polls, what the mirrored checks miss, proved |

Definitions that start with the comment "A deviation" are what a plausible mistake would make
of the definition below them; they show that a property would notice, and nothing uses them.

### PollService

A request is a goroutine.  `pc[r]` is the call it is about to make; an action is that call
with the local code up to the next one.  `poll`, `votes`, `tally` and `events` are the
document, the vote documents, the Redis hash and the messages published on the poll's
channel; `doc[r]` is the `*models.Poll` a request holds, which is why stale decisions and
stale views are in the model.  A ballot is a set of options.

| Code | Actions |
|---|---|
| handlers: arrival, validation of the request | `ArriveVote`, `ArriveOther` |
| `Vote` | `CheckRateLimit`, `Load`, `Insert`, `Increment`, (`Recount`, `CountBallots`), `ApplyLive`, (`Seed`), `Publish` |
| `Results` | `Load`, `GetTally`, (`Seed`) |
| `ListByOwner` | `ListByOwner` |
| `Close` | `Load`, `SetClosed`, `Publish` |
| `Delete` | `Load`, `Remove`, `DropTally`, `Publish` |
| clock, Redis losing the hash, instance dying | `Expire`, `LoseTally`, `Crash` |

Every MongoDB and Redis call may fail (budget per kind), and a failed write may have been
applied: a lost reply and a deadline look alike.  Scripts and single-document updates are
atomic; `RecountByPoll` is two reads and is two actions.  `counted` is a history variable:
the ballots whose `$inc` was applied.

Abstracted: poll identity and slug (one poll), text, timestamps (one flag `expired`; a vote
uses the time it took at its start, `late`), the rate limit (any refusal; see `VoteGate`), the content of
errors.  Left out: `repairCountsIfNeeded` (its condition, counts of the wrong length, cannot
hold for documents this code writes) and the `s.live == nil` paths
(`main.go` always passes a store).

### PollLedger and the refinement

The ledger knows no stores, calls or faults: requests are admitted while the poll is open,
record a legal ballot once per voter, the total is always the tally of recorded ballots,
acknowledgements are for recorded ballots, closing and deleting are final.  A vote counts as
admitted from the load that found the poll open to its insert: the code promises no more
(see the finding on final results).

### Hub

One room stands for all.  `pc[c]` is where a connection's handler, then its readPump, is;
`writer[c]` its writePump.  What happens under one hold of `hub.mu`, one Redis call, or one
operation on a client's channels is an action.  An event is the version of the tally it
carries; the snapshot is told apart from every event.

| Code | Actions |
|---|---|
| `Serve`, `Join` | `Register` (after Results and the upgrade), `Subscribe`, `Rollback`, `Greet` |
| `Leave` | `Leave`, `Rollback` (both by `LeaveRoom`), `Unsubscribe` |
| `Run`, `dispatch` | `Receive`, `Send`, `StopRun` |
| `Client.Enqueue` | operator used by `Greet` and `Send` |
| `readPump`, `writePump` | `ReadClosed`, `PeerGone`, `Leave`, `Write`, `WriteClose` |
| `Close` | `CloseRooms`, `CloseClient`, `ClosePubSub` |
| Redis | `Publish`, which loses the event when nobody is subscribed or the PubSub reconnects |

`Enqueue` chooses among the ready cases of its `select` as Go does: a closed client may still
get a message when its buffer has room.  The go-redis PubSub is external: a set of channels
that is changed even when the call returns an error, and cleared by `Close`.  `missed` and
`since` are history: the events that never reached the instance, and the last one dispatched
when a client joined.

### Broadcast and the refinement

The broadcast knows no rooms, subscriptions, buffers or goroutines: a client joins, receives
each later event in order and once, but those lost on the way to its instance, until it is
cut off or leaves; what still reaches one that was cut off is newer than what it has; the
results it was connected with come at most once.  Under the mapping a client watches from
its registration as long as nobody has a reason to close it, and has received what its
browser was written.  `Write` is where a browser receives; the many steps of joining, leaving,
dispatching and closing change what may happen, or nothing at all.

### LivePage

One browser tab on one poll.  JavaScript runs one callback at a time, so each callback and
each effect React runs after it is an action.  The poll is its number of votes, and `screen`
is the number in the page's hands.  There are two numbers on the server: `version` is what
MongoDB has counted, which answers and events to votes carry, and `live` is what Redis has
counted, which reads and snapshots carry.  Between the `$inc` of a vote and its HINCRBY the
vote is in `counted`, between that and its PUBLISH in `events`, and the votes take these steps
in any order.

| Code | Actions |
|---|---|
| `useAsyncData` | `RunEffect` (its clean-up cancels the request in flight), `Land`; `Retry` is a user's refetch |
| `useWebSocket` | `Connect`, `OnOpen`, `OnMessage`, `OnClose`, `Cleanup` (by `Disable` and `Leave`) |
| `useLivePoll` | `OnMessage` (handleEvent), `OnOpen` (refetch on reconnect), `Disable` |
| `VotePage.handleVote` | `Cast`, `CastLands` |
| `PollService.Vote`, `applyLive`, `publish`, `Delete` | `Count` and `CountOwn` (`Increment`), `ApplyLive`, `Publish` (with the hub's dispatch), `Delete` |
| other handlers | `Answer`, `AnswerVote`, `Resolve`, `Serve` (upgrade, Join, snapshot, one after the other) |
| network | `Drop`, and the failing disjuncts of the answers |

The server here is only what the page can tell apart; `PollService` and `Hub` have the rest: the
recount, seeding and losing the counters, which a page sees as other numbers, and events that
Redis or the hub loses.  Votes that are under way when their poll is deleted are dropped, as no
page shows the poll after that.  Leaving forgets what the page knew, so a return is a new page.
Delays are abstracted to the attempt number they are computed from.  The development-only
double mounting of React's StrictMode and a change of the poll key under a mounted page are
left out.

### VoteGate

Time passes in ticks and is kept as what is left of it: the TTL of a Redis key, the time a
refused voter was told to wait.  A voter key is named after the request it was drawn for, as
random bits do not repeat.  `granted` and `ago` are history: how many votes of an address the
script let pass since its key was created, and how long ago it let each request pass, up to a
window.

| Code | Actions |
|---|---|
| `PollHandler.Vote`, `voterKey`, `hashIP` | `Send`, `SendMalformed`, `CheckNobody`, `Answer` |
| `rateScript`, `AllowVote`, `checkRateLimit`, `fail` | `CheckRateLimit`, `CheckFails`; `Counted`, `Allowed`, `RetrySeconds` |
| what `PollService` does with the vote | `Vote` |
| network, clock, Redis | `Deliver`, `Lose`, `Tick`, `LoseWindow` |

A window shorter than a millisecond, which `config.Load` accepts and `PEXPIRE` truncates to
nothing, is outside the model.

### Accounts and AuthSession

Each operation of `Accounts` makes one call to MongoDB and is one step, a relation between
the request and the answer.  An address comes in two spellings; a password stands for its
hash.  `AuthSession` adds the tabs: each has its own API client with a token, a status and a
user, and up to three requests in flight (the check on loading, a form, a page), whose answers
come in any order or not at all.  `stored` is what the tabs share.

| Code | Actions |
|---|---|
| `Signup`, `Login`, `UserByID`, `RequireAuth` | `Signup`, `Login`, `Me`, `Protected`, by `Handle` |
| `AuthProvider`'s effect on mounting | `Load`; its `.then` and `.catch` are `BootOK` and `NotOK` |
| `signIn`, `register`, `signOut`, login and signup pages, header | `Submit`, `FormOK`, `ClickSignOut` |
| `request`, with `onUnauthorized` | `Deliver` (`Denied`), `Lose` |
| JWT expiry; an account removed by hand | `Tick`, `Remove` |

### Configuration and Server

A configuration is what `Load` makes of an environment; the environments are all that differ
from a plain one in up to three settings, a list of origins that is missing (and so empty)
among them.  In `Server` a request is the sequence of what its handler waits for: the body,
which no context bounds; MongoDB under the request's context, which for a vote is the insert,
the `$inc` and, when that fails, the recount; then HINCRBY and PUBLISH under contexts of their
own (`detached`).  A vote is `recorded` from its insert on, also when the insert fails after it
was applied, and `counted` once its `$inc` or the recount has given a tally.  Time is in units
of five seconds, so the deadline of a request and the drain are three units, a detached call
and a ping one.

| Code | Actions |
|---|---|
| `run` | `LoadConfig`, `ConnectMongo`, `EnsureIndexes`, `ConnectRedis`, `BuildRouter`, `Die` |
| middleware chain, up to the handler | `Arrive` |
| handlers, `fail`, `NewLogger`, `NewRecovery`, `NewTimeout` | `ReadBody`, `StoreAnswers`, `TallyAnswers`, `StoreFails`, `LiveAnswers`, `LiveFails`, `Panic`; `Answer`, `CheckOrigin`, `Deadline`, `Overdue` |
| net/http | `ClientGone` |
| SIGTERM and what follows | `Signal`, `CloseHub`, `CloseListener`, `Drained`, `Disconnect`, `CloseLive` |

### Validation and PollCreation

A text is a word in one of seven spellings; blank, control characters, too short and too long
are words of their own.  Browser and server have their own notions of space and of lower case
(`trimmed` and `collapseSpace`, `toLowerCase` and `ToLower`), and the spellings are what these
tell apart: plain, spare space and capitals that both know; U+0085, a space for Go's `Fields`
only; U+FEFF, a space for JavaScript's `\s` and `trim` only; U+0130, which Go alone puts in
lower case as an i; and a final sigma, which JavaScript alone makes at the end of a word.  A
space that a side does not know is a character for it, so U+0085 makes a blank row a text for
the browser, and a choice of nothing but U+FEFF, sent without the form, is stored.  What
different versions of Unicode would add to the difference is left out.  The rows of the form carry an
identity that the program does not have, which tells where an error ends up.  Each draw of a
slug is an action with any slug, so that collisions are usual.  `Keep` is JavaScript's `filter`
and the loop of `cleanOptions`, stated without recursion so that it can be reasoned about.

| Code | Actions |
|---|---|
| `CreatePollPage` | `updateOption`, `addOption`, `removeOption`, `handleSubmit`, `Deliver`, `Lose`, `createAnother` |
| a caller without the form | `CallAPI`, `DeliverAPI` |
| `PollService.Create` | `Validate`, `Attempt` (`Insert`, `Collide`, `InsertFails`) |

## 3. Plan

Modelled: every component that has state or decides something (section 1), except what
section 7 lists.

The order was: the poll service and its ledger; the hub; the page; the gate of a vote, accounts
and the server; the form; then the proofs, the invariants first, and the two refinements.

`Hub` and the pages are not composed.  `Hub` has browsers that come, go and read, and
`LivePage` a server whose socket, snapshot and answers come late or not at all, which is all
that either can tell of the other; `Broadcast` is what they meet at.  A limiter and a session
have no abstract specification of their own: `TwiceTheLimitAtMost`, `KnownBrowsersVoteOnce`
and `SessionsExpire` say what these would.

## 4. Runs

Deadlock checking is off in every run: requests end, browsers need not come, and the
counters of events and failures are bounded, so the models do stop.

### Runs that pass

| Run | Bounds | Shows |
|---|---|---|
| `poll_votes` | 3 votes, closes or deletes, 2 voters, 2 options, multiple choice, 1 MongoDB fault, 1 Redis fault, 1 crash | recorded, counted, answered and published ballots agree, Redis is at most double, announced numbers are one history; `PollService` implements `PollLedger` |
| `poll_every_operation` | any 3 requests of the 5 operations, single choice, expiry, counters in Redis from the start, 1 MongoDB fault, 1 Redis fault, 1 crash | no lost update, nothing undone, no ballot after the known close, Redis never fails a request, and without faults its counters end equal to MongoDB's |
| `poll_answers` | 2 requests, every kind of fault, fairness | every request is answered, every recorded ballot counted |
| `hub` | 2 connections, 2 events, 1 failing Subscribe or lost event, buffer of 1, shutdown, fairness | room and subscription agree, no ghosts; feeds are ordered and gapless since the join; nobody can hold up the broadcast; closed clients go away; `Hub` implements `Broadcast` |
| `page` | 2 votes, 1 drop, 1 failing call, 1 move of the user or the owner (vote, refresh, leave, delete), fairness | reconnected pages catch up, but for late events; one attempt per failure; silence after leaving; at rest in the end |
| `vote_gate` | 3 votes, 2 browsers, 1 address or none, limit 1, window of 3 ticks, 2 ticks to the second, 1 Redis fault, 1 lost answer | the limit holds per window and nobody is refused below it, twice the limit in any stretch of that length; Retry-After is long enough; a browser that is known votes once |
| `sessions` | 2 tabs, 3 requests, 2 loads, 2 addresses in 2 spellings, 3 passwords, 1 tick, 1 MongoDB fault, 1 account removed, 1 lost answer | one account per address, usable by who made it; what tabs show, send and store agree; nothing but a password prolongs a session |
| `server` | 2 requests of 6 kinds, sockets from 3 origins, environments with up to 3 settings changed, 1 failing call or panic, 1 client gone, fairness | handlers have their stores and indexes; votes that were counted are announced; requests end once their body is read; the stop ends |
| `create` | 2 requests, 4 edits, 2 slugs, 2 attempts, 3 rows at most, texts of all spellings, 1 fault | stored polls are well formed; one poll per request, with its link; the server refuses of what the form passed only what the two take differently, and names its row |

Why the bounds are enough to be of use: races in `PollService` are between two requests over
one document, or between a writer, another writer and a reader of the cache; three requests
(four where the cache is the subject) contain them all, two voters tell a duplicate from a
second ballot, two options tell a single from a multiple choice.  In `Hub` a race is between
one that leaves and one that joins, and a buffer of one is full after the snapshot, so the slow
client path is the usual one; the real capacity of 32 only makes it rarer.  In `LivePage` a
reconnect takes one drop, an event that overtakes another two votes, and what happens to a
page besides is one move and one failing call at a time; a reconnect that
is itself interrupted is left to the proofs, which have any number of drops.  In `VoteGate` a limit of one is crossed by
the second of three votes, and the third can be in the next window; a second of two ticks in a
window of three makes rounding matter.  In `AuthSession` three requests are a sign-in, a check
of its token in another tab, and one that overtakes either; a token lives for one tick and the
clock goes that far.  In `Server` an interaction of settings takes two of them (`SameSite` and
`Secure`), three with the mode; a vote can be cut off between any two of its calls by one
fault or one client that leaves; two requests are one that holds up the drain and one beside
it.  In `PollCreation` two requests compete for two slugs in two attempts, so one can run out
of them; four edits fill both rows and disturb them during a request.  The proofs of section 6
hold for any bounds.

### Runs that find a disagreement

Each of these checks one statement of the repository, quoted in `PROJECT.json`, and TLC finds
it violated by what the code does, with nothing failing.

| Run | Statement | What happens |
|---|---|---|
| `poll_live_tally_overcounts` | what people see on screen is the durable number | A `$inc`s, B `$inc`s, B seeds 2, A increments Redis to 3; results pages show 3 |
| `hub_stranded` | no client is left in a room that will never receive anything | the last leaver's Unsubscribe overtakes the next viewer's Subscribe |
| `sessions_wrong_password` | a 401 from the login form leaves the session alone | `request` sends the token with the form too, so a wrong password in a tab that is signed in signs it out |

The modules state more of what the repository says, next to the properties above, and TLC
refutes these too, in seconds, when they take the place of the INVARIANT (or PROPERTY) of the
configuration named; what has to be changed in it besides is in the last column.

| Definition | Statement | What happens | Configuration |
|---|---|---|---|
| `NoTallyWithoutPoll` | Redis holds no results for a deleted poll (`services/poll.go:266`) | a read that loaded the poll before the delete seeds the hash after it was dropped | `poll_live_tally_overcounts`, `Operations <- VoteReadAndDelete` |
| `SingleModeTotalsAgree` | in single mode the two totals agree (`models/poll.go:122`) | after a failed `$inc`, a ballot falls between the two reads of the recount | `poll_live_tally_overcounts`, `Operations <- VotingOnly`, `Budget <- MongoFaults` |
| `FinalResultsAreFinal` | "final results" (`VotePage.jsx:238`) | a vote that loaded the poll before the close is recorded after it | `poll_live_tally_overcounts`, `Operations <- VoteAndClose` |
| `ViewersLearnOfClosing` | viewers learn that the poll closed (`services/poll.go:240`) | a vote counted before the close publishes after it, saying "open" | `poll_live_tally_overcounts`, `Operations <- VoteAndClose` |
| `SnapshotIsFirst` | the snapshot precedes any event (`handlers/ws.go:111`) | an event is dispatched between Join and the snapshot's Enqueue | `hub_stranded` |
| `CloseDisconnectsEveryone` | Close disconnects every client (`ws/hub.go:175`) | a handshake joins after the rooms were swapped | `hub_stranded`, `MayShutDown = TRUE` |
| `ReconnectedPagesAreCurrent` | the refetch of a reconnect makes good what was missed (`useLivePoll.js:19`, `useWebSocket.js:31`) | the event of a vote that was counted before the reconnect is published after the refetch and replaces it | `page` |
| `FirstMessageIsEnough` | a client is correct on the first message after a reconnect (`useLivePoll.js:37`) | the snapshot predates the handshake and overwrites the refetch | `page` |
| `VoteAnswerIsCurrent` | the vote's answer makes the results correct (`VotePage.jsx:86`) | it lands after newer results | `page` |
| `BouncingBacksOff` | an accepting, dropping server meets a growing delay (`useWebSocket.js:90`) | each open resets the attempt | `page`, `MaxDrops = 2` |
| `FailedPollsHoldNoSocket` | no socket for a poll that failed to load (`useLivePoll.js:60`) | `enabled` does not look at `error`; the socket stays or reconnects for ever | `page` |
| `BrowsersVoteOnce` | the cookie stops one browser voting twice (`handlers/poll.go:20`) | two first votes are sent at once, or the answer with the cookie is lost | `vote_gate` |
| `SignedInTabsHaveAToken` | no tab looks signed in while its calls are refused (`client.js:53`) | a wrong password clears the token while the answer to the check on loading is still to come, which then signs the tab in | `sessions` |
| `ClosedRequestsHaveNoClient` | a 499 never reaches a browser (`apperr.go:39`) | the request's own deadline ends its context, and `fail` takes that for a client that left | `server` |
| `RecordedVotesAreAnnounced` | the work after a durable vote completes "even if the voter closed the tab the instant they submitted" (`services/poll.go:435`) | the client leaves between the insert and the `$inc`; the recount fails on the same context, and nothing is published | `server` |
| `RequestsAreBounded` | `NewTimeout` bounds how long a REST request may take (`middleware/timeout.go:10`) | a body that does not end: `ReadTimeout` is zero and the context does not reach the read | `server` (PROPERTY) |
| `MissingSettingsAreRefused` | Load fails if anything required is missing (`config/config.go:57`, `README.md:123`) | without `CORS_ALLOWED_ORIGINS` the list is empty, which passes | `server` |
| `CookieSettingsComeTogether` | Load refuses one of `COOKIE_SAMESITE=none` and `COOKIE_SECURE=true` without the other (`DEPLOY.md:159`) | `COOKIE_SECURE=true` with `lax` loads | `server` |
| `EveryRequestIsLogged` | one line per request (`middleware/observability.go:59`) | `NewLogger` is inside `NewRecovery`, so a panic skips its line; a 499 is logged at Debug, which `main.go:37` leaves out | `server` |
| `ErrorsLandOnTheirRow` | the server's errors land on the right input (`CreatePollPage.jsx:89`) | they are keyed by the list without the blank rows | `create` (PROPERTY) |
| `OnlyControlCharactersAreRefused` | the browser's rules mirror the server's, ignoring case "matching the server" (`validation.js:2`, `:104`) | a U+0130 and an i, or a row of U+0085, pass the form and not the server | `create` |

One more comment is at odds with the libraries, and no model is needed to see it:
`cmd/server/main.go:135` says that `Shutdown` waits for WebSockets, but net/http forgets
connections that were hijacked for the upgrade.  Closing the hub first is right all the same.
And the 15 seconds that `Shutdown` waits are less than a request may take (15 seconds, and two
detached calls of five), which is why `StoresOutliveHandlers` excepts a drain that timed out.

## 5. Fairness

- `PollService.FairSpec`: weak fairness of each request's own steps.  Every driver call
  returns, at its deadline at the latest, and Go schedules every goroutine.  Arrivals,
  faults, expiry, evictions and crashes are not fair.
- `Hub.FairSpec`: weak fairness of each goroutine of the instance; a write ends at
  `writeWait`.  `WriteClose` has its own: `select` picks among ready cases at random, so
  `closing` is not passed over for ever.  Browsers, events and SIGTERM are not fair.
- `LivePage.FairSpec`: weak fairness of each callback, effect, timer and server step for
  itself, and of the calls to Redis, which end at their own deadlines.  Votes, deletions, drops
  and the user are not fair, so a property never rests on somebody voting or pressing refresh.
- `Server.FairSpec`: time passes, but not past a deadline; a call that is overdue fails (the
  drivers honour their contexts); `main` goes through the steps of the stop.  Start-up,
  requests, answers of the stores and the signal are not fair, so requests end without a
  store ever answering.  Handshakes of sockets have no deadline and are excepted, and so is the
  read of a body, which ends when its client says so.
- `VoteGate`, `AuthSession` and `PollCreation` state safety only and assume no fairness.

## 6. Proofs

Every safety invariant and every action property of the passing runs, but one that needs
ENABLED, is also a theorem: TLAPS proves it for every value of the constants that the named
`ASSUME`s admit.  The assumptions are what the code or the run's set-up gives: finite sets
where the model counts (`Requests` and `Options` of `PollService`), limits that are positive
as configuration or a constant in the code makes them, fault budgets and bounds that are
naturals, flags that are Boolean, people who are different, and markers such as `None` that
are no values of what they stand for the absence of.

| Module | Theorems (properties) | About |
|---|---|---|
| `PollLedgerProofs` | `TypesHold`, `LedgerHolds`, `OneBallotPerVoter`, `AnswersAreTrue`, `NothingIsEverUndone`, `ServiceImplementsLedger` | `PollService`, `PollServiceLedger` |
| `PollViewsProofs` | `NoLateBallots`, `NoVoteIsLost`, `RedisIsBestEffort`, `ViewsShowRecordedBallots`, `TallyNeverOvercounts`, `PercentagesDoMakeSense`, `OneHistory`, `WarmCountersAgree` | `PollService` |
| `HubProofs` | `NoGhostsRemain`, `IdleRoomsUnsubscribe`, `FeedsHaveNoGaps`, `HubImplementsBroadcast` | `Hub`, `HubBroadcast` |
| `VoteGateProofs` | `TypesHold`, `WindowsKeepTheLimit`, `FixedWindowsAtMostDouble`, `WaitingIsEnough`, `KnownBrowsersDoVoteOnce` | `VoteGate` |
| `AuthSessionProofs` | `AddressesHaveOneAccount`, `TabsAreTruthful`, `SignedOutForGood`, `SessionsDoExpire` | `Accounts`, `AuthSession` |
| `ServerProofs` | `ServerInvHolds`, `StoresDoOutliveHandlers`, `CountedVotesGetAnnounced` | `Server` |
| `LivePageProofs` | `PageInvHolds`, `OneSocketOnly`, `MissedVotesDoCatchUp` | `LivePage` |
| `PollCreationProofs` | `RequestsStoreOnePoll`, `LinksLeadToTheirPoll`, `StoredPollsStayWellFormed`, `FormsRefusedForBlindSpots` | `Validation`, `PollCreation` |

Few of the properties are inductive.  What follows is what each needed besides, and why.

`PollLedgerProofs`.  `TypeInv`, the part of `TypeOK` that is inductive, comes first.  That
`$inc` never counts a ballot twice needs to know that a request about to increment has
recorded its document and not yet counted it; that a refusal leaves no trace needs to know
which request wrote each document.  `LedgerInv` adds these: the tally of the document is the
tally of `counted`, which is a subset of `votes` (`CountedInv`); every document belongs to a
vote past its insert (`DocsInv`); a request past its insert has its document, and one at
`increment` has not counted it (`PlacesInv`); answers are given at the end (`AnswersInv`).
The lemma `CountOneMore` (adding a document adds its ballot to the tally) is why `$inc` and a
recount agree.  The refinement goes step by step: the initial state maps to the ledger's,
every action to one of its actions or a stutter.

`PollViewsProofs`, on top of `LedgerInv`:

- No ballot after the known close: a close or delete is in MongoDB before it is answered or
  announced, and a vote that arrived after it does not get to its insert (`ClosingInv`).
- No lost update: while nothing was disturbed, each recorded ballot has been counted or its
  request stands at its `$inc` (`FlowInv`).
- What voters and viewers see: each tally that a request holds, or that was published, counts
  recorded ballots only, and has the request's own once that was counted or recounted
  (`ViewOf`, `EventsInv`).
- The counters in Redis: a seed brings recorded ballots, and each ballot is added at most once
  after it, by a request that is then past its Redis call.  So what Redis has too much is at
  most the ballots of such requests (`SurplusInv`), and the counters at most twice the recorded
  ballots.  Nothing has to fail for that bound to be reached: one reader that seeds between
  the `$inc` of a vote and its Redis call is enough (`poll_live_tally_overcounts`).
- Percentages: between the two reads of a recount a request has new counts beside an old
  number of ballots.  That ballots are only ever added makes up for it (`SharesInv`).
- One history: all documents that requests hold, and all that was announced, are a chain with
  the stored document at its end (`HistoryInv`), as `IncrementCounts` answers with the document
  that its own `$inc` left.  The recount would break it, but only a failure or a delete leads
  to one.
- Warm counters: Redis holds what MongoDB has counted, less the requests between the two
  (`WarmInv`), and nobody has a reason to seed.

`HubProofs`.  `NoGhostsInTheRoom`, with the types, is inductive.  `NoIdleSubscription` needs
that an empty room that is still subscribed has somebody on the way to Unsubscribe
(`SubscriptionInv`).  `FeedHasNoGaps` needs to know which events dispatch is done with for
each client: the versions on the way ascend (`QueueInv`), who has not joined was sent nothing,
and who has joined after which event (`LifeInv`), nothing is in a feed before it was handed
out, and the snapshot at most once (`OrderOf`), and, while the connection works, everything
handed out since the join is, unless it was lost (`GapOf`).  With these the refinement goes
through every action: `Write` is `Receive` or `Greet`, because the head of a buffer is the next
event in order; an Enqueue to a full buffer, `CloseRooms` and a writePump that ends are
`CutOff`; a readPump that ends, and a failed Subscribe, are the broadcast's `Leave`; the rest
stutters.

`VoteGateProofs`.  `TypesHold` needs that a request past its parsing has a ballot, and one
that is not refused a voter (`SentInv`).  `WindowsKeepTheLimit`: a key's count is never below
the votes it let pass (`GrantedInv`), and exceeds them only by calls at which Redis failed
or once the limit is used up (`SpentInv`).  `FixedWindowsAtMostDouble`: what an address was let
pass in a stretch as long as the window splits into what its key let pass (`Young`) and what
the key before did (`Old`), and neither exceeds the limit (`TwoKeysInv`).
`WaitingIsEnough`: what a refused voter still has to wait is never less than what is left of
the key (`WaitInv`), by `RetryCoversWindow`, which says that rounding up to seconds never
falls short.  `KnownBrowsersDoVoteOnce`: the vote that brings the cookie is recorded before
the browser holds it.  `KnownInv` covers the gap: ballots and requests under way of a browser
carry its cookie, or, while it has none, there is only the one vote in flight whose answer
brings it.

`AuthSessionProofs`.  Addresses are stored in one spelling, and nobody was told of an account
that is not there (`AccountsInv`; accounts removed by hand are forgotten with what was told).
Each token, in storage, in a tab or under way, lasts at most a TTL from when the password of
its account was given (`CallsInv`), so no chain of reloads and answers prolongs a session.
`ShowsOf` follows a tab from loading to signed in or out; `SignedOutStaysSignedOut` is
inductive with these.

`ServerProofs`.  What `run` has opened in each phase is `PhaseInv`.  `RequestsInv` says that a
call ends within its bound, that nothing is counted while its handler still asks MongoDB, and
that what was counted ends announced or excused.  As Redis is open for as long as handlers run,
unless the drain gave up, a call to it that nothing fails is heard; that is where the two meet.

`LivePageProofs`.  A page catches up because all that a connection brings was read or counted
after the connection was begun, or was under way just then (`FreshInv`), and so was the refetch
that it asked for, whose answer or successor is on the screen (`CatchUpInv`).  That a vote
counted from then on brings at least what Redis had is `TallyInv`: Redis, with what is still on
its way to it, never has more than MongoDB.  A page without a load under way shows something
(`LoadedInv`).  `OneSocketAtATime` needs that a dropped socket has no peer (`SocketInv`).

`PollCreationProofs`.  One poll per request: a request still at its insert has stored nothing
(`StoredInv`); links: an answer names a poll that its own request stored (`LinksInv`).  That
the server refuses nothing of a form but its blind spots compares two filters of the same rows:
the browser drops blank rows, the server trims and collapses, each with its own spaces, and both
keep the order.  `Keep` is
that filter as one formula rather than a recursion, and `KeepKeeps` (it keeps exactly the
wanted elements, in order) is proved from the well-ordering of the naturals (`LeastNumber`).
`TextsInv` says what the form had checked of the request under way.  That a refusal names the
row that was sent rests on both filters keeping the same rows (`KeepTogether`): the choice at a
place of the server's list is the text of the row at that place (`SentRows`).  Two
choices that only one side takes for the same have a spelling that only one side knows
(`BlindDuplicate`), and a choice that only the server refuses is a blind spot or such a pair
(`MirroredFails`).

Only model-checked:

- Liveness, as TLAPS does not prove fairness arguments here: `EveryRequestIsAnswered` and
  `EveryBallotIsCounted` of `PollService`, `ClosedClientsLeave` of `Hub`, `SettlesInTheEnd` of
  `LivePage`, `EveryRequestIsAnswered` and `ShutdownEnds` of `Server`.
- What `Load` refuses, which is its guards one by one.
- `SlowViewersDoNotStall` of `Hub`, which says that a step is ENABLED.
- The statements that TLC refutes (section 4), which are not theorems.

## 7. Not modelled, and why

`PROJECT.json` lists every component with its status.

- `repairCountsIfNeeded` and `PollRepo.ReplaceCounts`: they act on documents whose counters do
  not match their options, which this code never writes.
- The CORS headers: `NewCORS` sets them before anything can refuse a request, and nothing in
  the server reads them.
- `Hub.Stats`, the peek tool, the wording of errors and logs, request IDs: they read or print,
  and nothing depends on them.
- The dashboard keeps the list of `useAsyncData`, which `LivePage` has, and a marker of the row
  that is busy; what a second click does to a poll is Close and Delete repeated.
- Formatting, layout, animation, the copy button: presentation.
- A client that leaves is, in `PollService`, a MongoDB call that fails; `Server` has it as such.
- Drivers (pools, retries, reconnects), net/http and the browser are modelled from how the code
  uses them: calls that work, fail, or fail after they took effect.
