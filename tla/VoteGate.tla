------------------------------ MODULE VoteGate ------------------------------
(***************************************************************************)
(* What a vote passes before the poll service looks at the poll: the       *)
(* anonymous identity of the browser (handlers/poll.go, the lp_voter       *)
(* cookie) and the rate limit of its address (redisstore/ratelimit.go,     *)
(* checkRateLimit of services/poll.go), and how its answer gets back.      *)
(*                                                                         *)
(* One poll.  Time passes in ticks and is kept as what is left: the time to *)
(* live of a Redis key, the time a refused voter is told to wait.  A fresh  *)
(* voter key is named after the request it was drawn for, as 128 random    *)
(* bits never repeat.  What happens to a vote behind the gate is the       *)
(* subject of PollService; here it is recorded, refused or fails.          *)
(***************************************************************************)
EXTENDS Integers, FiniteSets

CONSTANTS
    Requests,        \* vote requests
    Browsers,
    Addresses,       \* hashed client addresses
    NoAddress,       \* hashIP(""): the address of the caller is not known
    Limit,           \* VOTE_RATE_LIMIT
    Window,          \* VOTE_RATE_WINDOW, in ticks
    TicksPerSecond,
    MaxRedisFaults,  \* bound on failing scripts and lost keys
    MaxLost,         \* bound on answers that do not reach the browser
    None

\* config.Load refuses a limit or a window that is not positive.
ASSUME LimitAssumption  == Limit \in Nat \ {0}
ASSUME WindowAssumption == Window \in Nat \ {0}
ASSUME TickAssumption   == TicksPerSecond \in Nat \ {0}
ASSUME BoundAssumption  == MaxRedisFaults \in Nat /\ MaxLost \in Nat

\* What the Redis key of an address holds.
Keys == [count : Nat \ {0}, ttl : 1 .. Window]

\* No name, and no key, is the one that means nothing.
ASSUME NameAssumption == NoAddress \notin Addresses /\ None \notin Requests \cup Keys

VARIABLES
    window,      \* the Redis key of each address: [count, ttl], or None
    cookie,      \* the voter key each browser holds, or None
    votes,       \* the vote documents: [voter, browser]
    pc, req, resp,
    redisFaults, lost,
    granted,     \* history: votes the script let pass, since the key was created
    ago,         \* history: ticks since the script let a vote pass, Never for longer or not at all
    wait,        \* history: ticks a refused voter still has to wait
    blocked,     \* history: the refused votes whose key is still there
    excused      \* history: browsers that sent a vote while they could not be known

limiter == <<window, granted, ago, wait, blocked>>
vars == <<limiter, cookie, votes, pc, req, resp, redisFaults, lost, excused>>

Ages == 0 .. Window
Never == Window + 1

Statuses == {"created", "alreadyVoted", "invalid", "tooMany", "refused", "internal"}

Ballots == [browser : Browsers, address : Addresses \cup {NoAddress},
            cookie : Requests \cup {None}, voter : Requests \cup {None}]

NoAnswer == [status |-> "none", setCookie |-> None]

Init ==
    /\ window = [a \in Addresses |-> None]
    /\ cookie = [b \in Browsers |-> None]
    /\ votes = {}
    /\ pc = [r \in Requests |-> "idle"]
    /\ req = [r \in Requests |-> None]
    /\ resp = [r \in Requests |-> NoAnswer]
    /\ redisFaults = 0 /\ lost = 0
    /\ granted = [a \in Addresses |-> 0]
    /\ ago = [r \in Requests |-> Never]
    /\ wait = [r \in Requests |-> 0]
    /\ blocked = {}
    /\ excused = {}

\* The handler ends: whatever the status, a cookie that was issued is in the headers.
Answer(r, status) ==
    /\ pc' = [pc EXCEPT ![r] = "answered"]
    /\ resp' = [resp EXCEPT ![r] =
          [ status |-> status,
            setCookie |-> IF req[r].cookie = None THEN req[r].voter ELSE None ]]

Unknown(b) ==
    \E r \in Requests : /\ pc[r] \notin {"idle", "done"} /\ req[r].browser = b
                    /\ req[r].cookie = None /\ req[r].voter # None

-----------------------------------------------------------------------------
(* The handler                                                             *)

\* A deviation: the cookie is not read.
VoterKeyAlwaysFresh(r, b) == r

\* voterKey: the cookie the request came with, else a fresh key.
VoterKey(r, b) == IF cookie[b] # None THEN cookie[b] ELSE r

\* A vote arrives with the cookie its browser has at the time.
Send(r, b, a) ==
    /\ pc[r] = "idle"
    /\ req' = [req EXCEPT ![r] =
          [browser |-> b, address |-> a, cookie |-> cookie[b], voter |-> VoterKey(r, b)]]
    /\ pc' = [pc EXCEPT ![r] = "limit"]
    /\ excused' = IF cookie[b] = None /\ Unknown(b) THEN excused \cup {b} ELSE excused
    /\ UNCHANGED <<limiter, cookie, votes, resp, redisFaults, lost>>

\* A body that is not JSON, or an empty ballot, is refused before voterKey runs.
SendMalformed(r, b, a) ==
    /\ pc[r] = "idle"
    /\ req' = [req EXCEPT ![r] =
          [browser |-> b, address |-> a, cookie |-> cookie[b], voter |-> None]]
    /\ pc' = [pc EXCEPT ![r] = "answered"]
    /\ resp' = [resp EXCEPT ![r] = [NoAnswer EXCEPT !.status = "invalid"]]
    /\ UNCHANGED <<limiter, cookie, votes, redisFaults, lost, excused>>

-----------------------------------------------------------------------------
(* The rate limit                                                          *)

\* The expiry is set by a second command, which did not come.
CountedWithoutExpiry(w) ==
    IF w = None THEN [count |-> 1, ttl |-> None] ELSE [w EXCEPT !.count = @ + 1]

\* rateScript: INCR, and PEXPIRE when that created the key.
Counted(w) ==
    IF w = None THEN [count |-> 1, ttl |-> Window] ELSE [w EXCEPT !.count = @ + 1]

\* A deviation: off by one.
AllowedOneMore(w) == w.count <= Limit + 1

\* AllowVote: the limit is inclusive.
Allowed(w) == w.count <= Limit

\* A deviation: rounded down.
RetrySecondsFloor(ttl) == ttl \div TicksPerSecond

\* fail: Retry-After is the rest of the window in seconds, rounded up.
RetrySeconds(ttl) == (ttl + TicksPerSecond - 1) \div TicksPerSecond

Pass(r) == pc' = [pc EXCEPT ![r] = "vote"] /\ UNCHANGED resp

\* checkRateLimit: only a clear refusal stops the vote.
CheckRateLimit(r) ==
    /\ pc[r] = "limit" /\ req[r].address # NoAddress
    /\ LET a == req[r].address
           w == Counted(window[a])
           g == IF window[a] = None THEN 0 ELSE granted[a]
       IN /\ window' = [window EXCEPT ![a] = w]
          /\ \/ /\ Allowed(w)
                /\ Pass(r)
                /\ granted' = [granted EXCEPT ![a] = g + 1]
                /\ ago' = [ago EXCEPT ![r] = 0]
                /\ UNCHANGED <<wait, blocked>>
             \/ /\ ~Allowed(w)
                /\ Answer(r, "tooMany")
                /\ granted' = [granted EXCEPT ![a] = g]
                /\ wait' = [wait EXCEPT ![r] = RetrySeconds(w.ttl) * TicksPerSecond]
                /\ blocked' = blocked \cup {r}
                /\ UNCHANGED ago
    /\ UNCHANGED <<cookie, votes, req, redisFaults, lost, excused>>

\* hashIP("") leaves nothing to count.
CheckNobody(r) ==
    /\ pc[r] = "limit" /\ req[r].address = NoAddress
    /\ Pass(r)
    /\ UNCHANGED <<limiter, cookie, votes, req, redisFaults, lost, excused>>

\* The script fails, perhaps after it ran: the vote passes.
CheckFails(r) ==
    /\ pc[r] = "limit" /\ req[r].address # NoAddress
    /\ redisFaults < MaxRedisFaults /\ redisFaults' = redisFaults + 1
    /\ LET a == req[r].address
       IN \/ /\ window' = [window EXCEPT ![a] = Counted(window[a])]
             /\ granted' = [granted EXCEPT ![a] = IF window[a] = None THEN 0 ELSE @]
          \/ UNCHANGED <<window, granted>>
    /\ Pass(r)
    /\ UNCHANGED <<ago, wait, blocked, cookie, votes, req, lost, excused>>

-----------------------------------------------------------------------------
(* Behind the gate, and back                                               *)

\* The unique index on (poll, voter) decides; a failing insert may have been applied.
Vote(r) ==
    /\ pc[r] = "vote"
    /\ LET known == \E v \in votes : v.voter = req[r].voter
           doc   == [voter |-> req[r].voter, browser |-> req[r].browser]
       IN \/ known /\ Answer(r, "alreadyVoted") /\ UNCHANGED votes
          \/ ~known /\ votes' = votes \cup {doc} /\ Answer(r, "created")
          \/ ~known /\ votes' = votes \cup {doc} /\ Answer(r, "internal")
          \/ Answer(r, "internal") /\ UNCHANGED votes
          \/ Answer(r, "refused") /\ UNCHANGED votes
    /\ UNCHANGED <<limiter, cookie, req, redisFaults, lost, excused>>

\* The exchange is over.
Over(r) ==
    /\ pc[r] = "answered"
    /\ pc' = [pc EXCEPT ![r] = "done"]
    /\ resp' = [resp EXCEPT ![r] = NoAnswer]
    /\ UNCHANGED <<limiter, votes, req, redisFaults>>

\* The browser keeps the cookie it is sent.
Deliver(r) ==
    /\ Over(r)
    /\ LET b == req[r].browser
       IN cookie' = [cookie EXCEPT ![b] = IF resp[r].setCookie # None THEN resp[r].setCookie ELSE @]
    /\ UNCHANGED <<lost, excused>>

\* The answer does not reach the browser, and with it a new cookie.
Lose(r) ==
    /\ Over(r)
    /\ lost < MaxLost /\ lost' = lost + 1
    /\ excused' = IF resp[r].setCookie # None THEN excused \cup {req[r].browser} ELSE excused
    /\ UNCHANGED cookie

\* The keys of these addresses are gone, and so is what they refused.
Gone(A) == blocked' = {r \in blocked : req[r].address \notin A}

\* Time passes, and Redis drops the keys that are due.
Tick ==
    /\ LET due == {a \in Addresses : window[a] # None /\ window[a].ttl = 1}
       IN /\ window' = [a \in Addresses |->
                IF a \in due \/ window[a] = None THEN None ELSE [window[a] EXCEPT !.ttl = @ - 1]]
          /\ Gone(due)
    /\ wait' = [r \in Requests |-> IF wait[r] > 0 THEN wait[r] - 1 ELSE 0]
    /\ ago' = [r \in Requests |-> IF ago[r] \in Ages THEN ago[r] + 1 ELSE Never]
    /\ UNCHANGED <<granted, cookie, votes, pc, req, resp, redisFaults, lost, excused>>

\* Redis restarts or evicts the key.
LoseWindow(a) ==
    /\ window[a] # None
    /\ redisFaults < MaxRedisFaults /\ redisFaults' = redisFaults + 1
    /\ window' = [window EXCEPT ![a] = None]
    /\ Gone({a})
    /\ UNCHANGED <<granted, ago, wait, cookie, votes, pc, req, resp, lost, excused>>

Handle(r) ==
    \/ \E b \in Browsers, a \in Addresses \cup {NoAddress} : Send(r, b, a) \/ SendMalformed(r, b, a)
    \/ CheckRateLimit(r) \/ CheckNobody(r) \/ CheckFails(r)
    \/ Vote(r) \/ Deliver(r) \/ Lose(r)

Next == Tick \/ (\E a \in Addresses : LoseWindow(a)) \/ (\E r \in Requests : Handle(r))

Spec == Init /\ [][Next]_vars

-----------------------------------------------------------------------------
(* Properties                                                              *)

\* Every variable has its type, and a key that counts an address always has an end,
\* at most one window away: nobody is blocked for ever.
TypeOK ==
    /\ window \in [Addresses -> Keys \cup {None}]
    /\ cookie \in [Browsers -> Requests \cup {None}]
    /\ votes \subseteq [voter : Requests, browser : Browsers]
    /\ pc \in [Requests -> {"idle", "limit", "vote", "answered", "done"}]
    /\ req \in [Requests -> Ballots \cup {None}]
    /\ resp \in [Requests -> {NoAnswer} \cup [status : Statuses, setCookie : Requests \cup {None}]]
    /\ redisFaults \in 0 .. MaxRedisFaults /\ lost \in 0 .. MaxLost
    /\ granted \in [Addresses -> Nat]
    /\ ago \in [Requests -> Ages \cup {Never}]
    /\ wait \in [Requests -> Nat]
    /\ blocked \subseteq Requests
    /\ excused \subseteq Browsers

\* Every key of an address has an end, and until then the address gets no more than the
\* limit, however its votes interleave and whatever fails; and nobody is refused who has
\* votes left: a refusal that still stands means that the limit was used up in that very
\* window, but for the calls in which Redis counted a vote and its answer was lost.
LimitPerWindow ==
    /\ TypeOK
    /\ \A a \in Addresses : window[a] # None => granted[a] <= Limit /\ granted[a] <= window[a].count
    /\ \A r \in blocked : granted[req[r].address] + redisFaults >= Limit

\* The votes of an address that the script let pass in the last window of time.
Recent(a) == {r \in Requests : ago[r] \in Ages /\ req[r].address = a}

\* ratelimit.go:18-22: the fixed window lets at most twice the limit through in any
\* stretch of time as long as the window, as long as Redis keeps the key.
TwiceTheLimitAtMost ==
    redisFaults = 0 =>
        \A a \in Addresses : Cardinality(Recent(a)) <= 2 * Limit

\* A voter who waits as long as Retry-After says meets a window that was opened after
\* the refusal, or none: rounding to seconds and the votes of others do not matter.
RetryAfterSuffices == \A r \in blocked : wait[r] > 0

\* poll.go:20-22 of handlers: a browser votes once on a poll, as long as it never sent
\* two votes at once before it had a cookie, and got the answer that carried it.
KnownBrowsersVoteOnce ==
    \A b \in Browsers \ excused : \A v, w \in votes : v.browser = b /\ w.browser = b => v = w

\* handlers/poll.go:20-21: the cookie stops "one browser voting twice on the same poll".
BrowsersVoteOnce ==
    \A b \in Browsers : \A v, w \in votes : v.browser = b /\ w.browser = b => v = w
=============================================================================
