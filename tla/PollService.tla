---------------------------- MODULE PollService ----------------------------
(***************************************************************************)
(* One poll of live-polls as services/poll.go serves it: the requests that *)
(* vote on it, read it, list it, close it and delete it, the two MongoDB   *)
(* collections that hold it (db/polls.go, db/votes.go) and the live layer  *)
(* in Redis (redisstore/counters.go, redisstore/pubsub.go).                *)
(*                                                                         *)
(* A request is a goroutine.  Each of its actions is one call to MongoDB   *)
(* or Redis together with the local code that runs until the next call, so *)
(* two requests interleave exactly where the program can: between calls.   *)
(* Every call may fail, and a failed write may or may not have taken       *)
(* effect: a lost reply and the 15 s (5 s for detached work) deadline look *)
(* alike to the caller.                                                    *)
(***************************************************************************)
EXTENDS Naturals, Sequences, FiniteSets

CONSTANTS
    Requests,     \* request goroutines, of every backend instance
    Voters,       \* voter keys (the vk cookie)
    Owner,        \* the poll's owner
    Stranger,     \* a signed-in user who does not own the poll
    Options,      \* the poll's options
    Multiple,     \* TRUE for ModeMultiple, FALSE for ModeSingle
    Operations,   \* the operations requests may be, a subset of Ops
    Expires,      \* does the poll have an expiresAt?
    WarmStart,    \* is the tally in Redis when the model starts?
    MaxInFlight,  \* bound on the requests served at the same time
    Budget,       \* bound on the faults of each kind
    Malformed,    \* a ballot naming an unknown option, or one option twice
    None          \* no poll document, no Redis hash, no payload

Ops == {"vote", "results", "list", "close", "delete"}

FaultKinds ==
    { "mongo",    \* a MongoDB call returns an error
      "redis",    \* a Redis call returns an error
      "evict",    \* Redis loses the hash: expiry, eviction, restart
      "crash" }   \* the instance serving a request dies

ASSUME OptionsAssumption    == IsFiniteSet(Options) /\ Options # {}
ASSUME RequestsAssumption   == IsFiniteSet(Requests)
ASSUME ModeAssumption       == Multiple \in BOOLEAN
ASSUME OperationsAssumption == Operations \subseteq Ops
ASSUME FlagsAssumption      == Expires \in BOOLEAN /\ WarmStart \in BOOLEAN
ASSUME BoundsAssumption     == MaxInFlight \in Nat /\ Budget \in [FaultKinds -> Nat]
ASSUME PeopleAssumption     == Owner # Stranger /\ {Owner, Stranger} \cap Voters = {}

VARIABLES
    poll,      \* the document in the polls collection, or None
    votes,     \* the documents of the votes collection
    tally,     \* the poll's counter hash in Redis, or None
    events,    \* what has been published on the poll's channel, in order
    expired,   \* has expiresAt passed?
    pc,        \* where each request is
    req,       \* what each request asked for
    doc,       \* the poll document in each request's hands
    resp,      \* the answer each request gave
    faults,    \* the faults of each kind so far
    counted    \* history: the ballots IncrementCounts has applied

mongo == <<poll, votes, counted>>
redis == <<tally, events>>
local == <<pc, doc, resp>>
vars  == <<poll, votes, tally, events, expired, pc, req, doc, resp, faults, counted>>

----------------------------------------------------------------------------
(* Data                                                                    *)

Tallies == [counts : [Options -> Nat], ballots : Nat]

Polls == [closed : BOOLEAN, tally : Tallies]

Views == [tally : Tallies, closed : BOOLEAN, expired : BOOLEAN]

\* Absence is no document, no hash and no payload.
ASSUME NoneAssumption == None \notin Polls /\ None \notin Tallies /\ None \notin Views

Ballots == SUBSET Options

VoteDocs == [id : Requests, voter : Voters, ballot : Ballots]

Events == [type : {"results", "closed"}, view : Views]
            \cup [type : {"deleted"}, view : {None}]

Statuses == { "none", "created", "ok", "invalid", "tooMany", "notFound", "forbidden",
              "pollClosed", "alreadyVoted", "internal", "lost" }

Labels == { "idle", "limit", "load", "list", "insert", "increment", "recount",
            "countBallots", "live", "getTally", "seed", "setClosed", "remove", "drop",
            "publish", "done" }

RequestRecords == [ op : Ops \cup {"none"}, who : Voters \cup {Owner, Stranger},
                    ballot : Ballots \cup {Malformed},
                    late : BOOLEAN, afterClose : BOOLEAN ]

NoRequest == [ op |-> "none", who |-> Stranger, ballot |-> {},
               late |-> FALSE, afterClose |-> FALSE ]

ZeroTally == [counts |-> [o \in Options |-> 0], ballots |-> 0]

\* $inc of one entry per selected option and of the ballot counter, in one step.
AddBallot(t, ballot) ==
    [ counts  |-> [o \in Options |-> IF o \in ballot THEN t.counts[o] + 1 ELSE t.counts[o]],
      ballots |-> t.ballots + 1 ]

\* What an aggregation over the vote documents D returns for each option.
CountsOf(D) == [o \in Options |-> Cardinality({d \in D : o \in d.ballot})]

TallyOf(D) == [counts |-> CountsOf(D), ballots |-> Cardinality(D)]

\* The poll's mode decides what a legal ballot is.
CleanSelections(ballot) ==
    /\ ballot # Malformed
    /\ ballot # {}
    /\ Multiple \/ \E o \in Options : ballot = {o}

\* The public view of a document.  The fallback of View for a document with no
\* ballots changes nothing here: such a document has no selections either.
View(d, isExpired) == [tally |-> d.tally, closed |-> d.closed, expired |-> isExpired]

AcceptsVotes(view) == ~view.closed /\ ~view.expired

\* A deviation: uniq_poll_voter is missing.
HasVotedWithoutIndex(v) == FALSE

\* The unique index on (pollId, voterKey).
HasVoted(v) == \E d \in votes : d.voter = v

VoteDoc(r) == [id |-> r, voter |-> req[r].who, ballot |-> req[r].ballot]

----------------------------------------------------------------------------
(* Control                                                                 *)

InFlight == {r \in Requests : pc[r] \notin {"idle", "done"}}

Proceed(r, label, d) ==
    /\ pc' = [pc EXCEPT ![r] = label]
    /\ doc' = [doc EXCEPT ![r] = d]
    /\ UNCHANGED resp

Reply(r, status, view) ==
    /\ pc' = [pc EXCEPT ![r] = "done"]
    /\ doc' = [doc EXCEPT ![r] = None]
    /\ resp' = [resp EXCEPT ![r] = [status |-> status, view |-> view]]

Fault(kind) ==
    /\ faults[kind] < Budget[kind]
    /\ faults' = [faults EXCEPT ![kind] = @ + 1]

Init ==
    /\ poll = [closed |-> FALSE, tally |-> ZeroTally]
    /\ votes = {}
    /\ tally = IF WarmStart THEN ZeroTally ELSE None
    /\ events = <<>>
    /\ expired = FALSE
    /\ pc = [r \in Requests |-> "idle"]
    /\ req = [r \in Requests |-> NoRequest]
    /\ doc = [r \in Requests |-> None]
    /\ resp = [r \in Requests |-> [status |-> "none", view |-> None]]
    /\ faults = [k \in FaultKinds |-> 0]
    /\ counted = {}

----------------------------------------------------------------------------
(* Deviations: bugs this code could plausibly have.  Nothing below uses    *)
(* them; each one, put in the place of the definition it is named after,   *)
(* must break a property.                                                  *)

\* The vote path forgets the closed flag.
AfterLoadOfClosedPoll(r) ==
    CASE req[r].op = "vote" -> ( IF req[r].late \/ ~CleanSelections(req[r].ballot)
                                   THEN Reply(r, "pollClosed", None)
                                   ELSE Proceed(r, "insert", poll) )
      [] req[r].op = "close" -> Proceed(r, "setClosed", poll)
      [] req[r].op = "delete" -> Proceed(r, "remove", poll)
      [] OTHER -> Proceed(r, "getTally", poll)

\* An insert that fails is logged and the vote goes on.
InsertIgnoringErrors(r) ==
    /\ pc[r] = "insert"
    /\ \/ HasVoted(req[r].who) /\ Reply(r, "alreadyVoted", None) /\ UNCHANGED <<votes, faults>>
       \/ /\ ~HasVoted(req[r].who)
          /\ Proceed(r, "increment", doc[r])
          /\ \/ votes' = votes \cup {VoteDoc(r)} /\ UNCHANGED faults
             \/ Fault("mongo") /\ UNCHANGED votes
    /\ UNCHANGED <<poll, counted, redis, expired, req>>

\* A duplicate is taken for a hiccup and tried again.
InsertRetryingDuplicates(r) ==
    /\ pc[r] = "insert"
    /\ IF HasVoted(req[r].who)
         THEN Proceed(r, "load", None) /\ UNCHANGED votes
         ELSE votes' = votes \cup {VoteDoc(r)} /\ Proceed(r, "increment", doc[r])
    /\ UNCHANGED <<poll, counted, faults, redis, expired, req>>

\* The tally is read, changed and written back instead of incremented in place.
IncrementedReadModifyWrite(r) == [doc[r] EXCEPT !.tally = AddBallot(@, req[r].ballot)]

\* A failed $inc is tried again, although it may have been applied.
IncrementRetried(r) ==
    /\ pc[r] = "increment"
    /\ poll # None
    /\ poll' = [poll EXCEPT !.tally = AddBallot(@, req[r].ballot)]
    /\ counted' = counted \cup {VoteDoc(r)}
    /\ \/ Proceed(r, "live", poll') /\ UNCHANGED faults
       \/ Proceed(r, "increment", doc[r]) /\ Fault("mongo")
    /\ UNCHANGED <<votes, redis, expired, req>>

\* The $inc only matches a poll that is still open.
IncrementOpenPollOnly(r) ==
    /\ pc[r] = "increment"
    /\ IF poll # None /\ ~poll.closed
         THEN /\ poll' = [poll EXCEPT !.tally = AddBallot(@, req[r].ballot)]
              /\ counted' = counted \cup {VoteDoc(r)}
              /\ Proceed(r, "live", poll')
         ELSE Proceed(r, "recount", doc[r]) /\ UNCHANGED <<poll, counted>>
    /\ UNCHANGED <<votes, faults, redis, expired, req>>

\* The recount keeps the ballot counter of the stale document.
CountBallotsOfStaleDocument(r) ==
    /\ pc[r] = "countBallots"
    /\ Proceed(r, "live", doc[r])
    /\ UNCHANGED <<mongo, redis, expired, req, faults>>

\* The live counters are overwritten with MongoDB's numbers instead of incremented.
ApplyLiveOverwriting(r) ==
    /\ pc[r] = "live"
    /\ tally' = doc[r].tally
    /\ Proceed(r, "publish", doc[r])
    /\ UNCHANGED <<mongo, events, expired, req, faults>>

\* A Redis error while reading the tally fails the request.
GetTallyFailing(r) ==
    /\ pc[r] = "getTally"
    /\ \/ tally # None /\ Reply(r, "ok", View(doc[r], expired)) /\ UNCHANGED faults
       \/ tally = None /\ Proceed(r, "seed", doc[r]) /\ UNCHANGED faults
       \/ Fault("redis") /\ Reply(r, "internal", None)
    /\ UNCHANGED <<mongo, redis, expired, req>>

\* SetClosed toggles the flag.
ClosedToggled == [poll EXCEPT !.closed = ~@]

\* The event carries the numbers of Redis when it has them.
EventOfRedis(r) ==
    CASE req[r].op = "vote" ->
           [ type |-> "results",
             view |-> View([doc[r] EXCEPT !.tally = IF tally = None THEN @ ELSE tally], FALSE) ]
      [] req[r].op = "close" -> [type |-> "closed", view |-> View(doc[r], expired)]
      [] OTHER -> [type |-> "deleted", view |-> None]

----------------------------------------------------------------------------
(* A request arrives                                                       *)

\* late and afterClose are what the request could know of when it arrived:
\* late is poll.IsExpired(now) for the "now" Vote captures on its first line;
\* afterClose says that a Close or a Delete had already been answered.
Arrive(r, op, who, ballot) ==
    /\ pc[r] = "idle"
    /\ op \in Operations
    /\ Cardinality(InFlight) < MaxInFlight
    /\ req' = [req EXCEPT ![r] =
                 [ op |-> op, who |-> who, ballot |-> ballot, late |-> expired,
                   afterClose |-> \E c \in Requests : /\ req[c].op \in {"close", "delete"}
                                                      /\ resp[c].status = "ok" ]]
    /\ CASE op = "list" -> Proceed(r, "list", None)
         [] op = "vote" /\ ballot = {} -> Reply(r, "invalid", None)
         [] op = "vote" /\ ballot # {} -> Proceed(r, "limit", None)
         [] OTHER -> Proceed(r, "load", None)
    /\ UNCHANGED <<mongo, redis, expired, faults>>

ArriveVote(r) ==
    \E v \in Voters, b \in Ballots \cup {Malformed} : Arrive(r, "vote", v, b)

ArriveOther(r) ==
    \/ Arrive(r, "results", Stranger, {})
    \/ Arrive(r, "list", Owner, {})
    \/ \E op \in {"close", "delete"}, who \in {Owner, Stranger} : Arrive(r, op, who, {})

\* checkRateLimit: only a clear refusal stops the vote; an error lets it pass.
CheckRateLimit(r) ==
    /\ pc[r] = "limit"
    /\ \/ Proceed(r, "load", None) /\ UNCHANGED faults
       \/ Proceed(r, "load", None) /\ Fault("redis")
       \/ Reply(r, "tooMany", None) /\ UNCHANGED faults
    /\ UNCHANGED <<mongo, redis, expired, req>>

\* What the operations do with the document load found, up to their next call.
AfterLoad(r) ==
    CASE req[r].op = "vote" ->
           ( CASE poll.closed -> Reply(r, "pollClosed", None)
               [] ~poll.closed /\ req[r].late -> Reply(r, "pollClosed", None)
               [] ~poll.closed /\ ~req[r].late /\ ~CleanSelections(req[r].ballot)
                    -> Reply(r, "invalid", None)
               [] OTHER -> Proceed(r, "insert", poll) )
      [] req[r].op = "close" ->
           ( CASE req[r].who # Owner -> Reply(r, "forbidden", None)
               [] req[r].who = Owner /\ poll.closed -> Reply(r, "pollClosed", None)
               [] OTHER -> Proceed(r, "setClosed", poll) )
      [] req[r].op = "delete" ->
           ( IF req[r].who # Owner THEN Reply(r, "forbidden", None)
                                   ELSE Proceed(r, "remove", poll) )
      [] OTHER -> Proceed(r, "getTally", poll)

Load(r) ==
    /\ pc[r] = "load"
    /\ \/ poll # None /\ AfterLoad(r) /\ UNCHANGED faults
       \/ poll = None /\ Reply(r, "notFound", None) /\ UNCHANGED faults
       \/ Fault("mongo") /\ Reply(r, "internal", None)
    /\ UNCHANGED <<mongo, redis, expired, req>>

----------------------------------------------------------------------------
(* Vote                                                                    *)

\* votes.Create: the unique index on (pollId, voterKey) decides.
Insert(r) ==
    /\ pc[r] = "insert"
    /\ \/ /\ HasVoted(req[r].who)
          /\ Reply(r, "alreadyVoted", None)
          /\ UNCHANGED <<votes, faults>>
       \/ /\ ~HasVoted(req[r].who)
          /\ votes' = votes \cup {VoteDoc(r)}
          /\ Proceed(r, "increment", doc[r])
          /\ UNCHANGED faults
       \/ /\ Fault("mongo")
          /\ Reply(r, "internal", None)
          /\ \/ UNCHANGED votes
             \/ ~HasVoted(req[r].who) /\ votes' = votes \cup {VoteDoc(r)}
    /\ UNCHANGED <<poll, counted, redis, expired, req>>

\* polls.IncrementCounts: one atomic $inc that answers with the new document.
Incremented(r) == [poll EXCEPT !.tally = AddBallot(@, req[r].ballot)]

ApplyIncrement(r) ==
    /\ poll # None
    /\ poll' = Incremented(r)
    /\ counted' = counted \cup {VoteDoc(r)}

Increment(r) ==
    /\ pc[r] = "increment"
    /\ \/ ApplyIncrement(r) /\ Proceed(r, "live", Incremented(r)) /\ UNCHANGED faults
       \/ /\ poll = None
          /\ Proceed(r, "recount", doc[r])
          /\ UNCHANGED <<poll, counted, faults>>
       \/ /\ Fault("mongo")
          /\ Proceed(r, "recount", doc[r])
          /\ ApplyIncrement(r) \/ UNCHANGED <<poll, counted>>
    /\ UNCHANGED <<votes, redis, expired, req>>

\* votes.RecountByPoll is two reads: the aggregation, then CountDocuments.
Recount(r) ==
    /\ pc[r] = "recount"
    /\ \/ /\ Proceed(r, "countBallots", [doc[r] EXCEPT !.tally.counts = CountsOf(votes)])
          /\ UNCHANGED faults
       \/ Fault("mongo") /\ Reply(r, "internal", None)
    /\ UNCHANGED <<mongo, redis, expired, req>>

CountBallots(r) ==
    /\ pc[r] = "countBallots"
    /\ \/ /\ Proceed(r, "live", [doc[r] EXCEPT !.tally.ballots = Cardinality(votes)])
          /\ UNCHANGED faults
       \/ Fault("mongo") /\ Reply(r, "internal", None)
    /\ UNCHANGED <<mongo, redis, expired, req>>

\* applyLive, first half: the increment script, atomic in Redis.
ApplyLive(r) ==
    /\ pc[r] = "live"
    /\ \/ /\ tally # None
          /\ tally' = AddBallot(tally, req[r].ballot)
          /\ Proceed(r, "publish", doc[r])
          /\ UNCHANGED faults
       \/ /\ tally = None
          /\ Proceed(r, "seed", doc[r])
          /\ UNCHANGED <<tally, faults>>
       \/ /\ Fault("redis")
          /\ Proceed(r, "publish", doc[r])
          /\ \/ UNCHANGED tally
             \/ tally # None /\ tally' = AddBallot(tally, req[r].ballot)
    /\ UNCHANGED <<mongo, events, expired, req>>

----------------------------------------------------------------------------
(* Results and ListByOwner                                                 *)

\* applyLiveTally: the hash when it is there, the loaded numbers otherwise.
GetTally(r) ==
    /\ pc[r] = "getTally"
    /\ \/ /\ tally # None
          /\ Reply(r, "ok", View([doc[r] EXCEPT !.tally = tally], expired))
          /\ UNCHANGED faults
       \/ tally = None /\ Proceed(r, "seed", doc[r]) /\ UNCHANGED faults
       \/ Fault("redis") /\ Reply(r, "ok", View(doc[r], expired))
    /\ UNCHANGED <<mongo, redis, expired, req>>

\* SeedTally replaces the hash with the numbers in this request's hands.
Seed(r) ==
    /\ pc[r] = "seed"
    /\ IF req[r].op = "vote" THEN Proceed(r, "publish", doc[r])
                             ELSE Reply(r, "ok", View(doc[r], expired))
    /\ \/ tally' = doc[r].tally /\ UNCHANGED faults
       \/ Fault("redis") /\ (UNCHANGED tally \/ tally' = doc[r].tally)
    /\ UNCHANGED <<mongo, events, expired, req>>

ListByOwner(r) ==
    /\ pc[r] = "list"
    /\ \/ poll # None /\ Reply(r, "ok", View(poll, expired)) /\ UNCHANGED faults
       \/ poll = None /\ Reply(r, "ok", None) /\ UNCHANGED faults
       \/ Fault("mongo") /\ Reply(r, "internal", None)
    /\ UNCHANGED <<mongo, redis, expired, req>>

----------------------------------------------------------------------------
(* Close and Delete                                                        *)

Closed == [poll EXCEPT !.closed = TRUE]

SetClosed(r) ==
    /\ pc[r] = "setClosed"
    /\ \/ /\ poll # None
          /\ poll' = Closed
          /\ Proceed(r, "publish", Closed)
          /\ UNCHANGED faults
       \/ poll = None /\ Reply(r, "notFound", None) /\ UNCHANGED <<poll, faults>>
       \/ /\ Fault("mongo")
          /\ Reply(r, "internal", None)
          /\ UNCHANGED poll \/ (poll # None /\ poll' = Closed)
    /\ UNCHANGED <<votes, counted, redis, expired, req>>

\* polls.Delete; the vote documents stay behind.
Remove(r) ==
    /\ pc[r] = "remove"
    /\ \/ /\ poll # None
          /\ poll' = None
          /\ Proceed(r, "drop", doc[r])
          /\ UNCHANGED faults
       \/ poll = None /\ Reply(r, "notFound", None) /\ UNCHANGED <<poll, faults>>
       \/ Fault("mongo") /\ Reply(r, "internal", None) /\ poll' \in {poll, None}
    /\ UNCHANGED <<votes, counted, redis, expired, req>>

DropTally(r) ==
    /\ pc[r] = "drop"
    /\ Proceed(r, "publish", doc[r])
    /\ \/ tally' = None /\ UNCHANGED faults
       \/ Fault("redis") /\ tally' \in {tally, None}
    /\ UNCHANGED <<mongo, events, expired, req>>

----------------------------------------------------------------------------
(* Publishing, and the answer that follows it                              *)

EventOf(r) ==
    CASE req[r].op = "vote"  -> [type |-> "results", view |-> View(doc[r], req[r].late)]
      [] req[r].op = "close" -> [type |-> "closed", view |-> View(doc[r], expired)]
      [] OTHER               -> [type |-> "deleted", view |-> None]

AnswerOf(r) == IF req[r].op = "vote" THEN "created" ELSE "ok"

Publish(r) ==
    /\ pc[r] = "publish"
    /\ Reply(r, AnswerOf(r), EventOf(r).view)
    /\ \/ events' = Append(events, EventOf(r)) /\ UNCHANGED faults
       \/ Fault("redis") /\ (UNCHANGED events \/ events' = Append(events, EventOf(r)))
    /\ UNCHANGED <<mongo, tally, expired, req>>

----------------------------------------------------------------------------
(* The environment                                                         *)

\* The wall clock passes expiresAt.
Expire ==
    /\ Expires /\ ~expired
    /\ expired' = TRUE
    /\ UNCHANGED <<mongo, redis, local, req, faults>>

\* countsTTL runs out, memory pressure evicts the key, or Redis restarts.
LoseTally ==
    /\ tally # None
    /\ Fault("evict")
    /\ tally' = None
    /\ UNCHANGED <<mongo, events, expired, local, req>>

\* The instance dies: what the request has written stays, the rest never happens.
Crash(r) ==
    /\ r \in InFlight
    /\ Fault("crash")
    /\ Reply(r, "lost", None)
    /\ UNCHANGED <<mongo, redis, expired, req>>

----------------------------------------------------------------------------

\* Every step a request takes by itself once it has arrived.
Step(r) ==
    \/ CheckRateLimit(r) \/ Load(r) \/ ListByOwner(r)
    \/ Insert(r) \/ Increment(r) \/ Recount(r) \/ CountBallots(r) \/ ApplyLive(r)
    \/ GetTally(r) \/ Seed(r)
    \/ SetClosed(r) \/ Remove(r) \/ DropTally(r)
    \/ Publish(r)

Next ==
    \/ \E r \in Requests : ArriveVote(r) \/ ArriveOther(r) \/ Step(r) \/ Crash(r)
    \/ Expire
    \/ LoseTally

Spec == Init /\ [][Next]_vars

\* Every driver call returns, at the latest at its deadline, and the Go scheduler
\* runs every goroutine: a request that has arrived keeps taking its steps.
Fairness == \A r \in Requests : WF_vars(Step(r))

FairSpec == Spec /\ Fairness

----------------------------------------------------------------------------
(* Properties                                                              *)

\* The requests hold a loaded document at these places.
Holding == {"insert", "increment", "recount", "countBallots", "live", "getTally",
            "seed", "setClosed", "remove", "drop", "publish"}

\* Every variable has its type, and a request past load has a document in hand.
TypeOK ==
    /\ poll \in Polls \cup {None}
    /\ votes \subseteq VoteDocs
    /\ counted \subseteq VoteDocs
    /\ tally \in Tallies \cup {None}
    /\ events \in Seq(Events)
    /\ expired \in BOOLEAN
    /\ pc \in [Requests -> Labels]
    /\ req \in [Requests -> RequestRecords]
    /\ doc \in [Requests -> Polls \cup {None}]
    /\ resp \in [Requests -> [status : Statuses, view : Views \cup {None}]]
    /\ faults \in [FaultKinds -> Nat]
    /\ \A r \in Requests : pc[r] \in Holding => doc[r] \in Polls

AtMost(t, u) == t.ballots <= u.ballots /\ \A o \in Options : t.counts[o] <= u.counts[o]

Twice(t) == [counts |-> [o \in Options |-> 2 * t.counts[o]], ballots |-> 2 * t.ballots]

\* The cached tally of the poll document never shows a ballot that is not in the
\* votes collection, whatever fails or interleaves (Vote inserts first, then $inc).  The
\* counters in Redis may (ScreenShowsTheDurableNumber), but how far a results page can
\* be off is bounded: SeedTally replaces the hash and a vote is added to it at most once,
\* so it never shows more than twice what is recorded.
NoOvercount ==
    /\ poll # None => AtMost(poll.tally, TallyOf(votes))
    /\ tally # None => AtMost(tally, Twice(TallyOf(votes)))

\* The ballots recorded whose $inc is still to come.
Uncounted == {VoteDoc(r) : r \in {q \in Requests : pc[q] = "increment"}}

\* As long as no MongoDB call fails and no instance dies, the cached tally is the
\* recount of the votes collection, but for the votes between their two writes.
NoLostUpdate ==
    (poll # None /\ faults["mongo"] = 0 /\ faults["crash"] = 0)
        => poll.tally = TallyOf(votes \ Uncounted)

\* Neither the view a voter gets back nor an event shows a ballot that has not
\* been recorded: both carry the numbers of MongoDB, never those of Redis.  Whoever is
\* told "created" sees the own ballot in that view, also when the $inc failed and the
\* tally had to be recounted.
VotersAndViewersSeeRecordedBallots ==
    /\ \A r \in Requests : resp[r].status = "created" =>
          /\ AtMost(resp[r].view.tally, TallyOf(votes))
          /\ resp[r].view.tally.ballots >= 1
          /\ \A o \in req[r].ballot : resp[r].view.tally.counts[o] >= 1
    /\ \A i \in DOMAIN events : events[i].type # "deleted"
                                  => AtMost(events[i].view.tally, TallyOf(votes))

Proportionate(t) == \A o \in Options : t.counts[o] <= t.ballots

\* No option is ever shown with more votes than there are ballots (percentOf would
\* exceed 100%): not in the poll, in Redis, in an event or in an answer.
PercentagesMakeSense ==
    /\ poll # None => Proportionate(poll.tally)
    /\ tally # None => Proportionate(tally)
    /\ \A i \in DOMAIN events : events[i].type # "deleted" => Proportionate(events[i].view.tally)
    /\ \A r \in Requests : resp[r].view # None => Proportionate(resp[r].view.tally)

\* The numbers that are published, and those given back to voters and to the owner who
\* closes the poll.
Announced ==
    {events[i].view.tally : i \in {j \in DOMAIN events : events[j].type # "deleted"}}
      \cup {resp[r].view.tally : r \in {q \in Requests : /\ req[q].op \in {"vote", "close"}
                                                       /\ resp[q].view # None}}

\* While MongoDB answers and the poll is there, the announced numbers are states of one
\* history: of any two, the one with more ballots has at least as many votes for every
\* option.  Events are published in any order and the page keeps the one that comes
\* last; this is what lets a viewer tell by the ballots alone which one is newer.  It
\* rests on IncrementCounts answering with the document as its own $inc left it.
ViewsAreOneHistory ==
    poll # None /\ faults["mongo"] = 0
        => \A u, v \in Announced : u.ballots <= v.ballots => AtMost(u, v)

Refusals == {"invalid", "tooMany", "notFound", "pollClosed", "alreadyVoted"}

RecordedBy(r) == \E d \in votes : d.id = r

\* What a voter is told is what the votes collection says: "created" only for a
\* ballot that is recorded, as it was cast; a refusal only when none of it is, and
\* "already voted" only when an earlier ballot of that voter is.
AnswersMatchTheLedger ==
    \A r \in Requests : req[r].op = "vote" =>
        /\ resp[r].status = "created" => VoteDoc(r) \in votes
        /\ resp[r].status \in Refusals => ~RecordedBy(r)
        /\ resp[r].status = "alreadyVoted" => HasVoted(req[r].who)

\* No voter has two ballots in the votes collection, and every ballot there is one
\* that the poll's mode allows.
OneLegalBallotPerVoter ==
    /\ \A d, e \in votes : d.voter = e.voter => d = e
    /\ \A d \in votes : CleanSelections(d.ballot)

\* Every variable has its type, and a ballot cast after the poll was known to be closed,
\* deleted or expired (the owner had the answer, or the time had passed, before it
\* arrived) is not recorded.
NoBallotAfterTheClose ==
    /\ TypeOK
    /\ \A r \in Requests : RecordedBy(r) => ~req[r].late /\ ~req[r].afterClose

\* The live layer is best effort: while MongoDB answers, nothing that happens to
\* Redis turns a request into a server error (applyLive, checkRateLimit).
RedisNeverFailsARequest ==
    faults["mongo"] = 0 => \A r \in Requests : resp[r].status # "internal"

Quiet == InFlight = {}

NoFaults == \A k \in FaultKinds : faults[k] = 0

\* A hash that was in Redis from the start and is never lost ends up equal to the
\* durable tally, however the votes interleave: HINCRBY commutes.
WarmTallyAgrees ==
    (WarmStart /\ NoFaults /\ Quiet /\ poll # None /\ tally # None) => tally = poll.tally

\* A step never takes back what was promised: votes stay, a closed poll stays
\* closed, a deleted poll stays deleted, and no counter of the poll goes down.
NothingIsUndone ==
    [][ /\ votes \subseteq votes'
        /\ poll = None => poll' = None
        /\ (poll # None /\ poll' # None) =>
              (poll.closed => poll'.closed) /\ AtMost(poll.tally, poll'.tally) ]_vars

\* Every request that arrives is answered, or lost with its instance.
EveryRequestIsAnswered ==
    \A r \in Requests : pc[r] # "idle" ~> pc[r] = "done"

\* A ballot that is recorded is counted at last, unless the poll is deleted or
\* MongoDB or the instance fails in between.
EveryBallotIsCounted ==
    \A r \in Requests :
        RecordedBy(r) ~> \/ \E d \in counted : d.id = r
                         \/ poll = None
                         \/ faults["mongo"] + faults["crash"] > 0

----------------------------------------------------------------------------
(* What the repository says of the program and TLC refutes                 *)

\* poll.go:459-460, "If the two ever disagree, what people see on screen is the
\* durable number": a results page never shows a ballot that was not recorded.
ScreenShowsTheDurableNumber ==
    \A r \in Requests : (req[r].op = "results" /\ resp[r].view # None)
                            => AtMost(resp[r].view.tally, TallyOf(votes))

\* poll.go:266-267, "so Redis is not holding results for a poll that no longer
\* exists": with nothing failing and nobody active, it does not.
NoTallyWithoutPoll == (NoFaults /\ Quiet /\ poll = None) => tally = None

\* poll.go:240-241, "Viewers watching this poll need to know it stopped accepting
\* votes": with nothing failing, the last event about a closed poll says so.
ViewersLearnOfClosing ==
    (NoFaults /\ Quiet /\ poll # None /\ poll.closed)
        => /\ events # <<>>
           /\ ~AcceptsVotes(events[Len(events)].view)

\* VotePage.jsx:238, "Here are the final results.": the numbers a closed poll was
\* announced with do not change afterwards.
FinalResultsAreFinal ==
    \A i, j \in DOMAIN events :
        (i < j /\ events[i].type = "closed" /\ events[j].type = "results")
            => events[j].view.tally = events[i].view.tally
=============================================================================
