-------------------------- MODULE PollViewsProofs --------------------------
(***************************************************************************)
(* What owners, voters and viewers of a poll may rely on, proved for every *)
(* instance of PollService: no ballot after the known close, no ballot     *)
(* lost from the tally while MongoDB answers, nothing but recorded ballots *)
(* in views and events, and counters in Redis that agree when they were    *)
(* never lost.                                                             *)
(***************************************************************************)
EXTENDS PollLedgerProofs

----------------------------------------------------------------------------
(* One request at a time                                                   *)

\* What r does by itself, or what happens to it.
ActsFor(r) == ArriveVote(r) \/ ArriveOther(r) \/ Step(r) \/ Crash(r)

\* A request that moves on.
LEMMA ProceedPost ==
    ASSUME LocalOK, NEW r \in Requests, NEW label, NEW d, Proceed(r, label, d)
    PROVE  /\ pc'[r] = label /\ doc'[r] = d /\ resp'[r] = resp[r]
           /\ \A q \in Requests \ {r} : pc'[q] = pc[q] /\ doc'[q] = doc[q] /\ resp'[q] = resp[q]
  BY DEF LocalOK, Proceed

\* A request that answers.
LEMMA ReplyPost ==
    ASSUME LocalOK, NEW r \in Requests, NEW s, NEW v, Reply(r, s, v)
    PROVE  /\ pc'[r] = "done" /\ doc'[r] = None
           /\ resp'[r].status = s /\ resp'[r].view = v
           /\ \A q \in Requests \ {r} : pc'[q] = pc[q] /\ doc'[q] = doc[q] /\ resp'[q] = resp[q]
  BY DEF LocalOK, Reply

\* A request that arrives has been recorded as it asked and is told nothing but that
\* it is malformed.
LEMMA ArrivePost ==
    ASSUME TypeInv, NEW r \in Requests, ArriveVote(r) \/ ArriveOther(r)
    PROVE  /\ pc[r] = "idle" /\ UNCHANGED <<poll, votes, counted, tally, events, expired, faults>>
           /\ doc'[r] = None
           /\ req'[r].afterClose = \E c \in Requests : /\ req[c].op \in {"close", "delete"}
                                                       /\ resp[c].status = "ok"
           /\ \/ pc'[r] = "list" /\ req'[r].op = "list" /\ resp'[r] = resp[r]
              \/ pc'[r] = "limit" /\ req'[r].op = "vote" /\ resp'[r] = resp[r]
              \/ pc'[r] = "load" /\ resp'[r] = resp[r]
              \/ pc'[r] = "done" /\ resp'[r].status = "invalid" /\ resp'[r].view = None
           /\ \A q \in Requests \ {r} : /\ pc'[q] = pc[q] /\ doc'[q] = doc[q]
                                        /\ resp'[q] = resp[q] /\ req'[q] = req[q]
<1>1. PICK op, who, ballot : op \in Ops /\ Arrive(r, op, who, ballot)
  BY DEF ArriveVote, ArriveOther, Ops
<1>2. req' = [req EXCEPT ![r] =
                 [ op |-> op, who |-> who, ballot |-> ballot, late |-> expired,
                   afterClose |-> \E c \in Requests : /\ req[c].op \in {"close", "delete"}
                                                      /\ resp[c].status = "ok" ]]
  BY <1>1 DEF Arrive
<1>3. /\ req'[r].op = op
      /\ req'[r].afterClose = \E c \in Requests : /\ req[c].op \in {"close", "delete"}
                                                  /\ resp[c].status = "ok"
      /\ \A q \in Requests \ {r} : req'[q] = req[q]
  BY <1>2 DEF TypeInv, OthersOK
<1>4. \/ op = "list" /\ Proceed(r, "list", None)
      \/ op = "vote" /\ Proceed(r, "limit", None)
      \/ Proceed(r, "load", None)
      \/ Reply(r, "invalid", None)
  BY <1>1 DEF Arrive
<1>5. /\ doc'[r] = None
      /\ \/ pc'[r] = "list" /\ op = "list" /\ resp'[r] = resp[r]
         \/ pc'[r] = "limit" /\ op = "vote" /\ resp'[r] = resp[r]
         \/ pc'[r] = "load" /\ resp'[r] = resp[r]
         \/ pc'[r] = "done" /\ resp'[r].status = "invalid" /\ resp'[r].view = None
      /\ \A q \in Requests \ {r} : pc'[q] = pc[q] /\ doc'[q] = doc[q] /\ resp'[q] = resp[q]
  BY <1>4, ProceedPost, ReplyPost DEF TypeInv
<1>6. pc[r] = "idle" /\ UNCHANGED <<poll, votes, counted, tally, events, expired, faults>>
  BY <1>1 DEF Arrive, mongo, redis
<1> QED BY <1>3, <1>5, <1>6

\* No request touches what another one holds, and only the insert of r records.
LEMMA OthersWait ==
    ASSUME TypeInv, NEW r \in Requests, ActsFor(r)
    PROVE  /\ \A q \in Requests \ {r} : /\ pc'[q] = pc[q] /\ doc'[q] = doc[q]
                                        /\ resp'[q] = resp[q] /\ req'[q] = req[q]
           /\ pc[r] # "idle" => req' = req
           /\ votes' = votes \/ (pc[r] = "insert" /\ votes' = votes \cup {VoteDoc(r)})
<1>1. CASE ArriveVote(r) \/ ArriveOther(r)
  BY <1>1, ArrivePost
<1>2. CASE Step(r) \/ Crash(r)
  <2>1. req' = req
    BY <1>2 DEF Step, Crash, CheckRateLimit, Load, ListByOwner, Insert, Increment, Recount,
                CountBallots, ApplyLive, GetTally, Seed, SetClosed, Remove, DropTally, Publish
  <2>2. votes' = votes \/ (pc[r] = "insert" /\ votes' = votes \cup {VoteDoc(r)})
    BY <1>2 DEF Step, Crash, CheckRateLimit, Load, ListByOwner, Insert, Increment, Recount,
                CountBallots, ApplyLive, GetTally, Seed, SetClosed, Remove, DropTally, Publish,
                mongo
  <2>3. \E label, s, d, v : Proceed(r, label, d) \/ Reply(r, s, v)
    BY <1>2 DEF Step, Crash, CheckRateLimit, Load, AfterLoad, ListByOwner, Insert, Increment,
                Recount, CountBallots, ApplyLive, GetTally, Seed, SetClosed, Remove, DropTally,
                Publish
  <2> QED BY <2>1, <2>2, <2>3, ProceedPost, ReplyPost DEF TypeInv
<1> QED BY <1>1, <1>2 DEF ActsFor

\* What is not done for a request is done by the environment.
LEMMA NextSplits ==
    ASSUME [Next]_vars
    PROVE  \/ \E r \in Requests : ActsFor(r)
           \/ Expire \/ LoseTally \/ UNCHANGED vars
  BY DEF Next, ActsFor

----------------------------------------------------------------------------
(* Closing                                                                 *)

Shut == poll = None \/ poll.closed

\* The close of r has reached MongoDB before it is announced or answered, and a vote
\* that came after an answered close, or after the time, does not get to the insert.
ClosingOf(r) ==
    /\ pc[r] = "setClosed" => req[r].op = "close"
    /\ pc[r] \in {"remove", "drop"} => req[r].op = "delete"
    /\ pc[r] \in {"list", "getTally", "seed"} => req[r].op \notin {"close", "delete"}
    /\ pc[r] = "drop" => poll = None
    /\ pc[r] = "publish" \/ resp[r].status = "ok" =>
          /\ req[r].op = "delete" => poll = None
          /\ req[r].op = "close" => Shut
    /\ req[r].afterClose => Shut
    /\ pc[r] = "insert" \/ RecordedBy(r) => ~req[r].late /\ ~req[r].afterClose

ClosingInv == \A r \in Requests : ClosingOf(r)

\* A closed or deleted poll stays so.
LEMMA ShutStays ==
    ASSUME TypeInv, [Next]_vars
    PROVE  (Shut => Shut') /\ (poll = None => poll' = None)
  BY NextKeeps DEF Kept, Shut

\* What another request does, or the environment, leaves the close of q as it was.
LEMMA ClosingOthers ==
    ASSUME TypeInv, [Next]_vars, NEW q \in Requests, ClosingOf(q),
           pc'[q] = pc[q], resp'[q] = resp[q], req'[q] = req[q],
           RecordedBy(q)' => RecordedBy(q)
    PROVE  ClosingOf(q)'
  BY ShutStays DEF ClosingOf

\* The close of r itself.
LEMMA ClosingOwn ==
    ASSUME TypeInv, LedgerInv, ClosingInv, [Next]_vars, NEW r \in Requests, ActsFor(r)
    PROVE  ClosingOf(r)'
<1>1. ClosingOf(r) /\ (Shut => Shut') /\ (poll = None => poll' = None) /\ Fits(pc[r], req[r])
  BY ShutStays DEF ClosingInv, TypeInv, RequestsFit
<1>2. pc[r] # "done" => resp[r].status = "none"
  BY DEF LedgerInv, AnswersInv
<1>3. CASE ArriveVote(r) \/ ArriveOther(r)
  <2>1. ~RecordedBy(r)'
    BY <1>3, ArrivePost DEF RecordedBy, LedgerInv, DocsInv, PastInsert
  <2>2. req'[r].afterClose => Shut'
    BY <1>1, <1>3, ArrivePost DEF ClosingInv, ClosingOf, Shut
  <2>3. /\ pc'[r] \notin {"setClosed", "remove", "drop", "getTally", "seed", "publish", "insert"}
        /\ pc'[r] = "list" => req'[r].op = "list"
        /\ resp'[r].status # "ok"
    BY <1>2, <1>3, ArrivePost
  <2> QED BY <2>1, <2>2, <2>3 DEF ClosingOf
<1>4. CASE Step(r) \/ Crash(r)
  <2>0. /\ req' = req /\ LocalOK
        /\ RecordedBy(r)' => RecordedBy(r) \/ pc[r] = "insert"
    <3>1. votes' = votes \/ pc[r] = "insert"
      BY OthersWait
    <3>2. pc[r] # "idle"
      BY <1>4 DEF Step, Crash, InFlight, CheckRateLimit, Load, ListByOwner, Insert, Increment,
                  Recount, CountBallots, ApplyLive, GetTally, Seed, SetClosed, Remove,
                  DropTally, Publish
    <3> QED BY <3>1, <3>2, OthersWait DEF RecordedBy, TypeInv
  <2>1. /\ req[r].afterClose => Shut'
        /\ RecordedBy(r)' => ~req[r].late /\ ~req[r].afterClose
    BY <1>1, <2>0 DEF ClosingOf
  <2>2. ASSUME NEW s \in Statuses \ {"ok"}, NEW v, Reply(r, s, v) PROVE ClosingOf(r)'
    BY <2>0, <2>1, <2>2, ReplyPost DEF ClosingOf
  <2>3. ASSUME NEW v, Reply(r, "ok", v), req[r].op \notin {"close", "delete"} PROVE ClosingOf(r)'
    BY <2>0, <2>1, <2>3, ReplyPost DEF ClosingOf
  <2>4. ASSUME NEW d, NEW label \in {"load", "increment", "recount", "countBallots", "live"},
               Proceed(r, label, d), pc[r] # "done"
        PROVE  ClosingOf(r)'
    BY <1>2, <2>0, <2>1, <2>4, ProceedPost DEF ClosingOf
  <2>5. /\ {"ok", "created", "alreadyVoted", "internal", "tooMany", "notFound", "pollClosed",
             "invalid", "forbidden", "lost"} \subseteq Statuses
    BY DEF Statuses
  <2>6. CASE CheckRateLimit(r) \/ Insert(r) \/ Increment(r) \/ Recount(r) \/ CountBallots(r)
    BY <2>2, <2>4, <2>5, <2>6 DEF CheckRateLimit, Insert, Increment, Recount, CountBallots
  <2>7. CASE Crash(r)
    BY <2>2, <2>5, <2>7 DEF Crash
  <2>8. CASE Load(r)
    <3>1. pc[r] = "load" /\ UNCHANGED poll
      BY <2>8 DEF Load, mongo
    <3>2. CASE \E s \in {"pollClosed", "invalid", "forbidden", "notFound", "internal"} :
                  Reply(r, s, None)
      BY <2>2, <2>5, <3>2
    <3>3. CASE /\ poll # None /\ ~poll.closed /\ ~req[r].late
               /\ Proceed(r, "insert", poll)
      BY <1>1, <1>2, <2>0, <2>1, <3>1, <3>3, ProceedPost DEF ClosingOf, Shut
    <3>4. CASE \/ req[r].op = "close" /\ Proceed(r, "setClosed", poll)
               \/ req[r].op = "delete" /\ Proceed(r, "remove", poll)
               \/ req[r].op \notin {"close", "delete"} /\ Proceed(r, "getTally", poll)
      BY <1>2, <2>0, <2>1, <3>1, <3>4, ProceedPost DEF ClosingOf
    <3> QED BY <2>8, <3>2, <3>3, <3>4 DEF Load, AfterLoad
  <2>9. CASE ListByOwner(r) \/ GetTally(r) \/ Seed(r)
    <3>1. pc[r] \in {"list", "getTally", "seed"} /\ req[r].op \notin {"close", "delete"}
      BY <1>1, <2>9 DEF ListByOwner, GetTally, Seed, ClosingOf
    <3>2. ASSUME NEW d, NEW label \in {"seed", "publish"}, Proceed(r, label, d) PROVE ClosingOf(r)'
      BY <1>2, <2>0, <2>1, <3>1, <3>2, ProceedPost DEF ClosingOf
    <3> QED BY <2>2, <2>3, <2>5, <2>9, <3>1, <3>2 DEF ListByOwner, GetTally, Seed
  <2>10. CASE ApplyLive(r)
    <3>1. pc[r] = "live" /\ req[r].op = "vote"
      BY <1>1, <2>10 DEF ApplyLive, Fits, VotePlaces
    <3>2. ASSUME NEW d, NEW label \in {"seed", "publish"}, Proceed(r, label, d) PROVE ClosingOf(r)'
      BY <1>2, <2>0, <2>1, <3>1, <3>2, ProceedPost DEF ClosingOf
    <3> QED BY <2>10, <3>2 DEF ApplyLive
  <2>11. CASE SetClosed(r) \/ Remove(r)
    <3>1. poll # None => Closed.closed
      BY DEF TypeInv, StoresOK, Polls, Closed
    <3>2. CASE \E s \in {"notFound", "internal"} : Reply(r, s, None)
      BY <2>2, <2>5, <3>2
    <3>3. CASE /\ req[r].op = "close" /\ Shut' /\ pc[r] # "done"
               /\ \E d : Proceed(r, "publish", d)
      BY <1>2, <2>0, <2>1, <3>3, ProceedPost DEF ClosingOf
    <3>4. CASE /\ req[r].op = "delete" /\ poll' = None /\ pc[r] # "done"
               /\ \E d : Proceed(r, "drop", d)
      BY <1>2, <2>0, <2>1, <3>4, ProceedPost DEF ClosingOf
    <3> QED BY <1>1, <2>11, <3>1, <3>2, <3>3, <3>4 DEF SetClosed, Remove, ClosingOf, Shut
  <2>12. CASE DropTally(r)
    BY <1>1, <1>2, <2>0, <2>1, <2>12, ProceedPost DEF DropTally, ClosingOf
  <2>13. CASE Publish(r)
    <3>1. pc[r] = "publish"
      BY <2>13 DEF Publish
    <3>2. PICK v : Reply(r, AnswerOf(r), v)
      BY <2>13 DEF Publish
    <3> QED BY <1>1, <2>0, <2>1, <3>1, <3>2, ReplyPost DEF ClosingOf
  <2> QED BY <1>4, <2>6, <2>7, <2>8, <2>9, <2>10, <2>11, <2>12, <2>13 DEF Step
<1> QED BY <1>3, <1>4 DEF ActsFor

LEMMA NextClosing ==
    ASSUME TypeInv, LedgerInv, ClosingInv, [Next]_vars
    PROVE  ClosingInv'
<1>1. CASE \E r \in Requests : ActsFor(r)
  <2>1. PICK r \in Requests : ActsFor(r)
    BY <1>1
  <2>2. \A q \in Requests \ {r} : RecordedBy(q)' => RecordedBy(q)
    BY <2>1, OthersWait DEF RecordedBy, VoteDoc
  <2>3. \A q \in Requests \ {r} : ClosingOf(q)'
    BY <2>1, <2>2, OthersWait, ClosingOthers DEF ClosingInv
  <2> QED BY <2>1, <2>3, ClosingOwn DEF ClosingInv
<1>2. CASE Expire \/ LoseTally \/ UNCHANGED vars
  <2>1. UNCHANGED <<pc, resp, req, votes>>
    BY <1>2 DEF Expire, LoseTally, vars, mongo, local
  <2> QED BY <2>1, ClosingOthers DEF ClosingInv, RecordedBy
<1> QED BY <1>1, <1>2, NextSplits

LEMMA InitClosing == Init => ClosingInv
  BY DEF Init, ClosingInv, ClosingOf, NoRequest, RecordedBy

\* Whatever interleaves and fails, a close is in MongoDB before anybody is told.
THEOREM ClosingHolds == Spec => []ClosingInv
<1>1. TypeInv /\ LedgerInv /\ ClosingInv /\ [Next]_vars => ClosingInv'
  BY NextClosing
<1> QED BY <1>1, InitClosing, TypeCorrect, LedgerHolds, PTL DEF Spec

\* A ballot cast when the close, the delete or the end of the poll was already known
\* is never recorded (Vote checks the flag it loads and the time it started at).
THEOREM NoLateBallots == Spec => []NoBallotAfterTheClose
<1>1. TypeOK /\ ClosingInv => NoBallotAfterTheClose
  BY DEF ClosingInv, ClosingOf, NoBallotAfterTheClose
<1> QED BY <1>1, TypesHold, ClosingHolds, PTL

----------------------------------------------------------------------------
(* Faults                                                                  *)

\* The calls of the model that fail are never fewer than before, and one that fails is
\* counted under its kind.
LEMMA FaultsGrow ==
    ASSUME TypeInv, [Next]_vars
    PROVE  \A k \in FaultKinds : faults[k] \in Nat /\ faults'[k] \in Nat /\ faults[k] <= faults'[k]
<1>1. faults \in [FaultKinds -> Nat]
  BY DEF TypeInv, OthersOK
<1>2. ASSUME NEW j, Fault(j) PROVE \A k \in FaultKinds : faults'[k] \in Nat /\ faults[k] <= faults'[k]
  BY <1>1, <1>2 DEF Fault
<1>3. CASE faults' = faults
  BY <1>1, <1>3
<1>4. faults' = faults \/ \E j : Fault(j)
  <2>1. ASSUME NEW r \in Requests, Step(r) PROVE faults' = faults \/ \E j : Fault(j)
    BY <2>1 DEF Step, CheckRateLimit, Load, ListByOwner, Insert, Increment, Recount, CountBallots,
                ApplyLive, GetTally, Seed, SetClosed, Remove, DropTally, Publish
  <2>2. ASSUME NEW r \in Requests, ArriveVote(r) \/ ArriveOther(r) \/ Crash(r)
        PROVE  faults' = faults \/ \E j : Fault(j)
    BY <2>2 DEF ArriveVote, ArriveOther, Arrive, Crash
  <2>3. CASE Expire \/ LoseTally \/ UNCHANGED vars
    BY <2>3 DEF Expire, LoseTally, vars
  <2> QED BY <2>1, <2>2, <2>3 DEF Next
<1> QED BY <1>1, <1>2, <1>3, <1>4

\* MongoDB has answered every call and no instance has died.
Undisturbed == faults["mongo"] = 0 /\ faults["crash"] = 0

\* A call that fails leaves its mark.
LEMMA FaultMarks ==
    ASSUME TypeInv, NEW k \in FaultKinds, Fault(k)
    PROVE  faults'[k] # 0
  BY DEF TypeInv, OthersOK, Fault

\* While nothing was disturbed, every recorded ballot of a poll that is there has been
\* counted, or its request is about to.
FlowInv ==
    poll # None /\ Undisturbed => \A d \in votes : d \in counted \/ pc[d.id] = "increment"

LEMMA NextFlow ==
    ASSUME TypeInv, LedgerInv, FlowInv, [Next]_vars
    PROVE  FlowInv'
<1> SUFFICES ASSUME poll' # None, Undisturbed'
             PROVE  \A d \in votes' : d \in counted' \/ pc'[d.id] = "increment"
  BY DEF FlowInv
<1>1. poll # None
  BY NextKeeps DEF Kept
<1>2. Undisturbed /\ ~Fault("mongo") /\ ~Fault("crash")
  BY FaultsGrow, FaultMarks DEF Undisturbed, FaultKinds
<1>3. \A d \in votes : /\ d \in counted \/ pc[d.id] = "increment"
                      /\ d.id \in Requests /\ d = VoteDoc(d.id)
  BY <1>1, <1>2 DEF FlowInv, LedgerInv, DocsInv, TypeInv, StoresOK, VoteDocs
<1>4. CASE Expire \/ LoseTally \/ UNCHANGED vars
  BY <1>3, <1>4 DEF Expire, LoseTally, vars, mongo, local
<1>5. ASSUME NEW r \in Requests, ActsFor(r)
      PROVE  \A d \in votes' : d \in counted' \/ pc'[d.id] = "increment"
  <2>1. CASE pc[r] = "increment"
    <3>1. Increment(r)
      BY <1>2, <1>5, <2>1 DEF ActsFor, ArriveVote, ArriveOther, Arrive, Crash, Step, CheckRateLimit,
         Load, ListByOwner, Insert, Recount, CountBallots, ApplyLive, GetTally, Seed, SetClosed,
         Remove, DropTally, Publish
    <3>2. votes' = votes /\ counted' = counted \cup {VoteDoc(r)}
      BY <1>1, <1>2, <3>1 DEF Increment, ApplyIncrement
    <3> QED BY <1>3, <1>5, <3>2, OthersWait
  <2>2. CASE pc[r] = "insert" /\ votes' = votes \cup {VoteDoc(r)}
    <3>1. Insert(r)
      BY <1>2, <1>5, <2>2 DEF ActsFor, ArriveVote, ArriveOther, Arrive, Crash, Step, CheckRateLimit,
         Load, ListByOwner, Increment, Recount, CountBallots, ApplyLive, GetTally, Seed, SetClosed,
         Remove, DropTally, Publish
    <3>2. counted' = counted /\ (votes' = votes \/ Proceed(r, "increment", doc[r]))
      BY <1>2, <3>1 DEF Insert
    <3>3. VoteDoc(r).id = r
      BY DEF VoteDoc
    <3>4. CASE Proceed(r, "increment", doc[r])
      BY <1>3, <1>5, <2>2, <3>2, <3>3, <3>4, OthersWait, ProceedPost DEF TypeInv
    <3>5. CASE votes' = votes
      BY <1>3, <1>5, <2>2, <3>2, <3>5, OthersWait
    <3> QED BY <3>2, <3>4, <3>5
  <2>3. CASE pc[r] # "increment" /\ votes' = votes
    <3>1. counted' = counted
      BY <1>5, <2>3 DEF ActsFor, ArriveVote, ArriveOther, Arrive, Crash, Step, CheckRateLimit, Load,
         ListByOwner, Insert, Increment, Recount, CountBallots, ApplyLive, GetTally, Seed,
         SetClosed, Remove, DropTally, Publish, mongo
    <3> QED BY <1>3, <1>5, <2>3, <3>1, OthersWait
  <2> QED BY <1>5, <2>1, <2>2, <2>3, OthersWait
<1> QED BY <1>4, <1>5, NextSplits

\* As long as MongoDB answers and nobody dies, no vote is lost from the cached tally:
\* it is the recount, but for the votes between their two writes.
THEOREM NoVoteIsLost == Spec => []NoLostUpdate
<1>1. TypeInv /\ LedgerInv /\ FlowInv /\ [Next]_vars => FlowInv'
  BY NextFlow
<1>2. Init => FlowInv
  BY DEF Init, FlowInv
<1>3. TypeInv /\ LedgerInv /\ FlowInv => NoLostUpdate
  <2> SUFFICES ASSUME TypeInv, LedgerInv, FlowInv, poll # None, Undisturbed
               PROVE  poll.tally = TallyOf(votes \ Uncounted)
    BY DEF NoLostUpdate, Undisturbed
  <2>1. \A d \in votes : d.id \in Requests /\ d = VoteDoc(d.id)
    BY DEF LedgerInv, DocsInv, TypeInv, StoresOK, VoteDocs
  <2>2. votes \ Uncounted \subseteq counted
    BY <2>1 DEF FlowInv, Uncounted
  <2>3. counted \subseteq votes \ Uncounted
    BY DEF LedgerInv, CountedInv, PlacesInv, Uncounted
  <2>4. votes \ Uncounted = counted
    BY <2>2, <2>3
  <2> QED BY <2>4 DEF LedgerInv, CountedInv
<1> QED BY <1>1, <1>2, <1>3, TypeCorrect, LedgerHolds, PTL DEF Spec

\* While MongoDB answers, nothing that happens to Redis makes a server error.
THEOREM RedisIsBestEffort == Spec => []RedisNeverFailsARequest
<1>1. ASSUME TypeInv, RedisNeverFailsARequest, [Next]_vars PROVE RedisNeverFailsARequest'
  <2> SUFFICES ASSUME faults'["mongo"] = 0, NEW q \in Requests
               PROVE  resp'[q].status # "internal"
    BY DEF RedisNeverFailsARequest
  <2>1. faults["mongo"] = 0 /\ ~Fault("mongo")
    BY <1>1, FaultsGrow, FaultMarks DEF FaultKinds
  <2>2. \A p \in Requests : resp[p].status # "internal"
    BY <1>1, <2>1 DEF RedisNeverFailsARequest
  <2>3. CASE Expire \/ LoseTally \/ UNCHANGED vars
    BY <2>2, <2>3 DEF Expire, LoseTally, vars, local
  <2>4. ASSUME NEW r \in Requests, ArriveVote(r) \/ ArriveOther(r) PROVE resp'[q].status # "internal"
    BY <1>1, <2>2, <2>4, ArrivePost
  <2>5. ASSUME NEW r \in Requests, Step(r) \/ Crash(r) PROVE resp'[q].status # "internal"
    <3>1. \/ \E label, d : Proceed(r, label, d)
          \/ \E s, v : s # "internal" /\ Reply(r, s, v)
      BY <2>1, <2>5 DEF Step, Crash, CheckRateLimit, Load, AfterLoad, ListByOwner, Insert, Increment,
         Recount, CountBallots, ApplyLive, GetTally, Seed, SetClosed, Remove, DropTally,
         Publish, AnswerOf
    <3> QED BY <1>1, <2>2, <3>1, ProceedPost, ReplyPost DEF TypeInv
  <2> QED BY <1>1, <2>3, <2>4, <2>5, NextSplits DEF ActsFor
<1>2. Init => RedisNeverFailsARequest
  BY DEF Init, RedisNeverFailsARequest
<1> QED BY <1>1, <1>2, TypeCorrect, PTL DEF Spec

----------------------------------------------------------------------------
(* What views and events show                                              *)

\* AtMost is transitive on tallies.
LEMMA AtMostTransitive ==
    ASSUME NEW t \in Tallies, NEW u \in Tallies, NEW w \in Tallies, AtMost(t, u), AtMost(u, w)
    PROVE  AtMost(t, w)
  BY DEF AtMost, Tallies

\* The tally of finitely many documents is one.
LEMMA TallyOfType ==
    ASSUME NEW D, IsFiniteSet(D)
    PROVE  TallyOf(D) \in Tallies
  BY CountsOfType, FS_CardinalityType DEF TallyOf, Tallies

\* What the votes collection had, it still has.
LEMMA RecountGrows ==
    ASSUME TypeInv, [Next]_vars
    PROVE  /\ TallyOf(votes) \in Tallies /\ TallyOf(votes') \in Tallies
           /\ AtMost(TallyOf(votes), TallyOf(votes'))
           /\ \A t \in Tallies : AtMost(t, TallyOf(votes)) => AtMost(t, TallyOf(votes'))
<1>1. IsFiniteSet(votes) /\ IsFiniteSet(votes') /\ votes \subseteq votes'
  BY NextType, NextKeeps DEF TypeInv, StoresOK, Kept
<1>2. TallyOf(votes) \in Tallies /\ TallyOf(votes') \in Tallies
  BY <1>1, TallyOfType
<1>3. AtMost(TallyOf(votes), TallyOf(votes'))
  BY <1>1, TallyMonotone
<1> QED BY <1>2, <1>3, AtMostTransitive

SeesOwn(t, ballot) == t.ballots >= 1 /\ \A o \in ballot : t.counts[o] >= 1

\* A request holds a tally of recorded ballots; once its own is counted or recounted,
\* it is in there.
ViewOf(r) ==
    /\ doc[r] # None => AtMost(doc[r].tally, TallyOf(votes))
    /\ pc[r] \in {"live", "seed", "publish"} /\ req[r].op = "vote"
          => SeesOwn(doc[r].tally, req[r].ballot)
    /\ pc[r] = "countBallots" => \A o \in req[r].ballot : doc[r].tally.counts[o] >= 1
    /\ resp[r].status = "created" =>
          /\ resp[r].view \in Views
          /\ AtMost(resp[r].view.tally, TallyOf(votes))
          /\ SeesOwn(resp[r].view.tally, req[r].ballot)

EventsInv ==
    \A i \in DOMAIN events : events[i].type # "deleted" => AtMost(events[i].view.tally, TallyOf(votes))

ViewsInv == EventsInv /\ \A r \in Requests : ViewOf(r)

\* What another request does, or the environment, leaves the view of q as it was.
LEMMA ViewOthers ==
    ASSUME TypeInv, [Next]_vars, NEW q \in Requests, ViewOf(q),
           pc'[q] = pc[q], doc'[q] = doc[q], resp'[q] = resp[q], req'[q] = req[q]
    PROVE  ViewOf(q)'
<1>1. doc[q] # None => doc[q].tally \in Tallies
  BY DEF TypeInv, LocalOK, Polls
<1>2. resp[q].status = "created" => resp[q].view.tally \in Tallies
  BY DEF ViewOf, Views
<1>3. \A t \in Tallies : AtMost(t, TallyOf(votes)) => AtMost(t, TallyOf(votes)')
  BY RecountGrows DEF TallyOf, CountsOf
<1> QED BY <1>1, <1>2, <1>3 DEF ViewOf, SeesOwn

\* The events that are out stay true, and a new one has to be.
LEMMA EventsStayTrue ==
    ASSUME TypeInv, [Next]_vars, EventsInv, NEW e \in Events,
           events' = events \/ events' = Append(events, e),
           e.type # "deleted" => AtMost(e.view.tally, TallyOf(votes))
    PROVE  EventsInv'
<1>1. \A f \in Events : f.type # "deleted" => f.view.tally \in Tallies
  BY DEF Events, Views
<1>2. \A t \in Tallies : AtMost(t, TallyOf(votes)) => AtMost(t, TallyOf(votes)')
  BY RecountGrows DEF TallyOf, CountsOf
<1>3. events \in Seq(Events)
  BY DEF TypeInv, StoresOK
<1> SUFFICES ASSUME NEW i \in DOMAIN events', events'[i].type # "deleted"
             PROVE  AtMost(events'[i].view.tally, TallyOf(votes)')
  BY DEF EventsInv
<1>4. CASE i \in DOMAIN events /\ events'[i] = events[i]
  BY <1>1, <1>2, <1>3, <1>4 DEF EventsInv
<1>5. CASE events'[i] = e
  BY <1>1, <1>2, <1>5
<1> QED BY <1>3, <1>4, <1>5

\* The view of r itself.
LEMMA ViewOwn ==
    ASSUME TypeInv, LedgerInv, ViewsInv, LedgerInv', [Next]_vars, NEW r \in Requests, ActsFor(r)
    PROVE  ViewOf(r)'
<1> DEFINE V == TallyOf(votes)
<1>1. /\ ViewOf(r) /\ LocalOK /\ (pc[r] # "done" => resp[r].status = "none")
      /\ doc[r] # None => doc[r] \in Polls /\ doc[r].tally \in Tallies
      /\ pc[r] \in Holding => doc[r] \in Polls /\ doc[r] # None
  BY NoneAssumption DEF ViewsInv, TypeInv, LocalOK, LedgerInv, AnswersInv, Polls
<1>2. V \in Tallies /\ V' \in Tallies /\ \A t \in Tallies : AtMost(t, V) => AtMost(t, V')
  BY RecountGrows DEF TallyOf, CountsOf
<1>3. /\ poll # None => poll.tally \in Tallies /\ AtMost(poll.tally, V')
      /\ poll' # None => poll'.tally \in Tallies /\ AtMost(poll'.tally, V')
  <2>1. ASSUME TypeInv, LedgerInv, poll # None PROVE poll.tally \in Tallies /\ AtMost(poll.tally, V)
    BY <2>1, TallyMonotone DEF TypeInv, StoresOK, LedgerInv, CountedInv, Polls
  <2>2. ASSUME TypeInv', LedgerInv', poll' # None
        PROVE poll'.tally \in Tallies /\ AtMost(poll'.tally, V')
    <3>1. IsFiniteSet(votes') /\ counted' \subseteq votes' /\ poll'.tally = TallyOf(counted')
      BY <2>2 DEF TypeInv, StoresOK, LedgerInv, CountedInv, TallyOf, CountsOf
    <3>2. AtMost(TallyOf(counted'), TallyOf(votes'))
      BY <3>1, TallyMonotone
    <3>3. V' = TallyOf(votes')
      BY DEF TallyOf, CountsOf
    <3>4. poll' \in Polls
      BY <2>2 DEF TypeInv, StoresOK
    <3> QED BY <3>1, <3>2, <3>3, <3>4 DEF Polls
  <2> QED BY <1>2, <2>1, <2>2, NextType
<1> HIDE DEF V
<1>4. ViewOf(r)' <=>
        /\ doc'[r] # None => AtMost(doc'[r].tally, V')
        /\ pc'[r] \in {"live", "seed", "publish"} /\ req'[r].op = "vote"
              => SeesOwn(doc'[r].tally, req'[r].ballot)
        /\ pc'[r] = "countBallots" => \A o \in req'[r].ballot : doc'[r].tally.counts[o] >= 1
        /\ resp'[r].status = "created" =>
              /\ resp'[r].view \in Views
              /\ AtMost(resp'[r].view.tally, V')
              /\ SeesOwn(resp'[r].view.tally, req'[r].ballot)
  BY DEF ViewOf, SeesOwn, V, Views, Tallies
<1>5. CASE ArriveVote(r) \/ ArriveOther(r)
  BY <1>1, <1>4, <1>5, ArrivePost
<1>6. CASE Step(r) \/ Crash(r)
  <2>1. /\ req' = req /\ pc[r] # "done" /\ resp[r].status = "none" /\ Fits(pc[r], req[r])
        /\ req[r] \in RequestRecords
    <3>1. pc[r] \notin {"idle", "done"}
      BY <1>6 DEF Step, Crash, InFlight, CheckRateLimit, Load, ListByOwner, Insert, Increment,
                  Recount, CountBallots, ApplyLive, GetTally, Seed, SetClosed, Remove,
                  DropTally, Publish
    <3> QED BY <1>1, <3>1, OthersWait DEF TypeInv, RequestsFit, OthersOK
  <2>2. ASSUME NEW s, s # "created", NEW v, Reply(r, s, v) PROVE ViewOf(r)'
    BY <1>1, <1>4, <2>2, ReplyPost
  <2>3. ASSUME NEW label, NEW d, Proceed(r, label, d),
               d # None => AtMost(d.tally, V'),
               label \in {"live", "seed", "publish"} /\ req[r].op = "vote"
                  => SeesOwn(d.tally, req[r].ballot),
               label = "countBallots" => \A o \in req[r].ballot : d.tally.counts[o] >= 1
        PROVE  ViewOf(r)'
    BY <1>1, <1>4, <2>1, <2>3, ProceedPost
  <2>4. doc[r] # None => AtMost(doc[r].tally, V')
    BY <1>1, <1>2 DEF ViewOf, V
  <2>5. CASE Crash(r)
    BY <2>2, <2>5 DEF Crash
  <2>6. CASE CheckRateLimit(r) \/ Insert(r)
    BY <2>2, <2>3, <2>4, <2>6 DEF CheckRateLimit, Insert
  <2>7. CASE Load(r)
    <3>1. \/ \E s : s # "created" /\ Reply(r, s, None)
          \/ poll # None /\ \E label \in {"insert", "setClosed", "remove", "getTally"} :
                                Proceed(r, label, poll)
      BY <2>7 DEF Load, AfterLoad
    <3> QED BY <1>3, <2>2, <2>3, <3>1
  <2>8. CASE ListByOwner(r) \/ GetTally(r)
    <3>1. GetTally(r) => req[r].op # "vote"
      BY <2>1 DEF GetTally, Fits, OtherPlaces
    <3> QED BY <2>2, <2>3, <2>4, <2>8, <3>1 DEF ListByOwner, GetTally
  <2>9. CASE Increment(r)
    <3>1. CASE Proceed(r, "recount", doc[r])
      BY <2>3, <2>4, <3>1
    <3>2. CASE poll # None /\ poll' = Incremented(r) /\ Proceed(r, "live", poll')
      <4>1. req[r].ballot \in Ballots
        BY <2>1, <2>9 DEF Increment, Fits, BallotPlaces
      <4>2. poll \in Polls /\ poll.tally \in Tallies
        BY <3>2 DEF TypeInv, StoresOK, Polls
      <4>3. poll'.tally = AddBallot(poll.tally, req[r].ballot)
        BY <3>2, <4>2 DEF Incremented, Polls
      <4>4. SeesOwn(poll'.tally, req[r].ballot)
        BY <4>1, <4>2, <4>3 DEF SeesOwn, AddBallot, Tallies, Ballots
      <4>5. poll' # None => AtMost(poll'.tally, V')
        BY <1>3
      <4> QED BY <2>3, <3>2, <4>4, <4>5
    <3> QED BY <2>9, <3>1, <3>2 DEF Increment, ApplyIncrement
  <2>10. CASE Recount(r)
    <3>1. CASE Reply(r, "internal", None)
      BY <2>2, <3>1
    <3>2. CASE Proceed(r, "countBallots", [doc[r] EXCEPT !.tally.counts = CountsOf(votes)])
      <4> DEFINE d == [doc[r] EXCEPT !.tally.counts = CountsOf(votes)]
      <4>1. doc[r] \in Polls /\ doc[r].tally \in Tallies /\ AtMost(doc[r].tally, V)
        BY <1>1, <2>10 DEF Recount, Holding, ViewOf, V
      <4>2. d.tally.counts = CountsOf(votes) /\ d.tally.ballots = doc[r].tally.ballots
        BY <4>1 DEF Polls, Tallies
      <4>3. V.counts = CountsOf(votes) /\ V.counts \in [Options -> Nat]
        BY <1>2 DEF V, TallyOf, Tallies
      <4>4. d.tally \in Tallies
        <5>1. CountsOf(votes) \in [Options -> Nat]
          BY <4>3
        <5> QED BY <4>1, <5>1 DEF Polls, Tallies
      <4>5. AtMost(d.tally, V)
        BY <4>1, <4>2, <4>3 DEF AtMost
      <4>6. ASSUME NEW o \in req[r].ballot PROVE CountsOf(votes)[o] >= 1
        <5>1. VoteDoc(r) \in votes /\ req[r].ballot \in Ballots
          BY <2>1, <2>10 DEF Recount, LedgerInv, PlacesInv, PastInsert, Fits, BallotPlaces
        <5>2. o \in Options /\ IsFiniteSet(votes)
          BY <4>6, <5>1 DEF Ballots, TypeInv, StoresOK
        <5> DEFINE S == {x \in votes : o \in x.ballot}
        <5>3. IsFiniteSet(S) /\ VoteDoc(r) \in S
          BY <4>6, <5>1, <5>2, FS_Subset DEF VoteDoc
        <5> HIDE DEF S
        <5>4. Cardinality(S) # 0 /\ Cardinality(S) \in Nat
          BY <5>3, FS_EmptySet, FS_CardinalityType
        <5>5. CountsOf(votes)[o] = Cardinality(S)
          BY <5>2 DEF CountsOf, S
        <5> QED BY <5>4, <5>5
      <4> HIDE DEF d
      <4>7. AtMost(d.tally, V')
        BY <1>2, <4>4, <4>5
      <4> QED BY <2>3, <3>2, <4>2, <4>6, <4>7 DEF d
    <3> QED BY <2>10, <3>1, <3>2 DEF Recount
  <2>11. CASE CountBallots(r)
    <3>1. CASE Reply(r, "internal", None)
      BY <2>2, <3>1
    <3>2. CASE Proceed(r, "live", [doc[r] EXCEPT !.tally.ballots = Cardinality(votes)])
      <4> DEFINE d == [doc[r] EXCEPT !.tally.ballots = Cardinality(votes)]
      <4>1. doc[r] \in Polls /\ doc[r].tally \in Tallies /\ AtMost(doc[r].tally, V)
        BY <1>1, <2>11 DEF CountBallots, Holding, ViewOf, V
      <4>2. d.tally.counts = doc[r].tally.counts /\ d.tally.ballots = Cardinality(votes)
        BY <4>1 DEF Polls, Tallies
      <4>3. V.ballots = Cardinality(votes) /\ Cardinality(votes) \in Nat
        BY <1>2 DEF V, TallyOf, Tallies
      <4>4. d.tally \in Tallies
        BY <4>1, <4>3 DEF Polls, Tallies
      <4>5. AtMost(d.tally, V)
        BY <4>1, <4>2, <4>3 DEF AtMost
      <4>6. Cardinality(votes) >= 1
        <5>1. VoteDoc(r) \in votes /\ IsFiniteSet(votes)
          BY <2>1, <2>11 DEF CountBallots, LedgerInv, PlacesInv, PastInsert, TypeInv, StoresOK
        <5> QED BY <4>3, <5>1, FS_EmptySet
      <4>7. \A o \in req[r].ballot : doc[r].tally.counts[o] >= 1
        BY <1>1, <2>11 DEF CountBallots, ViewOf
      <4> HIDE DEF d
      <4>8. AtMost(d.tally, V') /\ SeesOwn(d.tally, req[r].ballot)
        BY <1>2, <4>2, <4>4, <4>5, <4>6, <4>7 DEF SeesOwn
      <4>9. Proceed(r, "live", d)
        BY <3>2 DEF d
      <4> QED BY <2>3, <4>8, <4>9
    <3> QED BY <2>11, <3>1, <3>2 DEF CountBallots
  <2>12. CASE ApplyLive(r)
    <3>1. SeesOwn(doc[r].tally, req[r].ballot)
      BY <1>1, <2>1, <2>12 DEF ApplyLive, ViewOf, Fits, VotePlaces
    <3> QED BY <2>3, <2>4, <2>12, <3>1 DEF ApplyLive
  <2>13. CASE Seed(r)
    <3>1. req[r].op = "vote" => SeesOwn(doc[r].tally, req[r].ballot)
      BY <1>1, <2>13 DEF Seed, ViewOf
    <3> QED BY <2>2, <2>3, <2>4, <2>13, <3>1 DEF Seed
  <2>14. CASE SetClosed(r) \/ Remove(r) \/ DropTally(r)
    <3>1. req[r].op # "vote"
      BY <2>1, <2>14 DEF SetClosed, Remove, DropTally, Fits, OtherPlaces
    <3>2. CASE Reply(r, "notFound", None) \/ Reply(r, "internal", None)
      BY <2>2, <3>2
    <3>3. CASE Proceed(r, "drop", doc[r]) \/ Proceed(r, "publish", doc[r])
      BY <2>3, <2>4, <3>1, <3>3
    <3>4. CASE poll' = Closed /\ poll # None /\ Proceed(r, "publish", Closed)
      <4>1. Closed \in Polls
        BY <3>4 DEF TypeInv, StoresOK, Polls, Closed
      <4>2. AtMost(Closed.tally, V')
        BY <1>3, <3>4, <4>1, NoneAssumption
      <4> QED BY <2>3, <3>1, <3>4, <4>2
    <3> QED BY <2>14, <3>2, <3>3, <3>4 DEF SetClosed, Remove, DropTally
  <2>15. CASE Publish(r)
    <3>1. pc[r] = "publish" /\ Reply(r, AnswerOf(r), EventOf(r).view)
      BY <2>15 DEF Publish
    <3>2. CASE req[r].op # "vote"
      BY <2>2, <3>1, <3>2 DEF AnswerOf
    <3>3. CASE req[r].op = "vote"
      <4>1. doc[r] \in Polls /\ SeesOwn(doc[r].tally, req[r].ballot) /\ AtMost(doc[r].tally, V')
        BY <1>1, <2>4, <3>1, <3>3 DEF Holding, ViewOf
      <4>2. EventOf(r).view = View(doc[r], req[r].late) /\ req[r].late \in BOOLEAN
        BY <2>1, <3>3 DEF EventOf, RequestRecords
      <4>3. EventOf(r).view \in Views /\ EventOf(r).view.tally = doc[r].tally
        BY <4>1, <4>2, ViewType DEF View
      <4> QED BY <1>1, <1>4, <2>1, <3>1, <4>1, <4>3, ReplyPost
    <3> QED BY <3>2, <3>3
  <2> QED BY <1>6, <2>5, <2>6, <2>7, <2>8, <2>9, <2>10, <2>11, <2>12, <2>13, <2>14, <2>15 DEF Step
<1> QED BY <1>5, <1>6 DEF ActsFor

LEMMA NextViews ==
    ASSUME TypeInv, LedgerInv, ViewsInv, LedgerInv', [Next]_vars
    PROVE  ViewsInv'
<1>1. \A q \in Requests : ViewOf(q)'
  <2>1. CASE \E r \in Requests : ActsFor(r)
    <3>1. PICK r \in Requests : ActsFor(r)
      BY <2>1
    <3> QED BY <3>1, OthersWait, ViewOthers, ViewOwn DEF ViewsInv
  <2>2. CASE Expire \/ LoseTally \/ UNCHANGED vars
    <3>1. UNCHANGED <<pc, doc, resp, req>>
      BY <2>2 DEF Expire, LoseTally, vars, local
    <3> QED BY <3>1, ViewOthers DEF ViewsInv
  <2> QED BY <2>1, <2>2, NextSplits
<1>2. EventsInv'
  <2>1. CASE \E r \in Requests : Publish(r)
    <3>1. PICK r \in Requests : Publish(r)
      BY <2>1
    <3>2. pc[r] = "publish" /\ doc[r] \in Polls /\ doc[r] # None /\ AtMost(doc[r].tally, TallyOf(votes))
      BY <3>1, NoneAssumption DEF Publish, TypeInv, LocalOK, Holding, ViewsInv, ViewOf
    <3>3. req[r].late \in BOOLEAN /\ expired \in BOOLEAN
      BY DEF TypeInv, OthersOK, RequestRecords
    <3>4. EventOf(r) \in Events
      BY <3>2, <3>3, ViewType DEF EventOf, Events
    <3>5. EventOf(r).type # "deleted" => EventOf(r).view.tally = doc[r].tally
      BY DEF EventOf, View
    <3>6. events' = events \/ events' = Append(events, EventOf(r))
      BY <3>1 DEF Publish
    <3> QED BY <3>2, <3>4, <3>5, <3>6, EventsStayTrue DEF ViewsInv
  <2>2. CASE events' = events
    <3>1. [type |-> "deleted", view |-> None] \in Events
      BY DEF Events
    <3> QED BY <2>2, <3>1, EventsStayTrue DEF ViewsInv
  <2>3. events' = events \/ \E r \in Requests : Publish(r)
    BY NextSplits, ArrivePost DEF ActsFor, Step, Crash, CheckRateLimit, Load, ListByOwner, Insert,
       Increment, Recount, CountBallots, ApplyLive, GetTally, Seed, SetClosed, Remove, DropTally,
       Expire, LoseTally, vars, redis
  <2> QED BY <2>1, <2>2, <2>3
<1> QED BY <1>1, <1>2 DEF ViewsInv

LEMMA InitViews == Init => ViewsInv
<1> SUFFICES ASSUME Init PROVE ViewsInv
  OBVIOUS
<1>1. events = <<>> /\ \A r \in Requests : pc[r] = "idle" /\ doc[r] = None /\ resp[r].status = "none"
  BY DEF Init
<1> QED BY <1>1 DEF ViewsInv, EventsInv, ViewOf

\* What requests hold and have answered and what was published are tallies of
\* recorded ballots, in every execution.
THEOREM ViewsHold == Spec => []ViewsInv
<1>1. TypeInv /\ LedgerInv /\ ViewsInv /\ LedgerInv' /\ [Next]_vars => ViewsInv'
  BY NextViews
<1> QED BY <1>1, InitViews, TypeCorrect, LedgerHolds, PTL DEF Spec

\* No voter and no viewer is ever shown a ballot that is not recorded, and a voter who
\* is told "created" sees the own ballot.
THEOREM ViewsShowRecordedBallots == Spec => []VotersAndViewersSeeRecordedBallots
<1>1. ViewsInv => VotersAndViewersSeeRecordedBallots
  BY DEF ViewsInv, EventsInv, ViewOf, SeesOwn, VotersAndViewersSeeRecordedBallots
<1> QED BY <1>1, ViewsHold, PTL

----------------------------------------------------------------------------
(* How far the counters in Redis can be off                                *)

\* The recorded ballots whose request will not add them to the counters any more.
Settled == {d \in votes : pc[d.id] \notin {"increment", "recount", "countBallots", "live"}}

Within(t, u, w) ==
    /\ t.ballots <= u.ballots + w.ballots
    /\ \A o \in Options : t.counts[o] <= u.counts[o] + w.counts[o]

\* A seed brings recorded ballots, and each ballot is added at most once after it, by a
\* request that is settled then: the surplus is at most the settled ballots.
SurplusInv == tally # None => Within(tally, TallyOf(votes), TallyOf(Settled))

LEMMA SettledFinite ==
    ASSUME TypeInv
    PROVE  /\ IsFiniteSet(votes) /\ IsFiniteSet(Settled) /\ Settled \subseteq votes
           /\ TallyOf(votes) \in Tallies /\ TallyOf(Settled) \in Tallies
<1>1. IsFiniteSet(votes) /\ Settled \subseteq votes
  BY DEF TypeInv, StoresOK, Settled
<1>2. IsFiniteSet(Settled)
  BY <1>1, FS_Subset
<1> QED BY <1>1, <1>2, TallyOfType

\* A surplus within smaller bounds is within larger ones.
LEMMA WithinGrows ==
    ASSUME NEW t \in Tallies, NEW u \in Tallies, NEW w \in Tallies,
           NEW x \in Tallies, NEW y \in Tallies,
           Within(t, u, w), AtMost(u, x), AtMost(w, y)
    PROVE  Within(t, x, y)
  BY DEF Within, AtMost, Tallies

\* A request never leaves the settled ones: it gets among them by a vote's last write.
LEMMA SettledStay ==
    ASSUME TypeInv, LedgerInv, [Next]_vars
    PROVE  Settled \subseteq Settled'
<1>1. \A d \in votes : d.id \in Requests /\ (PastInsert(pc[d.id], "vote") \/ pc[d.id] = "done")
  BY DEF LedgerInv, DocsInv, TypeInv, StoresOK, VoteDocs
<1>2. votes \subseteq votes'
  BY NextKeeps DEF Kept
<1>3. CASE Expire \/ LoseTally \/ UNCHANGED vars
  BY <1>3, <1>2 DEF Settled, Expire, LoseTally, vars, local
<1>4. ASSUME NEW r \in Requests, ActsFor(r) PROVE Settled \subseteq Settled'
  <2>1. \A q \in Requests \ {r} : pc'[q] = pc[q]
    BY <1>4, OthersWait
  <2>2. CASE pc[r] \in {"seed", "publish", "done"}
    <3>1. Seed(r) \/ Publish(r) \/ Crash(r)
      BY <1>4, <2>2 DEF ActsFor, ArriveVote, ArriveOther, Arrive, Step, CheckRateLimit, Load,
         ListByOwner, Insert, Increment, Recount, CountBallots, ApplyLive, GetTally, SetClosed,
         Remove, DropTally
    <3>2. (\E d : Proceed(r, "publish", d)) \/ \E s, v : Reply(r, s, v)
      BY <3>1 DEF Seed, Publish, Crash
    <3>3. pc'[r] \in {"publish", "done"}
      BY <3>2, ProceedPost, ReplyPost DEF TypeInv
    <3> QED BY <1>1, <1>2, <2>1, <3>3 DEF Settled
  <2>3. CASE pc[r] \notin {"seed", "publish", "done"}
    BY <1>1, <1>2, <2>1, <2>3 DEF Settled, PastInsert
  <2> QED BY <2>2, <2>3
<1> QED BY <1>3, <1>4, NextSplits

\* What the script adds is the ballot of a request that it settles.
LEMMA LiveSettles ==
    ASSUME TypeInv, LedgerInv, [Next]_vars, NEW r \in Requests, ApplyLive(r), Proceed(r, "publish", doc[r])
    PROVE  AtMost(AddBallot(TallyOf(Settled), req[r].ballot), TallyOf(Settled'))
<1>1. pc[r] = "live" /\ VoteDoc(r) \in votes /\ VoteDoc(r).id = r /\ VoteDoc(r).ballot = req[r].ballot
  BY DEF ApplyLive, LedgerInv, PlacesInv, PastInsert, VoteDoc
<1>2. VoteDoc(r) \notin Settled
  BY <1>1 DEF Settled
<1>3. VoteDoc(r) \in Settled'
  <2>1. pc'[r] = "publish" /\ votes \subseteq votes'
    BY ProceedPost, NextKeeps DEF TypeInv, Kept
  <2> QED BY <1>1, <2>1 DEF Settled
<1>4. Settled \cup {VoteDoc(r)} \subseteq Settled'
  BY <1>3, SettledStay
<1>5. IsFiniteSet(Settled) /\ IsFiniteSet(Settled')
  <2>1. TypeInv => IsFiniteSet(Settled)
    BY SettledFinite
  <2>2. TypeInv' => IsFiniteSet(Settled')
    <3>1. IsFiniteSet(votes)' => IsFiniteSet(votes')
      OBVIOUS
    <3>2. Settled' \subseteq votes'
      BY DEF Settled
    <3> QED BY <3>1, <3>2, FS_Subset DEF TypeInv, StoresOK
  <2> QED BY <2>1, <2>2, NextType
<1>6. TallyOf(Settled \cup {VoteDoc(r)}) = AddBallot(TallyOf(Settled), req[r].ballot)
  BY <1>1, <1>2, <1>5, CountOneMore
<1>7. AtMost(TallyOf(Settled \cup {VoteDoc(r)}), TallyOf(Settled'))
  BY <1>4, <1>5, TallyMonotone
<1> QED BY <1>6, <1>7

LEMMA NextSurplus ==
    ASSUME TypeInv, LedgerInv, ViewsInv, SurplusInv, [Next]_vars
    PROVE  SurplusInv'
<1> DEFINE V == TallyOf(votes)  W == TallyOf(votes')  S == TallyOf(Settled)  T == TallyOf(Settled')
<1>1. V \in Tallies /\ W \in Tallies /\ AtMost(V, W)
  BY RecountGrows
<1>2. S \in Tallies /\ T \in Tallies /\ AtMost(S, T)
  <2>1. IsFiniteSet(votes') /\ Settled' \subseteq votes'
    BY NextType DEF TypeInv, StoresOK, Settled
  <2>2. IsFiniteSet(Settled')
    BY <2>1, FS_Subset
  <2> QED BY <2>2, SettledFinite, SettledStay, TallyMonotone, TallyOfType
<1>3. tally # None => tally \in Tallies /\ Within(tally, V, S)
  BY DEF SurplusInv, TypeInv, StoresOK
<1>4. SurplusInv' <=> (tally' # None => Within(tally', W, T))
  BY DEF SurplusInv, Within, TallyOf, CountsOf
<1> HIDE DEF V, W, S, T
<1>5. \/ tally' = tally \/ tally' = None
      \/ \E r \in Requests : /\ tally # None /\ tally' = AddBallot(tally, req[r].ballot)
                             /\ ApplyLive(r) /\ Proceed(r, "publish", doc[r])
      \/ \E r \in Requests : pc[r] = "seed" /\ tally' = doc[r].tally
  BY NextSplits, ArrivePost DEF ActsFor, Step, Crash, CheckRateLimit, Load, ListByOwner, Insert,
     Increment, Recount, CountBallots, ApplyLive, GetTally, Seed, SetClosed, Remove, DropTally,
     Publish, Expire, LoseTally, vars, redis
<1>6. CASE tally' = tally \/ tally' = None
  BY <1>1, <1>2, <1>3, <1>4, <1>6, WithinGrows
<1>7. ASSUME NEW r \in Requests, tally # None, tally' = AddBallot(tally, req[r].ballot),
             ApplyLive(r), Proceed(r, "publish", doc[r])
      PROVE  SurplusInv'
  <2>1. AtMost(AddBallot(S, req[r].ballot), T) /\ AddBallot(S, req[r].ballot) \in Tallies
    BY <1>2, <1>7, LiveSettles, AddBallotType DEF S, T
  <2>2. Within(AddBallot(tally, req[r].ballot), V, AddBallot(S, req[r].ballot))
    BY <1>1, <1>2, <1>3, <1>7 DEF Within, AddBallot, Tallies
  <2>3. AddBallot(tally, req[r].ballot) \in Tallies
    BY <1>3, <1>7, AddBallotType
  <2>4. Within(AddBallot(tally, req[r].ballot), W, T)
    BY <1>1, <1>2, <2>1, <2>2, <2>3, WithinGrows
  <2> QED BY <1>4, <1>7, <2>4
<1>8. ASSUME NEW r \in Requests, pc[r] = "seed", tally' = doc[r].tally PROVE SurplusInv'
  <2>1. doc[r].tally \in Tallies /\ AtMost(doc[r].tally, V)
    BY <1>8, NoneAssumption DEF TypeInv, LocalOK, Holding, Polls, ViewsInv, ViewOf, V
  <2>2. AtMost(doc[r].tally, W)
    BY <1>1, <2>1, AtMostTransitive
  <2>3. Within(doc[r].tally, W, T)
    BY <1>1, <1>2, <2>1, <2>2 DEF AtMost, Within, Tallies
  <2> QED BY <1>4, <1>8, <2>3
<1> QED BY <1>5, <1>6, <1>7, <1>8

LEMMA InitSurplus == Init => SurplusInv
<1> SUFFICES ASSUME Init, tally # None PROVE Within(tally, TallyOf(votes), TallyOf(Settled))
  BY DEF SurplusInv
<1>1. tally = ZeroTally /\ votes = {} /\ Settled = {}
  BY DEF Init, Settled
<1> QED BY <1>1, CountNothing DEF Within, ZeroTally

\* The cached tally shows only ballots that are recorded, and the counters in Redis at
\* most twice as many: a seed replaces them, and every ballot is added once at most.
THEOREM TallyNeverOvercounts == Spec => []NoOvercount
<1>1. TypeInv /\ LedgerInv /\ ViewsInv /\ SurplusInv /\ [Next]_vars => SurplusInv'
  BY NextSurplus
<1>2. TypeInv /\ LedgerInv /\ SurplusInv => NoOvercount
  <2> SUFFICES ASSUME TypeInv, LedgerInv, SurplusInv PROVE NoOvercount
    OBVIOUS
  <2>1. ASSUME poll # None PROVE AtMost(poll.tally, TallyOf(votes))
    BY <2>1, TallyMonotone DEF TypeInv, StoresOK, LedgerInv, CountedInv
  <2>2. ASSUME tally # None PROVE AtMost(tally, Twice(TallyOf(votes)))
    <3>1. AtMost(TallyOf(Settled), TallyOf(votes))
      BY SettledFinite, TallyMonotone
    <3>2. Within(tally, TallyOf(votes), TallyOf(Settled))
      BY <2>2 DEF SurplusInv
    <3>3. TallyOf(Settled) \in Tallies /\ TallyOf(votes) \in Tallies /\ tally \in Tallies
      BY <2>2, SettledFinite DEF TypeInv, StoresOK
    <3>4. \A t, u, w \in Tallies : Within(t, u, w) /\ AtMost(w, u) => AtMost(t, Twice(u))
      BY DEF Within, AtMost, Twice, Tallies
    <3> QED BY <3>1, <3>2, <3>3, <3>4
  <2> QED BY <2>1, <2>2 DEF NoOvercount
<1> QED BY <1>1, <1>2, InitSurplus, TypeCorrect, LedgerHolds, ViewsHold, PTL DEF Spec

----------------------------------------------------------------------------
(* Percentages                                                             *)

\* A recount gives no option more votes than there are ballots, $inc keeps it so.
LEMMA RecountProportionate ==
    ASSUME NEW D, IsFiniteSet(D)
    PROVE  Proportionate(TallyOf(D)) /\ \A o \in Options : CountsOf(D)[o] <= Cardinality(D)
<1>1. ASSUME NEW o \in Options PROVE Cardinality({x \in D : o \in x.ballot}) <= Cardinality(D)
  BY FS_Subset
<1> QED BY <1>1 DEF Proportionate, TallyOf, CountsOf

LEMMA AddBallotProportionate ==
    ASSUME NEW t \in Tallies, NEW b, Proportionate(t)
    PROVE  Proportionate(AddBallot(t, b))
  BY DEF Proportionate, AddBallot, Tallies

\* Between the two reads of a recount the counts are new and the ballots old; that the
\* votes collection only grows makes up for it (ViewOf).
ShareOf(r) ==
    /\ doc[r] # None /\ pc[r] # "countBallots" => Proportionate(doc[r].tally)
    /\ resp[r].view # None => Proportionate(resp[r].view.tally)

SharesInv ==
    /\ tally # None => Proportionate(tally)
    /\ \A i \in DOMAIN events : events[i].type # "deleted" => Proportionate(events[i].view.tally)
    /\ \A r \in Requests : ShareOf(r)

LEMMA PollProportionate ==
    ASSUME TypeInv, LedgerInv, poll # None
    PROVE  Proportionate(poll.tally)
<1>1. IsFiniteSet(counted)
  BY FS_Subset DEF TypeInv, StoresOK, LedgerInv, CountedInv
<1> QED BY <1>1, RecountProportionate DEF LedgerInv, CountedInv

\* The share of r itself.
LEMMA ShareOwn ==
    ASSUME TypeInv, LedgerInv, ViewsInv, SharesInv, LedgerInv', [Next]_vars,
           NEW r \in Requests, ActsFor(r)
    PROVE  ShareOf(r)'
<1>1. /\ ShareOf(r) /\ LocalOK
      /\ pc[r] \in Holding => doc[r] \in Polls /\ doc[r] # None /\ doc[r].tally \in Tallies
  BY NoneAssumption DEF SharesInv, TypeInv, LocalOK, Polls
<1>2. /\ poll # None => Proportionate(poll.tally)
      /\ poll' # None => Proportionate(poll'.tally)
  <2>1. ASSUME TypeInv', LedgerInv', poll' # None PROVE Proportionate(poll'.tally)
    <3>1. IsFiniteSet(counted') /\ poll'.tally = TallyOf(counted')
      BY <2>1, FS_Subset DEF TypeInv, StoresOK, LedgerInv, CountedInv, TallyOf, CountsOf
    <3> QED BY <3>1, RecountProportionate
  <2> QED BY <2>1, PollProportionate, NextType
<1>3. ShareOf(r)' <=>
        /\ doc'[r] # None /\ pc'[r] # "countBallots" => Proportionate(doc'[r].tally)
        /\ resp'[r].view # None => Proportionate(resp'[r].view.tally)
  BY DEF ShareOf, Proportionate
<1>4. CASE ArriveVote(r) \/ ArriveOther(r)
  BY <1>1, <1>3, <1>4, ArrivePost DEF ShareOf
<1>5. CASE Step(r) \/ Crash(r)
  <2>1. ASSUME NEW s, NEW v, Reply(r, s, v), v # None => Proportionate(v.tally) PROVE ShareOf(r)'
    BY <1>1, <1>3, <2>1, ReplyPost
  <2>2. ASSUME NEW label, NEW d, Proceed(r, label, d),
               d # None /\ label # "countBallots" => Proportionate(d.tally)
        PROVE  ShareOf(r)'
    BY <1>1, <1>3, <2>2, ProceedPost DEF ShareOf
  <2>3. doc[r] # None /\ pc[r] # "countBallots" => Proportionate(doc[r].tally)
    BY <1>1 DEF ShareOf
  <2>4. \A d, e : View(d, e).tally = d.tally
    BY DEF View
  <2>5. CASE Crash(r)
    BY <2>1, <2>5 DEF Crash
  <2>6. CASE CheckRateLimit(r) \/ Insert(r) \/ ApplyLive(r)
    BY <2>1, <2>2, <2>3, <2>6 DEF CheckRateLimit, Insert, ApplyLive
  <2>7. CASE Load(r)
    <3>1. \/ \E s : Reply(r, s, None)
          \/ poll # None /\ \E label \in {"insert", "setClosed", "remove", "getTally"} :
                                Proceed(r, label, poll)
      BY <2>7 DEF Load, AfterLoad
    <3> QED BY <1>2, <2>1, <2>2, <3>1
  <2>8. CASE ListByOwner(r)
    BY <1>2, <2>1, <2>4, <2>8 DEF ListByOwner
  <2>9. CASE GetTally(r)
    <3>1. pc[r] = "getTally" /\ Proportionate(doc[r].tally) /\ doc[r] \in Polls
      BY <1>1, <2>3, <2>9 DEF GetTally, Holding
    <3>2. tally # None => Proportionate([doc[r] EXCEPT !.tally = tally].tally)
      <4>1. [doc[r] EXCEPT !.tally = tally].tally = tally
        BY <3>1 DEF Polls
      <4> QED BY <4>1 DEF SharesInv
    <3> QED BY <2>1, <2>2, <2>4, <2>9, <3>1, <3>2 DEF GetTally
  <2>10. CASE Increment(r)
    <3>1. CASE Proceed(r, "recount", doc[r])
      BY <2>2, <2>3, <2>10, <3>1 DEF Increment
    <3>2. CASE poll' = Incremented(r) /\ Proceed(r, "live", poll')
      BY <1>2, <2>2, <3>2
    <3> QED BY <2>10, <3>1, <3>2 DEF Increment, ApplyIncrement
  <2>11. CASE Recount(r)
    <3>1. (\E d : Proceed(r, "countBallots", d)) \/ Reply(r, "internal", None)
      BY <2>11 DEF Recount
    <3> QED BY <2>1, <2>2, <3>1
  <2>12. CASE CountBallots(r)
    <3> DEFINE d == [doc[r] EXCEPT !.tally.ballots = Cardinality(votes)]
    <3>1. doc[r] \in Polls /\ doc[r].tally \in Tallies /\ AtMost(doc[r].tally, TallyOf(votes))
      BY <1>1, <2>12 DEF CountBallots, Holding, ViewsInv, ViewOf
    <3>2. d.tally.counts = doc[r].tally.counts /\ d.tally.ballots = Cardinality(votes)
      BY <3>1 DEF Polls, Tallies
    <3>3. /\ \A o \in Options : CountsOf(votes)[o] <= Cardinality(votes)
          /\ CountsOf(votes) \in [Options -> Nat] /\ Cardinality(votes) \in Nat
      BY RecountProportionate, CountsOfType, FS_CardinalityType DEF TypeInv, StoresOK
    <3>4. \A o \in Options : doc[r].tally.counts[o] <= CountsOf(votes)[o]
                              /\ doc[r].tally.counts[o] \in Nat
      BY <3>1 DEF AtMost, TallyOf, Tallies
    <3> HIDE DEF d
    <3>5. Proportionate(d.tally)
      BY <3>2, <3>3, <3>4 DEF Proportionate
    <3>6. Proceed(r, "live", d) \/ Reply(r, "internal", None)
      BY <2>12 DEF CountBallots, d
    <3> QED BY <2>1, <2>2, <3>5, <3>6
  <2>13. CASE Seed(r)
    <3>1. pc[r] = "seed" /\ Proportionate(doc[r].tally)
      BY <1>1, <2>3, <2>13 DEF Seed, Holding
    <3> QED BY <2>1, <2>2, <2>4, <2>13, <3>1 DEF Seed
  <2>14. CASE SetClosed(r) \/ Remove(r) \/ DropTally(r)
    <3>1. CASE \E s : Reply(r, s, None)
      BY <2>1, <3>1
    <3>2. CASE \E label : Proceed(r, label, doc[r])
      BY <2>2, <2>3, <2>14, <3>2 DEF SetClosed, Remove, DropTally
    <3>3. CASE poll # None /\ poll' = Closed /\ Proceed(r, "publish", Closed)
      <4>1. Closed.tally = poll.tally
        BY <3>3 DEF TypeInv, StoresOK, Polls, Closed
      <4> QED BY <1>2, <2>2, <3>3, <4>1
    <3> QED BY <2>14, <3>1, <3>2, <3>3 DEF SetClosed, Remove, DropTally
  <2>15. CASE Publish(r)
    <3>1. pc[r] = "publish" /\ Reply(r, AnswerOf(r), EventOf(r).view) /\ Proportionate(doc[r].tally)
      BY <1>1, <2>3, <2>15 DEF Publish, Holding
    <3>2. EventOf(r).view # None => EventOf(r).view.tally = doc[r].tally
      BY <2>4 DEF EventOf
    <3> QED BY <2>1, <3>1, <3>2
  <2> QED BY <1>5, <2>5, <2>6, <2>7, <2>8, <2>9, <2>10, <2>11, <2>12, <2>13, <2>14, <2>15 DEF Step
<1> QED BY <1>4, <1>5 DEF ActsFor

\* Redis and the events.
LEMMA SharedShares ==
    ASSUME TypeInv, SharesInv, [Next]_vars
    PROVE  /\ tally' # None => Proportionate(tally')
           /\ \A i \in DOMAIN events' :
                 events'[i].type # "deleted" => Proportionate(events'[i].view.tally)
<1>1. ASSUME NEW r \in Requests, pc[r] \in {"seed", "live", "publish"}
      PROVE  doc[r] \in Polls /\ Proportionate(doc[r].tally)
  BY <1>1, NoneAssumption DEF TypeInv, LocalOK, Holding, SharesInv, ShareOf
<1>2. tally # None => tally \in Tallies /\ Proportionate(tally)
  BY DEF TypeInv, StoresOK, SharesInv
<1>3. \/ tally' = tally \/ tally' = None
      \/ \E r \in Requests : /\ pc[r] = "live" /\ tally # None
                             /\ tally' = AddBallot(tally, req[r].ballot)
      \/ \E r \in Requests : pc[r] = "seed" /\ tally' = doc[r].tally
  BY NextSplits, ArrivePost DEF ActsFor, Step, Crash, CheckRateLimit, Load, ListByOwner, Insert,
     Increment, Recount, CountBallots, ApplyLive, GetTally, Seed, SetClosed, Remove, DropTally,
     Publish, Expire, LoseTally, vars, redis
<1>4. tally' # None => Proportionate(tally')
  BY <1>1, <1>2, <1>3, AddBallotProportionate
<1>5. events \in Seq(Events)
      /\ \A i \in DOMAIN events : events[i].type # "deleted" => Proportionate(events[i].view.tally)
  BY DEF TypeInv, StoresOK, SharesInv
<1>6. ASSUME NEW r \in Requests, Publish(r)
      PROVE  /\ EventOf(r) \in Events
             /\ EventOf(r).type # "deleted" => Proportionate(EventOf(r).view.tally)
  <2>1. pc[r] = "publish" /\ doc[r] \in Polls /\ Proportionate(doc[r].tally)
    BY <1>1, <1>6 DEF Publish
  <2>2. req[r].late \in BOOLEAN /\ expired \in BOOLEAN
    BY DEF TypeInv, OthersOK, RequestRecords
  <2>3. EventOf(r) \in Events
    BY <2>1, <2>2, ViewType DEF EventOf, Events
  <2>4. EventOf(r).type # "deleted" => EventOf(r).view.tally = doc[r].tally
    BY DEF EventOf, View
  <2> QED BY <2>1, <2>3, <2>4
<1>7. events' = events \/ \E r \in Requests : Publish(r) /\ events' = Append(events, EventOf(r))
  BY NextSplits, ArrivePost DEF ActsFor, Step, Crash, CheckRateLimit, Load, ListByOwner, Insert,
     Increment, Recount, CountBallots, ApplyLive, GetTally, Seed, SetClosed, Remove, DropTally,
     Publish, Expire, LoseTally, vars, redis
<1>8. \A i \in DOMAIN events' :
         events'[i].type # "deleted" => Proportionate(events'[i].view.tally)
  <2>1. CASE events' = events
    BY <1>5, <2>1
  <2>2. ASSUME NEW r \in Requests, Publish(r), events' = Append(events, EventOf(r))
        PROVE  \A i \in DOMAIN events' :
                  events'[i].type # "deleted" => Proportionate(events'[i].view.tally)
    <3>1. \A i \in DOMAIN events' :
             \/ i \in DOMAIN events /\ events'[i] = events[i]
             \/ events'[i] = EventOf(r)
      BY <1>5, <1>6, <2>2
    <3> QED BY <1>5, <1>6, <2>2, <3>1
  <2> QED BY <1>7, <2>1, <2>2
<1> QED BY <1>4, <1>8

LEMMA NextShares ==
    ASSUME TypeInv, LedgerInv, ViewsInv, SharesInv, LedgerInv', [Next]_vars
    PROVE  SharesInv'
<1>1. \A q \in Requests : ShareOf(q)'
  <2>1. ASSUME NEW q \in Requests, pc'[q] = pc[q], doc'[q] = doc[q], resp'[q] = resp[q]
        PROVE  ShareOf(q)'
    BY <2>1 DEF SharesInv, ShareOf, Proportionate
  <2>2. CASE \E r \in Requests : ActsFor(r)
    BY <2>1, <2>2, OthersWait, ShareOwn
  <2>3. CASE Expire \/ LoseTally \/ UNCHANGED vars
    BY <2>1, <2>3 DEF Expire, LoseTally, vars, local
  <2> QED BY <2>2, <2>3, NextSplits
<1> QED BY <1>1, SharedShares DEF SharesInv, Proportionate

LEMMA InitShares == Init => SharesInv
<1>1. Proportionate(ZeroTally)
  BY DEF Proportionate, ZeroTally
<1> QED BY <1>1 DEF Init, SharesInv, ShareOf

\* No option is ever shown with more votes than there are ballots: not in the poll, in
\* Redis, in an event or in an answer.
THEOREM PercentagesDoMakeSense == Spec => []PercentagesMakeSense
<1>1. TypeInv /\ LedgerInv /\ ViewsInv /\ SharesInv /\ LedgerInv' /\ [Next]_vars => SharesInv'
  BY NextShares
<1>2. TypeInv /\ LedgerInv /\ SharesInv => PercentagesMakeSense
  BY PollProportionate DEF SharesInv, ShareOf, PercentagesMakeSense
<1> QED BY <1>1, <1>2, InitShares, TypeCorrect, LedgerHolds, ViewsHold, PTL DEF Spec

----------------------------------------------------------------------------
(* One history                                                             *)

\* Every tally requests hold or have announced.
Known == {doc[r].tally : r \in {q \in Requests : doc[q] # None}} \cup Announced

Chain(K) == \A u, v \in K : u.ballots <= v.ballots => AtMost(u, v)

\* The numbers of a poll that only IncrementCounts changes are a chain with the document
\* at its end; only a failure or a delete sends a vote to the recount.
HistoryInv ==
    /\ \A r \in Requests : pc[r] # "done" => resp[r].view = None
    /\ poll # None /\ faults["mongo"] = 0 =>
          /\ \A r \in Requests : pc[r] \notin {"recount", "countBallots"}
          /\ \A u \in Known : u.ballots <= poll.tally.ballots
          /\ Chain(Known \cup {poll.tally})

LEMMA KnownType ==
    ASSUME TypeInv
    PROVE  Known \subseteq Tallies
<1>1. \A r \in Requests : doc[r] # None => doc[r].tally \in Tallies
  BY DEF TypeInv, LocalOK, Polls
<1>2. \A r \in Requests : resp[r].view # None => resp[r].view.tally \in Tallies
  BY DEF TypeInv, LocalOK, Views
<1>3. \A i \in DOMAIN events : events[i].type # "deleted" => events[i].view.tally \in Tallies
  <2>1. \A e \in Events : e.type # "deleted" => e.view.tally \in Tallies
    BY DEF Events, Views
  <2> QED BY <2>1 DEF TypeInv, StoresOK
<1> QED BY <1>1, <1>2, <1>3 DEF Known, Announced

\* A history that goes on is a chain again.
LEMMA ChainGrows ==
    ASSUME NEW K \in SUBSET Tallies, NEW t \in Tallies, NEW b,
           Chain(K \cup {t}), \A u \in K : u.ballots <= t.ballots
    PROVE  /\ Chain(K \cup {t, AddBallot(t, b)})
           /\ \A u \in K \cup {t} : u.ballots <= AddBallot(t, b).ballots
<1> DEFINE n == AddBallot(t, b)
<1>1. n \in Tallies /\ AtMost(t, t) /\ AtMost(t, n) /\ n.ballots = t.ballots + 1 /\ AtMost(n, n)
  BY AddBallotType, TallyGrows DEF AddBallot
<1>2. ASSUME NEW u \in K \cup {t} PROVE u.ballots <= t.ballots /\ AtMost(u, n) /\ ~(n.ballots <= u.ballots)
  <2>1. u \in Tallies /\ u.ballots <= t.ballots
    BY <1>1 DEF AtMost
  <2>2. AtMost(u, t)
    BY <2>1 DEF Chain
  <2>3. AtMost(u, n)
    BY <1>1, <2>1, <2>2, AtMostTransitive
  <2> QED BY <1>1, <2>1, <2>3 DEF Tallies
<1> HIDE DEF n
<1>3. ASSUME NEW u \in K \cup {t} PROVE u.ballots <= n.ballots
  BY <1>1, <1>2, <1>3 DEF Tallies
<1>4. Chain(K \cup {t, n})
  BY <1>1, <1>2 DEF Chain
<1> QED BY <1>3, <1>4 DEF n

\* What r holds and answers after its step: what was known, or the document in MongoDB.
LEMMA HistoryOwn ==
    ASSUME TypeInv, ClosingInv, HistoryInv, [Next]_vars, NEW r \in Requests, ActsFor(r),
           poll # None, faults["mongo"] = 0, ~Fault("mongo"), poll' # None
    PROVE  /\ pc'[r] \notin {"recount", "countBallots"}
           /\ doc'[r] # None => doc'[r].tally \in Known \cup {poll.tally, poll'.tally}
           /\ resp'[r].view # None /\ req'[r].op \in {"vote", "close"}
                 => resp'[r].view.tally \in Known \cup {poll.tally, poll'.tally}
<1> DEFINE K == Known \cup {poll.tally, poll'.tally}
           Goal == /\ pc'[r] \notin {"recount", "countBallots"}
                   /\ doc'[r] # None => doc'[r].tally \in K
                   /\ resp'[r].view # None /\ req'[r].op \in {"vote", "close"} => resp'[r].view.tally \in K
<1> SUFFICES Goal
  OBVIOUS
<1>1. /\ LocalOK /\ Fits(pc[r], req[r]) /\ ClosingOf(r)
      /\ pc[r] \notin {"recount", "countBallots"} /\ (pc[r] # "done" => resp[r].view = None)
      /\ doc[r] # None => doc[r].tally \in K
      /\ poll.tally \in K /\ poll'.tally \in K
  BY DEF TypeInv, RequestsFit, ClosingInv, HistoryInv, Known
<1> HIDE DEF K
<1>2. CASE ArriveVote(r) \/ ArriveOther(r)
  BY <1>1, <1>2, ArrivePost
<1>3. CASE Step(r) \/ Crash(r)
  <2>1. /\ pc[r] \notin {"idle", "done"} /\ req' = req /\ resp[r].view = None
        /\ pc[r] \in Holding => doc[r] \in Polls /\ doc[r] # None
    <3>1. pc[r] \notin {"idle", "done"}
      BY <1>3 DEF Step, Crash, InFlight, CheckRateLimit, Load, ListByOwner, Insert, Increment,
                  Recount, CountBallots, ApplyLive, GetTally, Seed, SetClosed, Remove,
                  DropTally, Publish
    <3> QED BY <1>1, <3>1, OthersWait, NoneAssumption DEF LocalOK
  <2>2. ASSUME NEW s, NEW v, Reply(r, s, v),
               v # None /\ req[r].op \in {"vote", "close"} => v.tally \in K
        PROVE  Goal
    BY <1>1, <2>1, <2>2, ReplyPost
  <2>3. ASSUME NEW label, label \notin {"recount", "countBallots"}, NEW d, Proceed(r, label, d),
               d # None => d.tally \in K
        PROVE  Goal
    BY <1>1, <2>1, <2>3, ProceedPost
  <2> HIDE DEF Goal
  <2>4. \A d, e : View(d, e).tally = d.tally
    BY DEF View
  <2>5. CASE Crash(r)
    BY <2>2, <2>5 DEF Crash
  <2>6. CASE CheckRateLimit(r) \/ Insert(r) \/ ApplyLive(r)
    BY <1>1, <2>2, <2>3, <2>6 DEF CheckRateLimit, Insert, ApplyLive
  <2>7. CASE Load(r)
    <3>1. \/ \E s : Reply(r, s, None)
          \/ \E label \in {"insert", "setClosed", "remove", "getTally"} : Proceed(r, label, poll)
      BY <2>7 DEF Load, AfterLoad
    <3> QED BY <1>1, <2>2, <2>3, <3>1
  <2>8. CASE ListByOwner(r)
    BY <1>1, <2>2, <2>4, <2>8 DEF ListByOwner
  <2>9. CASE Increment(r)
    <3>1. poll' = Incremented(r) /\ Proceed(r, "live", poll')
      BY <2>9 DEF Increment, ApplyIncrement
    <3> QED BY <1>1, <2>3, <3>1
  <2>10. CASE GetTally(r)
    <3>1. req[r].op \notin {"vote", "close"}
      BY <1>1, <2>10 DEF GetTally, ClosingOf, Fits, OtherPlaces
    <3> QED BY <1>1, <2>2, <2>3, <2>10, <3>1 DEF GetTally
  <2>11. CASE Seed(r)
    <3>1. pc[r] = "seed" /\ doc[r].tally \in K
      BY <1>1, <2>1, <2>11 DEF Seed, Holding
    <3> QED BY <1>1, <2>2, <2>3, <2>4, <2>11, <3>1 DEF Seed
  <2>12. CASE SetClosed(r) \/ Remove(r) \/ DropTally(r)
    <3>1. CASE \E s : Reply(r, s, None)
      BY <2>2, <3>1
    <3>2. CASE Proceed(r, "drop", doc[r]) \/ Proceed(r, "publish", doc[r])
      BY <1>1, <2>3, <3>2
    <3>3. CASE Proceed(r, "publish", Closed)
      <4>1. Closed.tally = poll.tally
        BY DEF TypeInv, StoresOK, Polls, Closed
      <4> QED BY <1>1, <2>3, <3>3, <4>1
    <3> QED BY <2>12, <3>1, <3>2, <3>3 DEF SetClosed, Remove, DropTally
  <2>13. CASE Publish(r)
    <3>1. Reply(r, AnswerOf(r), EventOf(r).view) /\ doc[r].tally \in K
      BY <1>1, <2>1, <2>13 DEF Publish, Holding
    <3>2. EventOf(r).view # None => EventOf(r).view.tally = doc[r].tally
      BY <2>4 DEF EventOf
    <3> QED BY <2>2, <3>1, <3>2
  <2> QED BY <1>1, <1>3, <2>5, <2>6, <2>7, <2>8, <2>9, <2>10, <2>11, <2>12, <2>13
          DEF Step, Recount, CountBallots
<1> QED BY <1>2, <1>3 DEF ActsFor

\* What is published was in the hands of the request that publishes it.
LEMMA HistoryEvents ==
    ASSUME TypeInv, [Next]_vars,
           NEW i \in DOMAIN events', events'[i].type # "deleted"
    PROVE  events'[i].view.tally \in Known
<1>1. events \in Seq(Events)
  BY DEF TypeInv, StoresOK
<1>2. \A j \in DOMAIN events : events[j].type # "deleted" => events[j].view.tally \in Known
  BY DEF Known, Announced
<1>3. CASE events' = events
  BY <1>2, <1>3
<1>4. ASSUME NEW r \in Requests, Publish(r), events' = Append(events, EventOf(r))
      PROVE  events'[i].view.tally \in Known
  <2>1. pc[r] = "publish" /\ doc[r] \in Polls /\ doc[r] # None
    BY <1>4, NoneAssumption DEF Publish, TypeInv, LocalOK, Holding
  <2>2. EventOf(r).type # "deleted" => EventOf(r).view.tally = doc[r].tally
    BY DEF EventOf, View
  <2>3. doc[r].tally \in Known
    BY <2>1 DEF Known
  <2>4. (i \in DOMAIN events /\ events'[i] = events[i]) \/ events'[i] = EventOf(r)
    <3>1. req[r].late \in BOOLEAN /\ expired \in BOOLEAN
      BY DEF TypeInv, OthersOK, RequestRecords
    <3>2. EventOf(r) \in Events
      BY <2>1, <3>1, ViewType DEF EventOf, Events
    <3> QED BY <1>1, <1>4, <3>2
  <2> QED BY <1>2, <2>2, <2>3, <2>4
<1>5. events' = events \/ \E r \in Requests : Publish(r) /\ events' = Append(events, EventOf(r))
  BY NextSplits, ArrivePost DEF ActsFor, Step, Crash, CheckRateLimit, Load, ListByOwner, Insert,
     Increment, Recount, CountBallots, ApplyLive, GetTally, Seed, SetClosed, Remove, DropTally,
     Publish, Expire, LoseTally, vars, redis
<1> QED BY <1>3, <1>4, <1>5

\* A request that has not answered has no view to show.
LEMMA NoViewYet ==
    ASSUME TypeInv, HistoryInv, [Next]_vars
    PROVE  \A q \in Requests : pc'[q] # "done" => resp'[q].view = None
<1>1. \A q \in Requests : pc[q] # "done" => resp[q].view = None
  BY DEF HistoryInv
<1>2. ASSUME NEW r \in Requests, ActsFor(r)
      PROVE  \A q \in Requests : pc'[q] # "done" => resp'[q].view = None
  <2>1. CASE ArriveVote(r) \/ ArriveOther(r)
    BY <1>1, <2>1, ArrivePost
  <2>2. CASE Step(r) \/ Crash(r)
    <3>1. pc[r] # "done"
      BY <2>2 DEF Step, Crash, InFlight, CheckRateLimit, Load, ListByOwner, Insert, Increment,
                  Recount, CountBallots, ApplyLive, GetTally, Seed, SetClosed, Remove,
                  DropTally, Publish
    <3>2. \E label, s, d, v : Proceed(r, label, d) \/ Reply(r, s, v)
      BY <2>2 DEF Step, Crash, CheckRateLimit, Load, AfterLoad, ListByOwner, Insert, Increment,
                  Recount, CountBallots, ApplyLive, GetTally, Seed, SetClosed, Remove, DropTally,
                  Publish
    <3> QED BY <1>1, <3>1, <3>2, ProceedPost, ReplyPost DEF TypeInv
  <2> QED BY <1>2, <2>1, <2>2 DEF ActsFor
<1>3. CASE Expire \/ LoseTally \/ UNCHANGED vars
  BY <1>1, <1>3 DEF Expire, LoseTally, vars, local
<1> QED BY <1>2, <1>3, NextSplits

\* The document in MongoDB keeps its numbers, or one ballot is added to them.
LEMMA DocumentGrows ==
    ASSUME TypeInv, [Next]_vars, poll # None, poll' # None
    PROVE  poll'.tally = poll.tally \/ \E b : poll'.tally = AddBallot(poll.tally, b)
<1>1. poll \in Polls
  BY DEF TypeInv, StoresOK
<1>2. Closed.tally = poll.tally
  BY <1>1 DEF Polls, Closed
<1>3. \A r \in Requests : Incremented(r).tally = AddBallot(poll.tally, req[r].ballot)
  BY <1>1 DEF Polls, Incremented
<1>4. poll' = poll \/ poll' = Closed \/ \E r \in Requests : poll' = Incremented(r)
  BY NextSplits, ArrivePost DEF ActsFor, Step, Crash, CheckRateLimit, Load, ListByOwner, Insert,
     Increment, ApplyIncrement, Recount, CountBallots, ApplyLive, GetTally, Seed, SetClosed,
     Remove, DropTally, Publish, Expire, LoseTally, vars, mongo
<1> QED BY <1>2, <1>3, <1>4

LEMMA NextHistory ==
    ASSUME TypeInv, ClosingInv, HistoryInv, [Next]_vars
    PROVE  HistoryInv'
<1> SUFFICES ASSUME poll' # None, faults'["mongo"] = 0
             PROVE  /\ \A q \in Requests : pc'[q] \notin {"recount", "countBallots"}
                    /\ \A u \in Known' : u.ballots <= poll'.tally.ballots
                    /\ Chain(Known' \cup {poll'.tally})
  BY NoViewYet DEF HistoryInv, Chain, AtMost
<1>1. poll # None /\ faults["mongo"] = 0 /\ ~Fault("mongo")
  BY NextKeeps, FaultsGrow, FaultMarks DEF Kept, FaultKinds
<1>2. /\ \A q \in Requests : pc[q] \notin {"recount", "countBallots"}
      /\ \A u \in Known : u.ballots <= poll.tally.ballots
      /\ Chain(Known \cup {poll.tally})
  BY <1>1 DEF HistoryInv
<1> DEFINE K == Known \cup {poll.tally, poll'.tally}
           Shows(q) == /\ pc'[q] \notin {"recount", "countBallots"}
                       /\ doc'[q] # None => doc'[q].tally \in K
                       /\ resp'[q].view # None /\ req'[q].op \in {"vote", "close"}
                             => resp'[q].view.tally \in K
<1>3. \A q \in Requests : Shows(q)
  <2>1. ASSUME NEW q \in Requests, pc'[q] = pc[q], doc'[q] = doc[q], resp'[q] = resp[q],
               req'[q] = req[q]
        PROVE  Shows(q)
    BY <1>2, <2>1 DEF Known, Announced
  <2>2. ASSUME NEW r \in Requests, ActsFor(r) PROVE Shows(r)
    BY <1>1, <2>2, HistoryOwn
  <2>3. CASE Expire \/ LoseTally \/ UNCHANGED vars
    <3>1. UNCHANGED <<pc, doc, resp, req>>
      BY <2>3 DEF Expire, LoseTally, vars, local
    <3> HIDE DEF Shows
    <3> QED BY <2>1, <3>1
  <2>4. CASE \E r \in Requests : ActsFor(r)
    <3> HIDE DEF Shows
    <3> QED BY <2>1, <2>2, <2>4, OthersWait
  <2> HIDE DEF Shows
  <2> QED BY <2>3, <2>4, NextSplits
<1>4. Known' \subseteq K
  <2>1. \A i \in DOMAIN events' : events'[i].type # "deleted" => events'[i].view.tally \in K
    BY HistoryEvents
  <2> HIDE DEF K
  <2> QED BY <1>3, <2>1 DEF Known, Announced
<1>5. poll.tally \in Tallies /\ Known \in SUBSET Tallies
  BY <1>1, KnownType DEF TypeInv, StoresOK, Polls
<1>6. (\A u \in K : u.ballots <= poll'.tally.ballots) /\ Chain(K)
  <2>1. CASE poll'.tally = poll.tally
    BY <1>2, <1>5, <2>1 DEF Tallies
  <2>2. CASE \E b : poll'.tally = AddBallot(poll.tally, b)
    <3>1. PICK b : poll'.tally = AddBallot(poll.tally, b)
      BY <2>2
    <3>2. /\ Chain(Known \cup {poll.tally, AddBallot(poll.tally, b)})
          /\ \A u \in Known \cup {poll.tally} : u.ballots <= AddBallot(poll.tally, b).ballots
      BY <1>2, <1>5, ChainGrows
    <3>3. poll'.tally.ballots <= poll'.tally.ballots
      <4>1. AddBallot(poll.tally, b) \in Tallies
        BY <1>5, AddBallotType
      <4> QED BY <3>1, <4>1 DEF Tallies
    <3> QED BY <3>1, <3>2, <3>3
  <2> QED BY <1>1, <2>1, <2>2, DocumentGrows
<1> HIDE DEF K
<1>7. Known' \cup {poll'.tally} \subseteq K
  BY <1>4 DEF K
<1> QED BY <1>3, <1>4, <1>6, <1>7 DEF Chain

LEMMA InitHistory == Init => HistoryInv
<1> SUFFICES ASSUME Init PROVE HistoryInv
  OBVIOUS
<1>1. Known = {}
  BY DEF Init, Known, Announced
<1>2. ZeroTally \in Tallies
  BY DEF ZeroTally, Tallies
<1> QED BY <1>1, <1>2, TallyGrows DEF Init, HistoryInv, Chain

\* While MongoDB answers, what is published and answered about a poll are states of one
\* history, whatever order it is published in.
THEOREM OneHistory == Spec => []ViewsAreOneHistory
<1>1. TypeInv /\ ClosingInv /\ HistoryInv /\ [Next]_vars => HistoryInv'
  BY NextHistory
<1>2. HistoryInv => ViewsAreOneHistory
  BY DEF HistoryInv, Chain, Known, ViewsAreOneHistory
<1> QED BY <1>1, <1>2, InitHistory, TypeCorrect, ClosingHolds, PTL DEF Spec

----------------------------------------------------------------------------
(* Counters that were never lost                                           *)

\* The ballots counted in MongoDB and on their way to Redis.
AtLive == {VoteDoc(r) : r \in {q \in Requests : pc[q] = "live"}}

\* Redis had the hash from the start and nothing failed: it holds the ballots MongoDB
\* has counted, but for those on their way, and nobody has a reason to seed it.
WarmInv ==
    WarmStart /\ NoFaults /\ poll # None =>
        /\ \A r \in Requests : /\ pc[r] \notin {"seed", "recount", "countBallots"}
                               /\ pc[r] = "live" => VoteDoc(r) \in counted
        /\ tally # None /\ tally = TallyOf(counted \ AtLive)

LEMMA NextWarm ==
    ASSUME TypeInv, LedgerInv, ClosingInv, WarmInv, [Next]_vars
    PROVE  WarmInv'
<1> DEFINE Goal ==
             /\ \A q \in Requests : /\ pc'[q] \notin {"seed", "recount", "countBallots"}
                                    /\ pc'[q] = "live" => VoteDoc(q)' \in counted'
             /\ tally' # None /\ tally' = TallyOf(counted' \ AtLive')
<1> SUFFICES ASSUME WarmStart, NoFaults', poll' # None
             PROVE  Goal
  BY DEF WarmInv, TallyOf, CountsOf
<1>1. poll # None
  BY NextKeeps DEF Kept
<1>2. NoFaults /\ \A k \in FaultKinds : ~Fault(k)
  BY FaultsGrow, FaultMarks DEF NoFaults
<1>3. /\ \A q \in Requests : /\ pc[q] \notin {"seed", "recount", "countBallots"}
                             /\ pc[q] = "live" => VoteDoc(q) \in counted
      /\ tally # None /\ tally = TallyOf(counted \ AtLive)
  BY <1>1, <1>2 DEF WarmInv
<1>4. CASE Expire \/ LoseTally \/ UNCHANGED vars
  <2>1. UNCHANGED <<pc, req, counted, tally>>
    BY <1>2, <1>4 DEF Expire, LoseTally, vars, mongo, redis, local, FaultKinds
  <2>2. AtLive' = AtLive /\ \A q \in Requests : VoteDoc(q)' = VoteDoc(q)
    BY <2>1 DEF AtLive, VoteDoc
  <2> QED BY <1>3, <2>1, <2>2
<1>5. ASSUME NEW r \in Requests, ActsFor(r) PROVE Goal
  <2>1. \A q \in Requests \ {r} : pc'[q] = pc[q] /\ VoteDoc(q)' = VoteDoc(q)
    BY <1>5, OthersWait DEF VoteDoc
  <2>2. \A q \in Requests : VoteDoc(q).id = q
    BY DEF VoteDoc
  <2>3. pc[r] # "idle" => VoteDoc(r)' = VoteDoc(r)
    BY <1>5, OthersWait DEF VoteDoc
  <2>4. CASE pc[r] = "live"
    <3>1. ApplyLive(r)
      BY <1>2, <1>5, <2>4 DEF ActsFor, ArriveVote, ArriveOther, Arrive, Crash, Step, CheckRateLimit,
         Load, ListByOwner, Insert, Increment, Recount, CountBallots, GetTally, Seed, SetClosed,
         Remove, DropTally, Publish, FaultKinds
    <3>2. /\ tally' = AddBallot(tally, req[r].ballot) /\ counted' = counted
          /\ Proceed(r, "publish", doc[r])
      BY <1>2, <1>3, <3>1 DEF ApplyLive, FaultKinds, mongo
    <3>3. pc'[r] = "publish"
      BY <3>2, ProceedPost DEF TypeInv
    <3>4. AtLive' = AtLive \ {VoteDoc(r)}
      BY <2>1, <2>2, <2>4, <3>3 DEF AtLive
    <3> DEFINE X == counted \ AtLive
    <3>5. VoteDoc(r) \in counted /\ VoteDoc(r) \in AtLive
      BY <1>3, <2>4 DEF AtLive
    <3>6. counted' \ AtLive' = X \cup {VoteDoc(r)} /\ VoteDoc(r) \notin X
      BY <3>2, <3>4, <3>5
    <3>7. IsFiniteSet(X)
      BY FS_Subset DEF TypeInv, StoresOK, LedgerInv, CountedInv
    <3> HIDE DEF X
    <3>8. TallyOf(X \cup {VoteDoc(r)}) = AddBallot(TallyOf(X), req[r].ballot)
      BY <3>6, <3>7, CountOneMore DEF VoteDoc
    <3>9. tally' = TallyOf(counted' \ AtLive')
      BY <1>3, <3>2, <3>6, <3>8 DEF X
    <3>10. tally' # None
      BY <1>3, <3>2, AddBallotType, NoneAssumption DEF TypeInv, StoresOK
    <3> QED BY <1>3, <2>1, <2>3, <2>4, <3>2, <3>3, <3>9, <3>10
  <2>5. CASE pc[r] = "increment"
    <3>1. Increment(r)
      BY <1>2, <1>5, <2>5 DEF ActsFor, ArriveVote, ArriveOther, Arrive, Crash, Step, CheckRateLimit,
         Load, ListByOwner, Insert, Recount, CountBallots, ApplyLive, GetTally, Seed, SetClosed,
         Remove, DropTally, Publish, FaultKinds
    <3>2. /\ counted' = counted \cup {VoteDoc(r)} /\ tally' = tally
          /\ \E d : Proceed(r, "live", d)
      BY <1>1, <1>2, <3>1 DEF Increment, ApplyIncrement, FaultKinds, redis
    <3>3. pc'[r] = "live"
      BY <3>2, ProceedPost DEF TypeInv
    <3>4. AtLive' = AtLive \cup {VoteDoc(r)}
      BY <2>1, <2>3, <2>5, <3>3 DEF AtLive
    <3>5. VoteDoc(r) \notin counted
      BY <2>5 DEF LedgerInv, PlacesInv
    <3>6. counted' \ AtLive' = counted \ AtLive
      BY <3>2, <3>4, <3>5
    <3> QED BY <1>3, <2>1, <2>3, <2>5, <3>2, <3>3, <3>6
  <2>6. CASE pc[r] \notin {"live", "increment"}
    <3>1. /\ counted' = counted
          /\ pc[r] \notin {"seed", "recount", "countBallots", "drop"}
      BY <1>1, <1>3, <1>5, <2>6 DEF ClosingInv, ClosingOf, ActsFor, ArriveVote, ArriveOther, Arrive,
         Crash, Step, CheckRateLimit, Load, ListByOwner, Insert, Increment, Recount, CountBallots,
         ApplyLive, GetTally, Seed, SetClosed, Remove, DropTally, Publish, mongo
    <3>2. tally' = tally
      BY <1>5, <2>6, <3>1 DEF ActsFor, ArriveVote, ArriveOther, Arrive,
         Crash, Step, CheckRateLimit, Load, ListByOwner, Insert, Increment, Recount, CountBallots,
         ApplyLive, GetTally, Seed, SetClosed, Remove, DropTally, Publish, redis
    <3>3. pc'[r] \notin {"live", "seed", "recount", "countBallots"}
      <4>1. CASE ArriveVote(r) \/ ArriveOther(r)
        BY <4>1, ArrivePost
      <4>2. CASE Step(r) \/ Crash(r)
        <5>1. \/ \E s, v : Reply(r, s, v)
              \/ \E d, label : /\ label \notin {"live", "seed", "recount", "countBallots"}
                               /\ Proceed(r, label, d)
          BY <1>3, <2>6, <3>1, <4>2 DEF Step, Crash, CheckRateLimit, Load, AfterLoad, ListByOwner,
             Insert, Increment, Recount, CountBallots, ApplyLive, GetTally, Seed, SetClosed,
             Remove, DropTally, Publish
        <5> QED BY <5>1, ProceedPost, ReplyPost DEF TypeInv
      <4> QED BY <1>5, <4>1, <4>2 DEF ActsFor
    <3>4. AtLive' = AtLive
      BY <2>1, <2>6, <3>3 DEF AtLive
    <3> QED BY <1>3, <2>1, <2>6, <3>1, <3>2, <3>3, <3>4
  <2> QED BY <2>4, <2>5, <2>6
<1> QED BY <1>4, <1>5, NextSplits

LEMMA InitWarm == Init => WarmInv
<1> SUFFICES ASSUME Init, WarmStart PROVE WarmInv
  BY DEF WarmInv
<1>1. tally = ZeroTally /\ counted \ AtLive = {}
  BY DEF Init
<1>2. ZeroTally \in Tallies
  BY DEF ZeroTally, Tallies
<1> QED BY <1>1, <1>2, CountNothing, NoneAssumption DEF Init, WarmInv

\* Counters that were in Redis from the start and were never lost end up equal to the
\* durable tally, however the votes interleave: HINCRBY commutes.
THEOREM WarmCountersAgree == Spec => []WarmTallyAgrees
<1>1. TypeInv /\ LedgerInv /\ ClosingInv /\ WarmInv /\ [Next]_vars => WarmInv'
  BY NextWarm
<1>2. LedgerInv /\ WarmInv => WarmTallyAgrees
  <2> SUFFICES ASSUME LedgerInv, WarmInv, WarmStart, NoFaults, Quiet, poll # None
               PROVE  tally = poll.tally
    BY DEF WarmTallyAgrees
  <2>1. AtLive = {}
    BY DEF AtLive, Quiet, InFlight
  <2>2. counted \ AtLive = counted
    BY <2>1
  <2> QED BY <2>2 DEF WarmInv, LedgerInv, CountedInv
<1> QED BY <1>1, <1>2, InitWarm, TypeCorrect, LedgerHolds, ClosingHolds, PTL DEF Spec
=============================================================================
