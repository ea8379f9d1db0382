-------------------------- MODULE PollLedgerProofs -------------------------
(***************************************************************************)
(* Types, and what the votes collection and the cached tally of            *)
(* PollService promise, for every number of requests, voters and options,  *)
(* every budget of faults and every set of operations.                     *)
(*                                                                         *)
(* TypeOK is not inductive: that Insert writes a well-formed document      *)
(* depends on what the request asked for, and that CountBallots writes a   *)
(* number depends on the votes being finitely many.  TypeInv adds both.    *)
(*                                                                         *)
(* The invariant LedgerInv ties the documents, the requests that wrote     *)
(* them, the answers and the tally together; the safety properties and the *)
(* refinement of PollLedger follow from it.  None of the properties is     *)
(* inductive by itself.  That $inc never counts a ballot twice needs to    *)
(* know that a request about to increment has its document recorded and    *)
(* not yet counted; that a refusal leaves no trace needs to know which     *)
(* request wrote each document.                                            *)
(***************************************************************************)
EXTENDS PollServiceLedger, FiniteSetTheorems, TLAPS

\* Where only votes go, and where only votes with a legal ballot go.
VotePlaces   == {"limit", "insert", "increment", "recount", "countBallots", "live"}
BallotPlaces == {"insert", "increment", "recount", "countBallots", "live"}

\* Where votes never go.
OtherPlaces == {"list", "getTally", "setClosed", "remove", "drop"}

\* What is at place label is allowed to have asked for q.
Fits(label, q) ==
    /\ label \in VotePlaces => q.op = "vote"
    /\ label \in BallotPlaces => q.ballot \in Ballots /\ CleanSelections(q.ballot)
    /\ label \in OtherPlaces => q.op # "vote"

RequestsFit ==
    \A r \in Requests : /\ Fits(pc[r], req[r])
                        /\ req[r].op = "vote" => req[r].who \in Voters

LocalOK ==
    /\ pc \in [Requests -> Labels]
    /\ doc \in [Requests -> Polls \cup {None}]
    /\ resp \in [Requests -> [status : Statuses, view : Views \cup {None}]]
    /\ \A r \in Requests : pc[r] \in Holding => doc[r] \in Polls

StoresOK ==
    /\ poll \in Polls \cup {None}
    /\ votes \subseteq VoteDocs /\ IsFiniteSet(votes)
    /\ counted \subseteq VoteDocs
    /\ tally \in Tallies \cup {None}
    /\ events \in Seq(Events)

OthersOK ==
    /\ expired \in BOOLEAN
    /\ req \in [Requests -> RequestRecords]
    /\ faults \in [FaultKinds -> Nat]

TypeInv == LocalOK /\ StoresOK /\ OthersOK /\ RequestsFit

----------------------------------------------------------------------------
(* The data operators                                                      *)

\* One ballot more is a tally again.
LEMMA AddBallotType ==
    ASSUME NEW t \in Tallies, NEW b
    PROVE  AddBallot(t, b) \in Tallies
  BY DEF AddBallot, Tallies

\* A recount of finitely many documents counts a number for each option.
LEMMA CountsOfType ==
    ASSUME NEW D, IsFiniteSet(D)
    PROVE  CountsOf(D) \in [Options -> Nat]
<1>1. ASSUME NEW o \in Options PROVE Cardinality({d \in D : o \in d.ballot}) \in Nat
  BY FS_Subset, FS_CardinalityType, IsFiniteSet(D)
<1> QED BY <1>1 DEF CountsOf

\* A document is shown as a view.
LEMMA ViewType ==
    ASSUME NEW d \in Polls, NEW e \in BOOLEAN
    PROVE  View(d, e) \in Views
  BY DEF View, Views, Polls

\* A document with another tally is a document.
LEMMA NewTallyType ==
    ASSUME NEW d \in Polls, NEW t \in Tallies
    PROVE  [d EXCEPT !.tally = t] \in Polls
  BY DEF Polls

----------------------------------------------------------------------------
(* Moving a request                                                        *)

\* A request that moves on, with a document wherever one is needed, keeps the
\* control state well typed and the places fitting.
LEMMA ProceedType ==
    ASSUME LocalOK, RequestsFit,
           NEW r \in Requests, NEW label \in Labels, NEW d \in Polls \cup {None},
           Proceed(r, label, d), UNCHANGED req,
           label \in Holding => d \in Polls,
           Fits(label, req[r])
    PROVE  LocalOK' /\ RequestsFit'
<1>1. LocalOK'
  BY DEF LocalOK, Proceed
<1>2. RequestsFit'
  BY DEF RequestsFit, LocalOK, Proceed, Fits, CleanSelections
<1> QED BY <1>1, <1>2

\* So does a request that answers.
LEMMA ReplyType ==
    ASSUME LocalOK, RequestsFit,
           NEW r \in Requests, NEW s \in Statuses, NEW v \in Views \cup {None},
           Reply(r, s, v), UNCHANGED req
    PROVE  LocalOK' /\ RequestsFit'
<1>1. LocalOK'
  BY DEF LocalOK, Reply, Labels, Holding
<1>2. RequestsFit'
  BY DEF RequestsFit, LocalOK, Reply, Fits, VotePlaces, BallotPlaces, OtherPlaces, CleanSelections
<1> QED BY <1>1, <1>2

\* Counting a fault keeps the counters well typed.
LEMMA FaultType ==
    ASSUME faults \in [FaultKinds -> Nat], NEW k \in FaultKinds, Fault(k)
    PROVE  faults' \in [FaultKinds -> Nat]
  BY DEF Fault
----------------------------------------------------------------------------
(* Type correctness, one lemma per group of actions                        *)

\* The initial state is well typed.
LEMMA InitType == Init => TypeInv
<1> SUFFICES ASSUME Init PROVE TypeInv
  OBVIOUS
<1>1. ZeroTally \in Tallies
  BY DEF ZeroTally, Tallies
<1>2. LocalOK
  BY DEF Init, LocalOK, Labels, Holding, Statuses
<1>3. StoresOK
  <2>1. IsFiniteSet(votes)
    BY FS_EmptySet DEF Init
  <2> QED BY <1>1, <2>1 DEF Init, StoresOK, Polls
<1>4. OthersOK
  BY DEF Init, OthersOK, NoRequest, RequestRecords, Ballots
<1>5. RequestsFit
  BY DEF Init, RequestsFit, Fits, VotePlaces, BallotPlaces, OtherPlaces, NoRequest
<1> QED BY <1>2, <1>3, <1>4, <1>5 DEF TypeInv

\* A request that arrives is recorded as it asked.
LEMMA ArriveType ==
    ASSUME TypeInv, NEW r \in Requests, NEW op \in Ops,
           NEW who \in Voters \cup {Owner, Stranger}, NEW ballot \in Ballots \cup {Malformed},
           op = "vote" => who \in Voters,
           Arrive(r, op, who, ballot)
    PROVE  TypeInv'
<1> DEFINE q == [ op |-> op, who |-> who, ballot |-> ballot, late |-> expired,
                  afterClose |-> \E c \in Requests : /\ req[c].op \in {"close", "delete"}
                                                     /\ resp[c].status = "ok" ]
<1>1. q \in RequestRecords
  BY DEF TypeInv, OthersOK, RequestRecords
<1>2. req' = [req EXCEPT ![r] = q]
  BY DEF Arrive
<1>3. OthersOK'
  <2> HIDE DEF q
  <2> QED BY <1>1, <1>2 DEF TypeInv, OthersOK, Arrive
<1>4. StoresOK'
  BY DEF TypeInv, StoresOK, Arrive, mongo, redis
<1>5. /\ q.op = op /\ q.who = who /\ q.ballot = ballot
      /\ req'[r] = q /\ \A p \in Requests \ {r} : req'[p] = req[p]
  <2>1. q.op = op /\ q.who = who /\ q.ballot = ballot
    OBVIOUS
  <2> HIDE DEF q
  <2> QED BY <1>1, <1>2, <2>1 DEF TypeInv, OthersOK
<1> HIDE DEF q
<1>6. PICK label \in {"list", "limit", "load", "done"} :
         /\ label = "limit" => op = "vote"
         /\ label = "list" => op # "vote"
         /\ pc' = [pc EXCEPT ![r] = label]
         /\ doc' = [doc EXCEPT ![r] = None]
         /\ resp' = resp \/ resp' = [resp EXCEPT ![r] = [status |-> "invalid", view |-> None]]
  BY DEF Arrive, Proceed, Reply
<1>7. LocalOK'
  BY <1>6 DEF TypeInv, LocalOK, Labels, Holding, Statuses
<1>8. RequestsFit'
  BY <1>5, <1>6 DEF TypeInv, LocalOK, RequestsFit, Fits, VotePlaces, BallotPlaces, OtherPlaces,
                    CleanSelections
<1> QED BY <1>3, <1>4, <1>7, <1>8 DEF TypeInv

\* The steps that only read keep the types.
LEMMA ReadType ==
    ASSUME TypeInv, NEW r \in Requests,
           CheckRateLimit(r) \/ Load(r) \/ ListByOwner(r) \/ GetTally(r)
    PROVE  TypeInv'
<1> USE DEF TypeInv
<1>1. StoresOK'
  BY DEF StoresOK, CheckRateLimit, Load, ListByOwner, GetTally, mongo, redis
<1>2. OthersOK'
  <2>1. faults' \in [FaultKinds -> Nat]
    BY FaultType DEF OthersOK, CheckRateLimit, Load, ListByOwner, GetTally, FaultKinds
  <2> QED BY <2>1 DEF OthersOK, CheckRateLimit, Load, ListByOwner, GetTally
<1>3. UNCHANGED req
  BY DEF CheckRateLimit, Load, ListByOwner, GetTally
<1>4. CASE CheckRateLimit(r)
  <2>1. Fits("load", req[r]) /\ "load" \in Labels /\ "load" \notin Holding /\ "tooMany" \in Statuses
    BY DEF Fits, VotePlaces, BallotPlaces, OtherPlaces, Labels, Holding, Statuses
  <2> QED BY <1>1, <1>2, <1>3, <1>4, <2>1, ProceedType, ReplyType DEF CheckRateLimit
<1>5. CASE Load(r)
  <2>1. {"notFound", "internal", "pollClosed", "invalid", "forbidden"} \subseteq Statuses
    BY DEF Statuses
  <2>2. {"insert", "setClosed", "remove", "getTally"} \subseteq Labels
    BY DEF Labels
  <2>3. req[r].op # "vote"
          => \A label \in {"setClosed", "remove", "getTally"} : Fits(label, req[r])
    BY DEF Fits, VotePlaces, BallotPlaces
  <2>4. ASSUME poll # None, AfterLoad(r) PROVE LocalOK' /\ RequestsFit'
    <3>1. poll \in Polls
      BY <2>4 DEF StoresOK
    <3>2. PICK s \in {"pollClosed", "invalid", "forbidden"} :
              \/ Reply(r, s, None)
              \/ /\ req[r].op = "vote" /\ CleanSelections(req[r].ballot)
                 /\ Proceed(r, "insert", poll)
              \/ /\ req[r].op # "vote"
                 /\ \E label \in {"setClosed", "remove", "getTally"} : Proceed(r, label, poll)
      BY <2>4 DEF AfterLoad
    <3>3. CASE Reply(r, s, None)
      BY <1>3, <2>1, <3>3, ReplyType
    <3>4. CASE /\ req[r].op = "vote" /\ CleanSelections(req[r].ballot)
               /\ Proceed(r, "insert", poll)
      <4>1. req[r].ballot \in Ballots
        BY <3>4 DEF OthersOK, RequestRecords, CleanSelections
      <4>2. Fits("insert", req[r])
        BY <3>4, <4>1 DEF Fits, OtherPlaces
      <4> QED BY <1>3, <2>2, <3>1, <3>4, <4>2, ProceedType
    <3>5. CASE /\ req[r].op # "vote"
               /\ \E label \in {"setClosed", "remove", "getTally"} : Proceed(r, label, poll)
      BY <1>3, <2>2, <2>3, <3>1, <3>5, ProceedType
    <3> QED BY <3>2, <3>3, <3>4, <3>5
  <2>5. Reply(r, "notFound", None) \/ Reply(r, "internal", None) => LocalOK' /\ RequestsFit'
    BY <1>3, <2>1, ReplyType
  <2> QED BY <1>1, <1>2, <1>5, <2>4, <2>5 DEF Load
<1>6. CASE ListByOwner(r)
  <2>1. {"ok", "internal"} \subseteq Statuses
    BY DEF Statuses
  <2>2. poll # None => View(poll, expired) \in Views
    BY ViewType DEF StoresOK, OthersOK
  <2>3. PICK s \in {"ok", "internal"}, v \in Views \cup {None} : Reply(r, s, v)
    BY <1>6, <2>2 DEF ListByOwner
  <2> QED BY <1>1, <1>2, <1>3, <2>1, <2>3, ReplyType
<1>7. CASE GetTally(r)
  <2>1. doc[r] \in Polls
    BY <1>7 DEF GetTally, LocalOK, Holding
  <2>2. View(doc[r], expired) \in Views
    BY <2>1, ViewType DEF OthersOK
  <2>3. tally # None => View([doc[r] EXCEPT !.tally = tally], expired) \in Views
    BY <2>1, ViewType, NewTallyType DEF OthersOK, StoresOK
  <2>4. "ok" \in Statuses /\ "seed" \in Labels /\ Fits("seed", req[r])
    BY DEF Statuses, Labels, Fits, VotePlaces, BallotPlaces, OtherPlaces
  <2>5. CASE Proceed(r, "seed", doc[r])
    BY <1>1, <1>2, <1>3, <2>1, <2>4, <2>5, ProceedType
  <2>6. CASE \E v \in Views \cup {None} : Reply(r, "ok", v)
    BY <1>1, <1>2, <1>3, <2>4, <2>6, ReplyType
  <2> QED BY <1>7, <2>2, <2>3, <2>5, <2>6 DEF GetTally
<1> QED BY <1>4, <1>5, <1>6, <1>7
\* One recorded ballot more is still a finite set of well-formed documents.
LEMMA RecordType ==
    ASSUME TypeInv, NEW r \in Requests, pc[r] = "insert",
           votes' = votes \/ votes' = votes \cup {VoteDoc(r)}
    PROVE  votes' \subseteq VoteDocs /\ IsFiniteSet(votes')
<1>1. VoteDoc(r) \in VoteDocs
  BY DEF TypeInv, RequestsFit, Fits, VotePlaces, BallotPlaces, VoteDoc, VoteDocs
<1>2. votes \subseteq VoteDocs /\ IsFiniteSet(votes)
  BY DEF TypeInv, StoresOK
<1> QED BY <1>1, <1>2, FS_AddElement

\* The steps of a vote up to the durable tally keep the types.
LEMMA VoteType ==
    ASSUME TypeInv, NEW r \in Requests,
           Insert(r) \/ Increment(r) \/ Recount(r) \/ CountBallots(r)
    PROVE  TypeInv'
<1> USE DEF TypeInv
<1>1. OthersOK'
  <2>1. faults' \in [FaultKinds -> Nat]
    BY FaultType DEF OthersOK, Insert, Increment, Recount, CountBallots, FaultKinds
  <2> QED BY <2>1 DEF OthersOK, Insert, Increment, Recount, CountBallots
<1>2. UNCHANGED req
  BY DEF Insert, Increment, Recount, CountBallots
<1>3. /\ doc[r] \in Polls
      /\ req[r].op = "vote" /\ req[r].who \in Voters
      /\ req[r].ballot \in Ballots /\ CleanSelections(req[r].ballot)
  BY DEF LocalOK, RequestsFit, Fits, Holding, VotePlaces, BallotPlaces,
         Insert, Increment, Recount, CountBallots
<1>4. \A label \in BallotPlaces : Fits(label, req[r]) /\ label \in Labels
  BY <1>3 DEF Fits, BallotPlaces, OtherPlaces, Labels
<1>5. {"increment", "recount", "countBallots", "live"} \subseteq BallotPlaces
  BY DEF BallotPlaces
<1>6. {"alreadyVoted", "internal"} \subseteq Statuses
  BY DEF Statuses
<1>7. \A s \in {"alreadyVoted", "internal"} : Reply(r, s, None) => LocalOK' /\ RequestsFit'
  BY <1>2, <1>6, ReplyType
<1>8. \A label \in BallotPlaces, d \in Polls : Proceed(r, label, d) => LocalOK' /\ RequestsFit'
  BY <1>2, <1>4, ProceedType
<1>9. CASE Insert(r)
  <2>1. StoresOK'
    BY <1>9, RecordType DEF Insert, StoresOK, redis
  <2>2. LocalOK' /\ RequestsFit'
    BY <1>3, <1>5, <1>7, <1>8, <1>9 DEF Insert
  <2> QED BY <1>1, <2>1, <2>2
<1>10. CASE Increment(r)
  <2>1. poll # None => Incremented(r) \in Polls
    <3>1. SUFFICES ASSUME poll # None PROVE Incremented(r) \in Polls
      OBVIOUS
    <3>2. poll \in Polls /\ poll.tally \in Tallies
      BY <3>1 DEF StoresOK, Polls
    <3>3. AddBallot(poll.tally, req[r].ballot) \in Tallies
      BY <3>2, AddBallotType
    <3> QED BY <3>2, <3>3, NewTallyType DEF Incremented
  <2>2. VoteDoc(r) \in VoteDocs
    BY <1>3 DEF VoteDoc, VoteDocs
  <2>3. poll' \in Polls \cup {None} /\ counted' \subseteq VoteDocs
    BY <1>10, <2>1, <2>2 DEF Increment, ApplyIncrement, StoresOK
  <2>4. StoresOK'
    BY <1>10, <2>3 DEF Increment, StoresOK, redis
  <2>5. LocalOK' /\ RequestsFit'
    BY <1>3, <1>5, <1>8, <1>10, <2>1 DEF Increment, ApplyIncrement
  <2> QED BY <1>1, <2>4, <2>5
<1>11. CASE Recount(r)
  <2>1. CountsOf(votes) \in [Options -> Nat]
    BY CountsOfType DEF StoresOK
  <2>2. [doc[r] EXCEPT !.tally.counts = CountsOf(votes)] \in Polls
    BY <1>3, <2>1 DEF Polls, Tallies
  <2>3. LocalOK' /\ RequestsFit'
    BY <1>5, <1>7, <1>8, <1>11, <2>2 DEF Recount
  <2>4. StoresOK'
    BY <1>11 DEF Recount, StoresOK, mongo, redis
  <2> QED BY <1>1, <2>3, <2>4
<1>12. CASE CountBallots(r)
  <2>1. Cardinality(votes) \in Nat
    BY FS_CardinalityType DEF StoresOK
  <2>2. [doc[r] EXCEPT !.tally.ballots = Cardinality(votes)] \in Polls
    BY <1>3, <2>1 DEF Polls, Tallies
  <2>3. LocalOK' /\ RequestsFit'
    BY <1>5, <1>7, <1>8, <1>12, <2>2 DEF CountBallots
  <2>4. StoresOK'
    BY <1>12 DEF CountBallots, StoresOK, mongo, redis
  <2> QED BY <1>1, <2>3, <2>4
<1> QED BY <1>9, <1>10, <1>11, <1>12

\* The steps that write to Redis keep the types.
LEMMA LiveType ==
    ASSUME TypeInv, NEW r \in Requests,
           ApplyLive(r) \/ Seed(r) \/ DropTally(r) \/ Publish(r)
    PROVE  TypeInv'
<1> USE DEF TypeInv
<1>1. OthersOK'
  <2>1. faults' \in [FaultKinds -> Nat]
    BY FaultType DEF OthersOK, ApplyLive, Seed, DropTally, Publish, FaultKinds
  <2> QED BY <2>1 DEF OthersOK, ApplyLive, Seed, DropTally, Publish
<1>2. UNCHANGED req
  BY DEF ApplyLive, Seed, DropTally, Publish
<1>3. doc[r] \in Polls /\ doc[r].tally \in Tallies
  BY DEF LocalOK, Holding, Polls, ApplyLive, Seed, DropTally, Publish
<1>4. \A label \in {"publish", "seed"} : Proceed(r, label, doc[r]) => LocalOK' /\ RequestsFit'
  <2>1. \A label \in {"publish", "seed"} : label \in Labels /\ Fits(label, req[r])
    BY DEF Labels, Fits, VotePlaces, BallotPlaces, OtherPlaces
  <2> QED BY <1>2, <1>3, <2>1, ProceedType
<1>5. \A e \in BOOLEAN : View(doc[r], e) \in Views
  BY <1>3, ViewType
<1>6. expired \in BOOLEAN /\ req[r].late \in BOOLEAN
  BY DEF OthersOK, RequestRecords
<1>7. tally # None => AddBallot(tally, req[r].ballot) \in Tallies
  BY AddBallotType DEF StoresOK
<1>8. {"ok", "created"} \subseteq Statuses
  BY DEF Statuses
<1>9. \A s \in {"ok", "created"}, v \in Views \cup {None} : Reply(r, s, v) => LocalOK' /\ RequestsFit'
  BY <1>2, <1>8, ReplyType
<1>10. CASE ApplyLive(r)
  BY <1>1, <1>4, <1>7, <1>10 DEF ApplyLive, StoresOK, mongo
<1>11. CASE Seed(r)
  <2>1. LocalOK' /\ RequestsFit'
    BY <1>4, <1>5, <1>6, <1>9, <1>11 DEF Seed
  <2> QED BY <1>1, <1>3, <1>11, <2>1 DEF Seed, StoresOK, mongo
<1>12. CASE DropTally(r)
  BY <1>1, <1>4, <1>12 DEF DropTally, StoresOK, mongo
<1>13. CASE Publish(r)
  <2>1. EventOf(r) \in Events /\ EventOf(r).view \in Views \cup {None}
    BY <1>5, <1>6 DEF EventOf, Events
  <2>2. AnswerOf(r) \in {"ok", "created"}
    BY DEF AnswerOf
  <2>3. LocalOK' /\ RequestsFit'
    BY <1>9, <1>13, <2>1, <2>2 DEF Publish
  <2>4. events' \in Seq(Events)
    BY <1>13, <2>1 DEF Publish, StoresOK
  <2> QED BY <1>1, <1>13, <2>3, <2>4 DEF Publish, StoresOK, mongo
<1> QED BY <1>10, <1>11, <1>12, <1>13

\* Closing and deleting keep the types.
LEMMA OwnerType ==
    ASSUME TypeInv, NEW r \in Requests, SetClosed(r) \/ Remove(r)
    PROVE  TypeInv'
<1> USE DEF TypeInv
<1>1. OthersOK'
  <2>1. faults' \in [FaultKinds -> Nat]
    BY FaultType DEF OthersOK, SetClosed, Remove, FaultKinds
  <2> QED BY <2>1 DEF OthersOK, SetClosed, Remove
<1>2. doc[r] \in Polls
  BY DEF LocalOK, Holding, SetClosed, Remove
<1>3. poll # None => Closed \in Polls
  BY DEF StoresOK, Polls, Closed
<1>4. StoresOK'
  BY <1>3 DEF SetClosed, Remove, StoresOK, redis
<1>0. req[r].op # "vote"
  BY DEF RequestsFit, Fits, OtherPlaces, SetClosed, Remove
<1>5. /\ {"publish", "drop"} \subseteq Labels
      /\ \A label \in {"publish", "drop"} : Fits(label, req[r])
      /\ {"notFound", "internal"} \subseteq Statuses
  BY <1>0 DEF Labels, Fits, VotePlaces, BallotPlaces, Statuses
<1>6. UNCHANGED req
  BY DEF SetClosed, Remove
<1>7. PICK s \in {"notFound", "internal"}, label \in {"publish", "drop"}, d \in Polls :
         Reply(r, s, None) \/ Proceed(r, label, d)
  BY <1>2, <1>3 DEF SetClosed, Remove
<1>8. LocalOK' /\ RequestsFit'
  BY <1>5, <1>6, <1>7, ProceedType, ReplyType
<1> QED BY <1>1, <1>4, <1>8

\* The environment keeps the types.
LEMMA EnvironmentType ==
    ASSUME TypeInv, Expire \/ LoseTally \/ \E r \in Requests : Crash(r)
    PROVE  TypeInv'
<1> USE DEF TypeInv
<1>1. CASE Expire
  BY <1>1 DEF Expire, LocalOK, StoresOK, OthersOK, RequestsFit, mongo, redis, local
<1>2. CASE LoseTally
  <2>1. faults' \in [FaultKinds -> Nat]
    BY <1>2, FaultType DEF LoseTally, OthersOK, FaultKinds
  <2> QED BY <1>2, <2>1 DEF LoseTally, LocalOK, StoresOK, OthersOK, RequestsFit, mongo, local
<1>3. CASE \E r \in Requests : Crash(r)
  <2>1. PICK r \in Requests : Crash(r)
    BY <1>3
  <2>2. faults' \in [FaultKinds -> Nat]
    BY <2>1, FaultType DEF Crash, OthersOK, FaultKinds
  <2>3. "lost" \in Statuses
    BY DEF Statuses
  <2>4. LocalOK' /\ RequestsFit'
    BY <2>1, <2>3, ReplyType DEF Crash
  <2> QED BY <2>1, <2>2, <2>4 DEF Crash, StoresOK, OthersOK, mongo, redis
<1> QED BY <1>1, <1>2, <1>3

\* What a stuttering step leaves alone stays well typed.
LEMMA StutterType ==
    ASSUME TypeInv, UNCHANGED vars
    PROVE  TypeInv'
  BY DEF TypeInv, LocalOK, StoresOK, OthersOK, RequestsFit, vars

\* Every step keeps the types.
LEMMA NextType ==
    ASSUME TypeInv, [Next]_vars
    PROVE  TypeInv'
<1>1. ASSUME NEW r \in Requests, ArriveVote(r) PROVE TypeInv'
  BY <1>1, ArriveType DEF ArriveVote, Ops
<1>2. ASSUME NEW r \in Requests, ArriveOther(r) PROVE TypeInv'
  <2>1. PICK op \in Ops, who \in {Owner, Stranger} : op # "vote" /\ Arrive(r, op, who, {})
    BY <1>2 DEF ArriveOther, Ops
  <2> QED BY <2>1, ArriveType DEF Ballots
<1>3. ASSUME NEW r \in Requests, Step(r) PROVE TypeInv'
  BY <1>3, ReadType, VoteType, LiveType, OwnerType DEF Step
<1> QED BY <1>1, <1>2, <1>3, EnvironmentType, StutterType DEF Next

\* Every variable keeps its type, and a request past its load holds a document, in
\* every execution of the service.
THEOREM TypeCorrect == Spec => []TypeInv
<1>1. TypeInv /\ [Next]_vars => TypeInv'
  BY NextType
<1> QED BY InitType, <1>1, PTL DEF Spec

\* The type invariant that the runs check.
THEOREM TypesHold == Spec => []TypeOK
<1>1. TypeInv => TypeOK
  BY DEF TypeInv, LocalOK, StoresOK, OthersOK, TypeOK
<1> QED BY <1>1, TypeCorrect, PTL

-----------------------------------------------------------------------------
(* The ledger                                                              *)


\* A vote at this place has recorded its ballot.
PastInsert(label, op) ==
    \/ label \in {"increment", "recount", "countBallots", "live"}
    \/ op = "vote" /\ label \in {"seed", "publish"}

CountedInv ==
    /\ counted \subseteq votes
    /\ poll # None => poll.tally = TallyOf(counted)

DocsInv ==
    \A d \in votes : /\ d = VoteDoc(d.id)
                     /\ req[d.id].op = "vote"
                     /\ PastInsert(pc[d.id], "vote") \/ pc[d.id] = "done"

PlacesInv ==
    \A r \in Requests : /\ PastInsert(pc[r], req[r].op) => VoteDoc(r) \in votes
                        /\ pc[r] = "increment" => VoteDoc(r) \notin counted
                        /\ pc[r] = "idle" => req[r] = NoRequest

AnswersInv ==
    \A r \in Requests : /\ pc[r] # "done" => resp[r].status = "none"
                        /\ resp[r].status = "created" => VoteDoc(r) \in votes

LedgerInv ==
    /\ CountedInv
    /\ DocsInv
    /\ PlacesInv
    /\ AnswersInv
    /\ AnswersMatchTheLedger
    /\ OneLegalBallotPerVoter

----------------------------------------------------------------------------
(* Counting documents                                                      *)

\* The tally of one document more is the tally with its ballot added: this is why
\* $inc and a recount agree.
LEMMA CountOneMore ==
    ASSUME NEW D, IsFiniteSet(D), NEW d, d \notin D
    PROVE  TallyOf(D \cup {d}) = AddBallot(TallyOf(D), d.ballot)
<1>1. Cardinality(D \cup {d}) = Cardinality(D) + 1
  BY FS_AddElement
<1>2. ASSUME NEW o \in Options
      PROVE  Cardinality({x \in D \cup {d} : o \in x.ballot})
               = IF o \in d.ballot THEN Cardinality({x \in D : o \in x.ballot}) + 1
                                   ELSE Cardinality({x \in D : o \in x.ballot})
  <2> DEFINE E == {x \in D : o \in x.ballot}
  <2>1. IsFiniteSet(E) /\ d \notin E
    BY FS_Subset
  <2>2. CASE o \in d.ballot
    <3>1. {x \in D \cup {d} : o \in x.ballot} = E \cup {d}
      BY <2>2
    <3> HIDE DEF E
    <3>2. Cardinality(E \cup {d}) = Cardinality(E) + 1
      BY <2>1, FS_AddElement
    <3> QED BY <2>2, <3>1, <3>2 DEF E
  <2>3. CASE o \notin d.ballot
    <3>1. {x \in D \cup {d} : o \in x.ballot} = E
      BY <2>3
    <3> QED BY <2>3, <3>1
  <2> QED BY <2>2, <2>3
<1>3. CountsOf(D \cup {d})
        = [o \in Options |-> IF o \in d.ballot THEN CountsOf(D)[o] + 1 ELSE CountsOf(D)[o]]
  BY <1>2 DEF CountsOf
<1>4. TallyOf(D) = [counts |-> CountsOf(D), ballots |-> Cardinality(D)]
  BY DEF TallyOf
<1> QED BY <1>1, <1>3, <1>4 DEF TallyOf, AddBallot

\* Fewer documents, smaller tally.
LEMMA TallyMonotone ==
    ASSUME NEW D, IsFiniteSet(D), NEW C \in SUBSET D
    PROVE  AtMost(TallyOf(C), TallyOf(D))
<1>1. Cardinality(C) <= Cardinality(D)
  BY FS_Subset
<1>2. ASSUME NEW o \in Options
      PROVE  Cardinality({x \in C : o \in x.ballot}) <= Cardinality({x \in D : o \in x.ballot})
  <2>1. IsFiniteSet({x \in D : o \in x.ballot})
    BY FS_Subset
  <2>2. {x \in C : o \in x.ballot} \subseteq {x \in D : o \in x.ballot}
    OBVIOUS
  <2> QED BY <2>1, <2>2, FS_Subset
<1> QED BY <1>1, <1>2 DEF AtMost, TallyOf, CountsOf

\* Nothing counted yet is the tally a poll is created with.
LEMMA CountNothing == TallyOf({}) = ZeroTally
<1>1. Cardinality({}) = 0 /\ \A o \in Options : {x \in {} : o \in x.ballot} = {}
  BY FS_EmptySet
<1> QED BY <1>1 DEF TallyOf, CountsOf, ZeroTally

----------------------------------------------------------------------------
(* The invariant                                                           *)

\* Nothing is recorded, asked or answered at the start.
LEMMA InitLedger == Init => LedgerInv
<1> SUFFICES ASSUME Init PROVE LedgerInv
  OBVIOUS
<1>1. CountedInv
  BY CountNothing DEF Init, CountedInv
<1>2. DocsInv /\ OneLegalBallotPerVoter
  BY DEF Init, DocsInv, OneLegalBallotPerVoter
<1>3. PlacesInv /\ AnswersInv
  BY DEF Init, PlacesInv, AnswersInv, PastInsert, NoRequest
<1>4. AnswersMatchTheLedger
  BY DEF Init, AnswersMatchTheLedger, NoRequest
<1> QED BY <1>1, <1>2, <1>3, <1>4 DEF LedgerInv

\* A step of request r that records and counts nothing keeps the invariant, if it
\* neither enters nor leaves the places past the insert except by answering, and
\* answers only what the ledger says.
LEMMA MoveLedger ==
    ASSUME TypeInv, LedgerInv, NEW r \in Requests, NEW label \in Labels, NEW s \in Statuses,
           UNCHANGED <<votes, counted, req>>,
           poll' # None => poll # None /\ poll'.tally = poll.tally,
           pc[r] # "idle", pc[r] # "done", label # "idle", label # "increment",
           pc' = [pc EXCEPT ![r] = label],
           \/ label # "done" /\ resp' = resp
           \/ label = "done" /\ \E v : resp' = [resp EXCEPT ![r] = [status |-> s, view |-> v]],
           label # "done" => (PastInsert(pc[r], req[r].op) <=> PastInsert(label, req[r].op)),
           label = "done" /\ s = "created" => PastInsert(pc[r], req[r].op),
           label = "done" /\ s \in Refusals => ~PastInsert(pc[r], req[r].op),
           label = "done" /\ s = "alreadyVoted" => HasVoted(req[r].who)
    PROVE  LedgerInv'
<1> USE DEF LedgerInv
<1>1. /\ pc'[r] = label
      /\ \A q \in Requests \ {r} : pc'[q] = pc[q] /\ resp'[q] = resp[q]
      /\ label # "done" => resp'[r] = resp[r]
      /\ label = "done" => resp'[r].status = s
  BY DEF TypeInv, LocalOK
<1>2. \A q \in Requests : VoteDoc(q)' = VoteDoc(q)
  BY DEF VoteDoc
<1>3. CountedInv'
  BY DEF CountedInv, TallyOf, CountsOf
<1>4. \A d \in votes : d.id \in Requests
  BY DEF TypeInv, StoresOK, VoteDocs
<1>5. DocsInv'
  <2>1. SUFFICES ASSUME NEW d \in votes
                 PROVE  /\ d = VoteDoc(d.id) /\ req[d.id].op = "vote"
                        /\ PastInsert(pc'[d.id], "vote") \/ pc'[d.id] = "done"
    BY <1>2, <1>4 DEF DocsInv, PastInsert
  <2>2. d = VoteDoc(d.id) /\ req[d.id].op = "vote"
    BY DEF DocsInv
  <2>3. PastInsert(pc[d.id], "vote") \/ pc[d.id] = "done"
    BY DEF DocsInv
  <2> QED BY <1>1, <1>4, <2>2, <2>3
<1>6. PlacesInv'
  BY <1>1, <1>2 DEF PlacesInv, PastInsert
<1>7. AnswersInv'
  BY <1>1, <1>2 DEF AnswersInv, PlacesInv
<1>8. AnswersMatchTheLedger'
  <2>1. SUFFICES ASSUME NEW q \in Requests, req[q].op = "vote"
                 PROVE  /\ resp'[q].status = "created" => VoteDoc(q) \in votes
                        /\ resp'[q].status \in Refusals => ~RecordedBy(q)
                        /\ resp'[q].status = "alreadyVoted" => HasVoted(req[q].who)
    BY <1>2 DEF AnswersMatchTheLedger, RecordedBy, HasVoted
  <2>2. CASE q # r \/ label # "done"
    BY <1>1, <2>1, <2>2 DEF AnswersMatchTheLedger
  <2>3. CASE q = r /\ label = "done"
    <3>1. s = "created" => VoteDoc(q) \in votes
      BY <2>3 DEF PlacesInv
    <3>2. s \in Refusals => ~RecordedBy(q)
      BY <2>1, <2>3 DEF DocsInv, RecordedBy
    <3> QED BY <1>1, <2>3, <3>1, <3>2
  <2> QED BY <2>2, <2>3
<1>9. OneLegalBallotPerVoter'
  BY DEF OneLegalBallotPerVoter, CleanSelections
<1> QED BY <1>3, <1>5, <1>6, <1>7, <1>8, <1>9
\* A request that arrives has recorded and been told nothing yet.
LEMMA ArriveLedger ==
    ASSUME TypeInv, LedgerInv, NEW r \in Requests, NEW op \in Ops,
           NEW who \in Voters \cup {Owner, Stranger}, NEW ballot \in Ballots \cup {Malformed},
           Arrive(r, op, who, ballot)
    PROVE  LedgerInv'
<1> USE DEF LedgerInv
<1>1. pc[r] = "idle" /\ UNCHANGED <<poll, votes, counted>>
  BY DEF Arrive, mongo
<1>2. \A d \in votes : d.id \in Requests /\ d.id # r
  BY <1>1 DEF DocsInv, PastInsert, TypeInv, StoresOK, VoteDocs
<1>3. PICK label \in {"list", "limit", "load", "done"} :
         /\ pc' = [pc EXCEPT ![r] = label]
         /\ \E q : req' = [req EXCEPT ![r] = q]
         /\ \/ label # "done" /\ resp' = resp
            \/ label = "done" /\ resp' = [resp EXCEPT ![r] = [status |-> "invalid", view |-> None]]
  BY DEF Arrive, Proceed, Reply
<1>4. /\ pc'[r] = label
      /\ \A p \in Requests \ {r} : pc'[p] = pc[p] /\ req'[p] = req[p] /\ resp'[p] = resp[p]
      /\ resp'[r].status = IF label = "done" THEN "invalid" ELSE "none"
  BY <1>1, <1>3 DEF TypeInv, LocalOK, OthersOK, AnswersInv
<1>5. \A p \in Requests \ {r} : VoteDoc(p)' = VoteDoc(p)
  BY <1>4 DEF VoteDoc
<1>6. CountedInv'
  BY <1>1 DEF CountedInv, TallyOf, CountsOf
<1>7. DocsInv'
  <2>1. SUFFICES ASSUME NEW d \in votes
                 PROVE  /\ d = VoteDoc(d.id)' /\ req'[d.id].op = "vote"
                        /\ PastInsert(pc'[d.id], "vote") \/ pc'[d.id] = "done"
    BY <1>1 DEF DocsInv, PastInsert
  <2>2. /\ d = VoteDoc(d.id) /\ req[d.id].op = "vote"
        /\ PastInsert(pc[d.id], "vote") \/ pc[d.id] = "done"
    BY DEF DocsInv
  <2> QED BY <1>2, <1>4, <1>5, <2>2
<1>8. PlacesInv'
  BY <1>1, <1>4, <1>5 DEF PlacesInv, PastInsert
<1>9. AnswersInv'
  BY <1>1, <1>4, <1>5 DEF AnswersInv
<1>10. AnswersMatchTheLedger'
  <2>1. ASSUME NEW p \in Requests \ {r}, req'[p].op = "vote"
        PROVE  /\ resp'[p].status = "created" => VoteDoc(p)' \in votes
               /\ resp'[p].status \in Refusals => ~RecordedBy(p)
               /\ resp'[p].status = "alreadyVoted" => HasVoted(req'[p].who)
    BY <1>4, <1>5, <2>1 DEF AnswersMatchTheLedger
  <2>2. ~RecordedBy(r)
    BY <1>2 DEF RecordedBy
  <2> QED BY <1>1, <1>4, <2>1, <2>2 DEF AnswersMatchTheLedger, RecordedBy, HasVoted
<1>11. OneLegalBallotPerVoter'
  BY <1>1 DEF OneLegalBallotPerVoter, CleanSelections
<1> QED BY <1>6, <1>7, <1>8, <1>9, <1>10, <1>11

\* Recording a ballot: the voter had none, the request had recorded none, and what
\* is recorded is not counted.
LEMMA RecordLedger ==
    ASSUME TypeInv, LedgerInv, NEW r \in Requests, pc[r] = "insert",
           ~HasVoted(req[r].who), votes' = votes \cup {VoteDoc(r)},
           UNCHANGED <<poll, counted, req>>,
           \/ pc' = [pc EXCEPT ![r] = "increment"] /\ resp' = resp
           \/ /\ pc' = [pc EXCEPT ![r] = "done"]
              /\ resp' = [resp EXCEPT ![r] = [status |-> "internal", view |-> None]]
    PROVE  LedgerInv'
<1> USE DEF LedgerInv
<1>1. /\ pc'[r] \in {"increment", "done"}
      /\ \A q \in Requests \ {r} : pc'[q] = pc[q] /\ resp'[q] = resp[q]
      /\ resp'[r].status \in {"none", "internal"}
      /\ pc'[r] # "done" => resp'[r].status = "none"
  BY DEF TypeInv, LocalOK, AnswersInv
<1>2. \A q \in Requests : VoteDoc(q)' = VoteDoc(q)
  BY DEF VoteDoc
<1>3. req[r].op = "vote" /\ CleanSelections(req[r].ballot)
  BY DEF TypeInv, RequestsFit, Fits, VotePlaces, BallotPlaces
<1>4. VoteDoc(r).id = r /\ VoteDoc(r).voter = req[r].who /\ VoteDoc(r).ballot = req[r].ballot
  BY DEF VoteDoc
<1>5. \A d \in votes : d.id \in Requests /\ d.id # r
  BY DEF DocsInv, PastInsert, TypeInv, StoresOK, VoteDocs
<1>6. VoteDoc(r) \notin counted
  BY <1>4, <1>5 DEF CountedInv
<1>7. CountedInv'
  BY DEF CountedInv, TallyOf, CountsOf
<1>8. DocsInv'
  <2>1. SUFFICES ASSUME NEW d \in votes'
                 PROVE  /\ d = VoteDoc(d.id) /\ req[d.id].op = "vote" /\ d.id \in Requests
                        /\ PastInsert(pc'[d.id], "vote") \/ pc'[d.id] = "done"
    BY <1>2 DEF DocsInv, PastInsert
  <2>2. CASE d \in votes
    <3>1. /\ d = VoteDoc(d.id) /\ req[d.id].op = "vote"
          /\ PastInsert(pc[d.id], "vote") \/ pc[d.id] = "done"
      BY <2>2 DEF DocsInv
    <3> QED BY <1>1, <1>5, <2>2, <3>1
  <2>3. CASE d = VoteDoc(r)
    BY <1>1, <1>3, <1>4, <2>3 DEF PastInsert
  <2> QED BY <2>2, <2>3
<1>9. PlacesInv'
  BY <1>1, <1>2, <1>6 DEF PlacesInv, PastInsert
<1>10. AnswersInv'
  BY <1>1, <1>2 DEF AnswersInv
<1>11. AnswersMatchTheLedger'
  <2>1. SUFFICES ASSUME NEW q \in Requests, req[q].op = "vote"
                 PROVE  /\ resp'[q].status = "created" => VoteDoc(q) \in votes'
                        /\ resp'[q].status \in Refusals => \A d \in votes' : d.id # q
                        /\ resp'[q].status = "alreadyVoted"
                             => \E d \in votes' : d.voter = req[q].who
    BY <1>2 DEF AnswersMatchTheLedger, RecordedBy, HasVoted
  <2>2. CASE q = r
    BY <1>1, <2>2 DEF Refusals
  <2>3. CASE q # r
    BY <1>1, <1>4, <2>1, <2>3 DEF AnswersMatchTheLedger, RecordedBy, HasVoted
  <2> QED BY <2>2, <2>3
<1>12. OneLegalBallotPerVoter'
  <2>1. \A d \in votes : d.voter # VoteDoc(r).voter
    BY <1>4 DEF HasVoted
  <2> QED BY <1>3, <1>4, <2>1 DEF OneLegalBallotPerVoter, CleanSelections
<1> QED BY <1>7, <1>8, <1>9, <1>10, <1>11, <1>12

\* Counting a ballot: it is recorded and was not counted before.
LEMMA CountLedger ==
    ASSUME TypeInv, LedgerInv, NEW r \in Requests, pc[r] = "increment",
           ApplyIncrement(r), UNCHANGED <<votes, req, resp>>,
           NEW label \in {"live", "recount"}, pc' = [pc EXCEPT ![r] = label]
    PROVE  LedgerInv'
<1> USE DEF LedgerInv
<1>1. pc'[r] = label /\ \A q \in Requests \ {r} : pc'[q] = pc[q]
  BY DEF TypeInv, LocalOK
<1>2. \A q \in Requests : VoteDoc(q)' = VoteDoc(q) /\ VoteDoc(q).id = q
  BY DEF VoteDoc
<1>3. VoteDoc(r) \in votes /\ VoteDoc(r) \notin counted
  BY DEF PlacesInv, PastInsert
<1>4. CountedInv'
  <2>1. IsFiniteSet(counted)
    BY FS_Subset DEF TypeInv, StoresOK, CountedInv
  <2>2. TallyOf(counted \cup {VoteDoc(r)}) = AddBallot(TallyOf(counted), req[r].ballot)
    BY <1>3, <2>1, CountOneMore DEF VoteDoc
  <2>3. poll # None /\ poll \in Polls
    BY DEF ApplyIncrement, TypeInv, StoresOK
  <2>4. poll'.tally = AddBallot(poll.tally, req[r].ballot)
    BY <2>3 DEF ApplyIncrement, Incremented, Polls
  <2>5. counted' = counted \cup {VoteDoc(r)}
    BY DEF ApplyIncrement
  <2>6. poll'.tally = TallyOf(counted')
    BY <2>2, <2>3, <2>4, <2>5 DEF CountedInv
  <2>7. counted' \subseteq votes'
    BY <1>3, <2>5 DEF CountedInv
  <2>8. TallyOf(counted)' = TallyOf(counted')
    BY DEF TallyOf, CountsOf
  <2> QED BY <2>6, <2>7, <2>8 DEF CountedInv
<1>5. DocsInv'
  <2>1. SUFFICES ASSUME NEW d \in votes
                 PROVE  /\ d = VoteDoc(d.id) /\ req[d.id].op = "vote" /\ d.id \in Requests
                        /\ PastInsert(pc'[d.id], "vote") \/ pc'[d.id] = "done"
    BY <1>2 DEF DocsInv, PastInsert
  <2>2. /\ d = VoteDoc(d.id) /\ req[d.id].op = "vote" /\ d.id \in Requests
        /\ PastInsert(pc[d.id], "vote") \/ pc[d.id] = "done"
    BY DEF DocsInv, TypeInv, StoresOK, VoteDocs
  <2>3. PastInsert(label, "vote")
    BY DEF PastInsert
  <2> QED BY <1>1, <2>2, <2>3
<1>6. PlacesInv'
  <2>1. SUFFICES ASSUME NEW q \in Requests
                 PROVE  /\ PastInsert(pc'[q], req[q].op) => VoteDoc(q) \in votes
                        /\ pc'[q] = "increment" => VoteDoc(q) \notin counted'
                        /\ pc'[q] = "idle" => req[q] = NoRequest
    BY <1>2 DEF PlacesInv, PastInsert, NoRequest
  <2>2. CASE q = r
    BY <1>1, <1>3, <2>2
  <2>3. CASE q # r
    BY <1>1, <1>2, <2>3 DEF PlacesInv, ApplyIncrement
  <2> QED BY <2>2, <2>3
<1>7. AnswersInv'
  BY <1>1, <1>2 DEF AnswersInv
<1>8. AnswersMatchTheLedger'
  BY <1>2 DEF AnswersMatchTheLedger, RecordedBy, HasVoted
<1>9. OneLegalBallotPerVoter'
  BY DEF OneLegalBallotPerVoter, CleanSelections
<1> QED BY <1>4, <1>5, <1>6, <1>7, <1>8, <1>9
\* Steps that write nothing but pass on, or answer, or close, or delete.
LEMMA OtherLedger ==
    ASSUME TypeInv, LedgerInv, NEW r \in Requests,
           \/ CheckRateLimit(r) \/ Load(r) \/ ListByOwner(r) \/ GetTally(r)
           \/ Recount(r) \/ CountBallots(r) \/ ApplyLive(r) \/ Seed(r)
           \/ SetClosed(r) \/ Remove(r) \/ DropTally(r) \/ Publish(r)
           \/ Crash(r)
    PROVE  LedgerInv'
<1> USE DEF PastInsert, Proceed, Reply, mongo
<1>1. /\ {"ok", "created", "internal", "tooMany", "notFound", "pollClosed", "invalid",
           "forbidden", "lost"} \subseteq Statuses
      /\ {"load", "insert", "setClosed", "remove", "getTally", "seed", "countBallots",
           "live", "publish", "drop", "done"} \subseteq Labels
  BY DEF Statuses, Labels
<1>2. Fits(pc[r], req[r])
  BY DEF TypeInv, RequestsFit
<1>3. CASE CheckRateLimit(r)
  BY <1>1, <1>3, MoveLedger DEF CheckRateLimit
<1>4. CASE Load(r)
  <2>1. UNCHANGED <<poll, votes, counted, req>> /\ pc[r] = "load"
    BY <1>4 DEF Load
  <2>2. PICK s, label, d :
           /\ s \in {"pollClosed", "invalid", "forbidden", "notFound", "internal"}
           /\ label \in {"insert", "setClosed", "remove", "getTally"}
           /\ Reply(r, s, None) \/ Proceed(r, label, d)
    BY <1>4 DEF Load, AfterLoad
  <2> QED BY <1>1, <2>1, <2>2, MoveLedger DEF Refusals
<1>5. CASE ListByOwner(r)
  BY <1>1, <1>5, MoveLedger DEF ListByOwner, Refusals
<1>6. CASE GetTally(r)
  <2>1. UNCHANGED <<poll, votes, counted, req>> /\ pc[r] = "getTally"
    BY <1>6 DEF GetTally
  <2>2. req[r].op # "vote"
    BY <1>2, <2>1 DEF Fits, OtherPlaces
  <2> QED BY <1>1, <1>6, <2>1, <2>2, MoveLedger DEF GetTally, Refusals
<1>7. CASE Recount(r)
  BY <1>1, <1>7, MoveLedger DEF Recount, Refusals
<1>8. CASE CountBallots(r)
  BY <1>1, <1>8, MoveLedger DEF CountBallots, Refusals
<1>9. CASE ApplyLive(r)
  <2>1. UNCHANGED <<poll, votes, counted, req>> /\ pc[r] = "live" /\ req[r].op = "vote"
    BY <1>2, <1>9 DEF ApplyLive, Fits, VotePlaces
  <2> QED BY <1>1, <1>9, <2>1, MoveLedger DEF ApplyLive
<1>10. CASE Seed(r)
  <2>1. UNCHANGED <<poll, votes, counted, req>> /\ pc[r] = "seed"
    BY <1>10 DEF Seed
  <2> QED BY <1>1, <1>10, <2>1, MoveLedger DEF Seed, Refusals
<1>11. CASE SetClosed(r) \/ Remove(r)
  <2>1. /\ UNCHANGED <<votes, counted, req>> /\ pc[r] \in {"setClosed", "remove"}
        /\ poll' # None => poll # None /\ poll'.tally = poll.tally
    BY <1>11 DEF SetClosed, Remove, Closed, TypeInv, StoresOK, Polls
  <2>2. PICK s, label, d :
           /\ s \in {"notFound", "internal"} /\ label \in {"publish", "drop"}
           /\ Reply(r, s, None) \/ Proceed(r, label, d)
    BY <1>11 DEF SetClosed, Remove
  <2>3. req[r].op # "vote"
    BY <1>2, <2>1 DEF Fits, OtherPlaces
  <2> QED BY <1>1, <2>1, <2>2, <2>3, MoveLedger DEF Refusals
<1>12. CASE DropTally(r)
  <2>1. req[r].op # "vote"
    BY <1>2, <1>12 DEF Fits, OtherPlaces, DropTally
  <2> QED BY <1>1, <1>12, <2>1, MoveLedger DEF DropTally
<1>13. CASE Publish(r)
  <2>1. UNCHANGED <<poll, votes, counted, req>> /\ pc[r] = "publish"
    BY <1>13 DEF Publish
  <2>2. PICK v : Reply(r, AnswerOf(r), v)
    BY <1>13 DEF Publish
  <2> QED BY <1>1, <2>1, <2>2, MoveLedger DEF AnswerOf, Refusals
<1>14. CASE Crash(r)
  BY <1>1, <1>14, MoveLedger DEF Crash, InFlight, Refusals
<1> QED BY <1>3, <1>4, <1>5, <1>6, <1>7, <1>8, <1>9, <1>10, <1>11, <1>12, <1>13, <1>14
\* votes.Create keeps the invariant: the unique index is what does it.
LEMMA InsertLedger ==
    ASSUME TypeInv, LedgerInv, NEW r \in Requests, Insert(r)
    PROVE  LedgerInv'
<1> USE DEF Proceed, Reply
<1>1. pc[r] = "insert" /\ UNCHANGED <<poll, counted, req>>
  BY DEF Insert
<1>2. CASE HasVoted(req[r].who) /\ Reply(r, "alreadyVoted", None) /\ UNCHANGED votes
  BY <1>1, <1>2, MoveLedger DEF Statuses, Labels, PastInsert
<1>3. CASE Reply(r, "internal", None) /\ UNCHANGED votes
  BY <1>1, <1>3, MoveLedger DEF Statuses, Labels, PastInsert, Refusals
<1>4. CASE /\ ~HasVoted(req[r].who) /\ votes' = votes \cup {VoteDoc(r)}
           /\ Reply(r, "internal", None) \/ Proceed(r, "increment", doc[r])
  BY <1>1, <1>4, RecordLedger
<1> QED BY <1>2, <1>3, <1>4 DEF Insert

\* polls.IncrementCounts keeps the invariant, also when its answer is lost.
LEMMA IncrementLedger ==
    ASSUME TypeInv, LedgerInv, NEW r \in Requests, Increment(r)
    PROVE  LedgerInv'
<1> USE DEF Proceed, Reply
<1>1. pc[r] = "increment" /\ UNCHANGED <<votes, req>>
  BY DEF Increment
<1>2. PICK label, d : label \in {"live", "recount"} /\ Proceed(r, label, d)
  BY DEF Increment
<1>3. CASE ApplyIncrement(r)
  BY <1>1, <1>2, <1>3, CountLedger
<1>4. CASE UNCHANGED <<poll, counted>>
  BY <1>1, <1>2, <1>4, MoveLedger DEF Statuses, Labels, PastInsert
<1> QED BY <1>3, <1>4 DEF Increment

\* What leaves the collections, the places and the answers alone keeps the invariant.
LEMMA StutterLedger ==
    ASSUME LedgerInv, UNCHANGED <<poll, votes, counted, pc, req, resp>>
    PROVE  LedgerInv'
<1> USE DEF LedgerInv
<1>1. CountedInv' /\ DocsInv' /\ OneLegalBallotPerVoter'
  BY DEF CountedInv, TallyOf, CountsOf, DocsInv, VoteDoc, PastInsert, OneLegalBallotPerVoter,
         CleanSelections
<1>2. PlacesInv' /\ AnswersInv' /\ AnswersMatchTheLedger'
  BY DEF PlacesInv, AnswersInv, AnswersMatchTheLedger, VoteDoc, PastInsert, NoRequest,
         RecordedBy, HasVoted
<1> QED BY <1>1, <1>2

\* Every step keeps the invariant.
LEMMA NextLedger ==
    ASSUME TypeInv, LedgerInv, [Next]_vars
    PROVE  LedgerInv'
<1>1. ASSUME NEW r \in Requests, ArriveVote(r) PROVE LedgerInv'
  BY <1>1, ArriveLedger DEF ArriveVote, Ops
<1>2. ASSUME NEW r \in Requests, ArriveOther(r) PROVE LedgerInv'
  <2>1. PICK op \in Ops, who \in {Owner, Stranger} : Arrive(r, op, who, {})
    BY <1>2 DEF ArriveOther, Ops
  <2> QED BY <2>1, ArriveLedger DEF Ballots
<1>3. ASSUME NEW r \in Requests, Step(r) \/ Crash(r) PROVE LedgerInv'
  BY <1>3, InsertLedger, IncrementLedger, OtherLedger DEF Step
<1>4. CASE Expire \/ LoseTally \/ UNCHANGED vars
  BY <1>4, StutterLedger DEF Expire, LoseTally, vars, mongo, local
<1> QED BY <1>1, <1>2, <1>3, <1>4 DEF Next

\* The documents, the requests, the answers and the tally stay tied together in
\* every execution.
THEOREM LedgerHolds == Spec => []LedgerInv
<1>1. TypeInv /\ LedgerInv /\ [Next]_vars => LedgerInv'
  BY NextLedger
<1> QED BY InitLedger, TypeCorrect, <1>1, PTL DEF Spec

----------------------------------------------------------------------------
(* The safety properties                                                   *)

\* No voter ever has two ballots, and every ballot is legal for the poll's mode.
THEOREM OneBallotPerVoter == Spec => []OneLegalBallotPerVoter
<1>1. LedgerInv => OneLegalBallotPerVoter
  BY DEF LedgerInv
<1> QED BY <1>1, LedgerHolds, PTL

\* What voters are told agrees with what is recorded.
THEOREM AnswersAreTrue == Spec => []AnswersMatchTheLedger
<1>1. LedgerInv => AnswersMatchTheLedger
  BY DEF LedgerInv
<1> QED BY <1>1, LedgerHolds, PTL

\* A tally is at most itself, and at most itself with a ballot added.
LEMMA TallyGrows ==
    ASSUME NEW t \in Tallies, NEW b
    PROVE  AtMost(t, t) /\ AtMost(t, AddBallot(t, b))
  BY DEF AtMost, AddBallot, Tallies

\* What no step may take back: votes stay, a closed poll stays closed, a deleted one
\* stays deleted, and no counter of the poll goes down.
Kept ==
    /\ votes \subseteq votes'
    /\ poll = None => poll' = None
    /\ (poll # None /\ poll' # None) =>
          (poll.closed => poll'.closed) /\ AtMost(poll.tally, poll'.tally)

LEMMA NextKeeps ==
    ASSUME TypeInv, [Next]_vars
    PROVE  Kept
<1> USE DEF Kept
<1>1. poll # None => poll \in Polls /\ poll.tally \in Tallies
  BY DEF TypeInv, StoresOK, Polls
<1>2. poll # None => AtMost(poll.tally, poll.tally)
  BY <1>1, TallyGrows
<1>3. ASSUME UNCHANGED <<poll, votes>> PROVE Kept
  BY <1>2, <1>3
<1>4. ASSUME NEW r \in Requests, Insert(r) PROVE Kept
  BY <1>2, <1>4 DEF Insert
<1>5. ASSUME NEW r \in Requests, Increment(r) PROVE Kept
  <2>1. UNCHANGED votes
    BY <1>5 DEF Increment
  <2>2. CASE poll # None /\ poll' = Incremented(r)
    <3>1. poll'.closed = poll.closed /\ poll'.tally = AddBallot(poll.tally, req[r].ballot)
      BY <1>1, <2>2 DEF Incremented, Polls
    <3> QED BY <1>1, <2>1, <2>2, <3>1, TallyGrows
  <2>3. CASE UNCHANGED poll
    BY <1>3, <2>1, <2>3
  <2> QED BY <1>5, <2>2, <2>3 DEF Increment, ApplyIncrement
<1>6. ASSUME NEW r \in Requests, SetClosed(r) \/ Remove(r) PROVE Kept
  <2>1. UNCHANGED votes /\ (poll' = poll \/ poll' = None \/ (poll # None /\ poll' = Closed))
    BY <1>6 DEF SetClosed, Remove
  <2>2. poll # None => Closed.closed /\ Closed.tally = poll.tally
    BY <1>1 DEF Closed, Polls
  <2>3. poll = None => poll' = None
    BY <2>1
  <2> QED BY <1>2, <2>1, <2>2, <2>3
<1> HIDE DEF Kept
<1>7. ASSUME NEW r \in Requests, ArriveVote(r) \/ ArriveOther(r) \/ Crash(r) PROVE Kept
  BY <1>3, <1>7 DEF ArriveVote, ArriveOther, Arrive, Crash, mongo
<1>8. ASSUME NEW r \in Requests, Step(r) PROVE Kept
  BY <1>3, <1>4, <1>5, <1>6, <1>8
     DEF Step, CheckRateLimit, Load, ListByOwner, Recount, CountBallots, ApplyLive,
         GetTally, Seed, DropTally, Publish, mongo
<1> QED BY <1>3, <1>7, <1>8 DEF Next, Expire, LoseTally, vars, mongo

\* No step takes back what was promised.
THEOREM NothingIsEverUndone == Spec => NothingIsUndone
<1>1. TypeInv /\ [Next]_vars => [Kept]_vars
  BY NextKeeps
<1> QED BY <1>1, TypeCorrect, PTL DEF Spec, NothingIsUndone, Kept

----------------------------------------------------------------------------
(* PollService implements PollLedger                                       *)

\* The ledger counts with the same Cardinality (its module brings its own copy).
LEMMA LedgerCardinality == \A S : Ledger!Cardinality(S) = Cardinality(S)
  BY DEF Ledger!Cardinality, Cardinality

\* The two modules tally alike.
LEMMA LedgerTally == \A D : Ledger!TallyOf(D) = TallyOf(D)
  BY LedgerCardinality DEF Ledger!TallyOf, TallyOf, CountsOf

\* The two modules call the same ballots legal.
LEMMA LedgerLegal ==
    ASSUME NEW b \in Ballots, CleanSelections(b)
    PROVE  Ledger!Legal(b)
<1>1. \A o \in Options : Ledger!Cardinality({o}) = 1
  BY FS_Singleton, LedgerCardinality
<1> QED BY <1>1 DEF Ledger!Legal, CleanSelections

\* A poll is created with an empty ledger.
LEMMA LedgerInit == Init => Ledger!Init
<1> SUFFICES ASSUME Init PROVE Ledger!Init
  OBVIOUS
<1>1. poll.closed = FALSE /\ poll.tally = ZeroTally /\ poll # None
  <2>1. ZeroTally \in Tallies
    BY DEF ZeroTally, Tallies
  <2>2. poll \in Polls
    BY <2>1 DEF Init, Polls
  <2> QED BY <2>2, NoneAssumption DEF Init
<1>2. phaseBar = "open" /\ admittedBar = {} /\ ackedBar = {}
  BY <1>1 DEF Init, phaseBar, admittedBar, ackedBar
<1>3. totalBar = Ledger!TallyOf({})
  BY <1>1, LedgerTally, CountNothing DEF totalBar
<1> QED BY <1>2, <1>3 DEF Init, Ledger!Init

\* What the ledger does not see.
LEMMA LedgerStutter ==
    ASSUME UNCHANGED <<poll, votes, counted, admittedBar, ackedBar>>
    PROVE  UNCHANGED Ledger!vars
  BY DEF Ledger!vars, phaseBar, totalBar

\* A step that keeps the collections and moves a request elsewhere than to or from
\* the insert, and answers no "created", is invisible.
LEMMA LedgerQuiet ==
    ASSUME TypeInv, NEW r \in Requests, UNCHANGED <<poll, votes, counted>>,
           NEW label, pc' = [pc EXCEPT ![r] = label], pc[r] # "insert", label # "insert",
           LedgerInv, pc[r] # "done",
           \/ resp' = resp
           \/ \E s, v : s # "created" /\ resp' = [resp EXCEPT ![r] = [status |-> s, view |-> v]]
    PROVE  UNCHANGED Ledger!vars
<1>1. /\ pc'[r] # "insert"
      /\ \A q \in Requests \ {r} : pc'[q] = pc[q] /\ resp'[q].status = resp[q].status
      /\ resp[r].status = "none" /\ resp'[r].status # "created"
  BY DEF TypeInv, LocalOK, LedgerInv, AnswersInv
<1>2. admittedBar' = admittedBar /\ ackedBar' = ackedBar
  BY <1>1 DEF admittedBar, ackedBar
<1> QED BY <1>2, LedgerStutter

\* A load that finds the poll open admits the vote.
LEMMA LedgerLoad ==
    ASSUME TypeInv, LedgerInv, NEW r \in Requests, Load(r)
    PROVE  [Ledger!Next]_(Ledger!vars)
<1>1. pc[r] = "load" /\ UNCHANGED <<poll, votes, counted>>
  BY DEF Load, mongo
<1>2. CASE /\ poll # None /\ ~poll.closed
           /\ Proceed(r, "insert", poll)
  <2>1. pc'[r] = "insert" /\ (\A q \in Requests \ {r} : pc'[q] = pc[q]) /\ resp' = resp
    BY <1>2 DEF Proceed, TypeInv, LocalOK
  <2>2. admittedBar' = admittedBar \cup {r} /\ r \notin admittedBar /\ ackedBar' = ackedBar
    BY <1>1, <2>1 DEF admittedBar, ackedBar
  <2>3. \A b \in votes : b.id # r
    BY <1>1 DEF LedgerInv, DocsInv, PastInsert
  <2>4. phaseBar = "open" /\ phaseBar' = phaseBar /\ totalBar' = totalBar
    BY <1>1, <1>2 DEF phaseBar, totalBar
  <2>5. Ledger!Admit(r)
    BY <1>1, <2>2, <2>3, <2>4 DEF Ledger!Admit
  <2> QED BY <2>5 DEF Ledger!Next
<1>3. CASE \/ \E s \in {"pollClosed", "invalid", "forbidden", "notFound", "internal"} :
                 Reply(r, s, None)
           \/ \E label \in {"setClosed", "remove", "getTally"} : Proceed(r, label, poll)
  BY <1>1, <1>3, LedgerQuiet DEF Reply, Proceed
<1> QED BY <1>2, <1>3 DEF Load, AfterLoad

\* The insert records the ballot, or the request withdraws.
LEMMA LedgerInsert ==
    ASSUME TypeInv, LedgerInv, NEW r \in Requests, Insert(r) \/ (Crash(r) /\ pc[r] = "insert")
    PROVE  [Ledger!Next]_(Ledger!vars)
<1>1. pc[r] = "insert" /\ UNCHANGED <<poll, counted>>
  BY DEF Insert, Crash, mongo
<1>2. /\ pc'[r] \in {"increment", "done"}
      /\ \A q \in Requests \ {r} : pc'[q] = pc[q] /\ resp'[q] = resp[q]
      /\ resp'[r].status # "created" /\ resp[r].status # "created"
  BY <1>1 DEF Insert, Crash, Proceed, Reply, TypeInv, LocalOK, LedgerInv, AnswersInv
<1>3. admittedBar' = admittedBar \ {r} /\ r \in admittedBar /\ ackedBar' = ackedBar
  BY <1>1, <1>2 DEF admittedBar, ackedBar
<1>4. phaseBar' = phaseBar /\ totalBar' = totalBar
  BY <1>1 DEF phaseBar, totalBar
<1>5. CASE UNCHANGED votes
  <2>1. Ledger!Withdraw(r)
    BY <1>1, <1>3, <1>4, <1>5 DEF Ledger!Withdraw
  <2> QED BY <2>1 DEF Ledger!Next
<1>6. CASE ~HasVoted(req[r].who) /\ votes' = votes \cup {VoteDoc(r)}
  <2>1. /\ req[r].who \in Voters /\ req[r].ballot \in Ballots
        /\ CleanSelections(req[r].ballot)
    BY <1>1 DEF TypeInv, RequestsFit, Fits, VotePlaces, BallotPlaces
  <2>2. VoteDoc(r) \in Ledger!Ballot
    BY <2>1 DEF VoteDoc, Ledger!Ballot, Ledger!Ballots, Ballots
  <2>3. Ledger!Record(VoteDoc(r))
    BY <1>1, <1>3, <1>4, <1>6, <2>1, LedgerLegal DEF Ledger!Record, VoteDoc, HasVoted
  <2> QED BY <2>2, <2>3 DEF Ledger!Next
<1> QED BY <1>5, <1>6 DEF Insert, Crash, mongo

\* The $inc counts the ballot, or the ledger does not notice.
LEMMA LedgerIncrement ==
    ASSUME TypeInv, LedgerInv, LedgerInv', NEW r \in Requests, Increment(r)
    PROVE  [Ledger!Next]_(Ledger!vars)
<1>1. pc[r] = "increment" /\ UNCHANGED <<votes, resp>>
  BY DEF Increment, Proceed
<1>2. /\ pc'[r] \in {"live", "recount"}
      /\ \A q \in Requests \ {r} : pc'[q] = pc[q]
  BY DEF Increment, Proceed, TypeInv, LocalOK
<1>3. admittedBar' = admittedBar /\ ackedBar' = ackedBar
  BY <1>1, <1>2 DEF admittedBar, ackedBar
<1>4. CASE UNCHANGED <<poll, counted>>
  BY <1>1, <1>3, <1>4, LedgerStutter
<1>5. CASE ApplyIncrement(r)
  <2>1. poll \in Polls /\ poll # None
    BY <1>5 DEF ApplyIncrement, TypeInv, StoresOK
  <2>2. AddBallot(poll.tally, req[r].ballot) \in Tallies
    BY <2>1, AddBallotType DEF Polls
  <2>3. poll' \in Polls /\ poll'.closed = poll.closed
    BY <1>5, <2>1, <2>2 DEF ApplyIncrement, Incremented, Polls
  <2>4. poll' # None
    BY <2>3, NoneAssumption
  <2>5. phaseBar' = phaseBar /\ phaseBar # "gone"
    BY <2>1, <2>3, <2>4 DEF phaseBar
  <2>6. totalBar' = Ledger!TallyOf(counted')
    <3>1. TallyOf(counted)' = TallyOf(counted')
      BY DEF TallyOf, CountsOf
    <3>2. poll'.tally = TallyOf(counted')
      BY <2>4, <3>1 DEF LedgerInv, CountedInv
    <3> QED BY <2>4, <3>2, LedgerTally DEF totalBar
  <2>7. counted' = counted \cup {VoteDoc(r)} /\ VoteDoc(r) \in votes \ counted
    BY <1>1, <1>5 DEF ApplyIncrement, LedgerInv, PlacesInv, PastInsert
  <2>8. VoteDoc(r) \in Ledger!Ballot
    BY <2>7 DEF TypeInv, StoresOK, VoteDocs, Ledger!Ballot, Ledger!Ballots, Ballots
  <2>9. Ledger!Count(VoteDoc(r))
    BY <1>1, <1>3, <2>5, <2>6, <2>7 DEF Ledger!Count
  <2> QED BY <2>8, <2>9 DEF Ledger!Next
<1> QED BY <1>4, <1>5 DEF Increment

\* Closing closes the ledger, once; deleting ends it.
LEMMA LedgerOwner ==
    ASSUME TypeInv, LedgerInv, NEW r \in Requests, SetClosed(r) \/ Remove(r)
    PROVE  [Ledger!Next]_(Ledger!vars)
<1>1. pc[r] \in {"setClosed", "remove"} /\ UNCHANGED <<votes, counted>>
  BY DEF SetClosed, Remove
<1>2. /\ pc'[r] \in {"publish", "drop", "done"}
      /\ \A q \in Requests \ {r} : pc'[q] = pc[q] /\ resp'[q] = resp[q]
      /\ resp'[r].status # "created" /\ resp[r].status # "created"
  BY <1>1 DEF SetClosed, Remove, Proceed, Reply, TypeInv, LocalOK, LedgerInv, AnswersInv
<1>3. admittedBar' = admittedBar /\ ackedBar' = ackedBar
  BY <1>1, <1>2 DEF admittedBar, ackedBar
<1>4. CASE UNCHANGED poll
  BY <1>1, <1>3, <1>4, LedgerStutter
<1>5. CASE poll # None /\ poll' = Closed
  <2>1. poll \in Polls
    BY <1>5 DEF TypeInv, StoresOK
  <2>2. poll' \in Polls /\ poll'.closed /\ poll'.tally = poll.tally
    BY <1>5, <2>1 DEF Closed, Polls
  <2>3. poll' # None
    BY <2>2, NoneAssumption
  <2>4. phaseBar' = "closed" /\ phaseBar \in {"open", "closed"} /\ totalBar' = totalBar
    BY <1>5, <2>2, <2>3 DEF phaseBar, totalBar
  <2>5. CASE phaseBar = "open"
    <3>1. Ledger!Close
      BY <1>1, <1>3, <2>4, <2>5 DEF Ledger!Close
    <3> QED BY <3>1 DEF Ledger!Next
  <2>6. CASE phaseBar = "closed"
    BY <1>1, <1>3, <2>4, <2>6 DEF Ledger!vars
  <2> QED BY <2>4, <2>5, <2>6
<1>6. CASE poll # None /\ poll' = None
  <2>1. phaseBar # "gone" /\ phaseBar' = "gone"
    BY <1>6 DEF phaseBar
  <2>2. totalBar' = Ledger!TallyOf({})
    <3>1. ZeroTally' = ZeroTally
      BY DEF ZeroTally
    <3> QED BY <1>6, <3>1, LedgerTally, CountNothing DEF totalBar
  <2>3. Ledger!Delete
    BY <1>1, <1>3, <2>1, <2>2 DEF Ledger!Delete
  <2> QED BY <2>3 DEF Ledger!Next
<1> QED BY <1>4, <1>5, <1>6 DEF SetClosed, Remove

\* "created" is only said of a recorded ballot, and once.
LEMMA LedgerPublish ==
    ASSUME TypeInv, LedgerInv, NEW r \in Requests, Publish(r)
    PROVE  [Ledger!Next]_(Ledger!vars)
<1>1. pc[r] = "publish" /\ UNCHANGED <<poll, votes, counted>>
  BY DEF Publish, mongo
<1>2. PICK v : Reply(r, AnswerOf(r), v)
  BY DEF Publish
<1>3. CASE req[r].op # "vote"
  BY <1>1, <1>2, <1>3, LedgerQuiet DEF Reply, AnswerOf
<1>4. CASE req[r].op = "vote"
  <2>1. /\ pc'[r] = "done"
        /\ \A q \in Requests \ {r} : pc'[q] = pc[q] /\ resp'[q] = resp[q]
        /\ resp'[r].status = "created" /\ resp[r].status # "created"
    BY <1>1, <1>2, <1>4 DEF AnswerOf, Reply, TypeInv, LocalOK, LedgerInv, AnswersInv
  <2>2. admittedBar' = admittedBar /\ ackedBar' = ackedBar \cup {r} /\ r \notin ackedBar
    BY <1>1, <2>1 DEF admittedBar, ackedBar
  <2>3. VoteDoc(r) \in votes /\ VoteDoc(r).id = r
    BY <1>1, <1>4 DEF LedgerInv, PlacesInv, PastInsert, VoteDoc
  <2>4. VoteDoc(r) \in Ledger!Ballot
    BY <2>3 DEF TypeInv, StoresOK, VoteDocs, Ledger!Ballot, Ledger!Ballots, Ballots
  <2>5. Ledger!Acknowledge(VoteDoc(r))
    BY <1>1, <2>2, <2>3 DEF Ledger!Acknowledge, phaseBar, totalBar
  <2> QED BY <2>4, <2>5 DEF Ledger!Next
<1> QED BY <1>3, <1>4

\* Everything else is invisible to the ledger.
LEMMA LedgerOther ==
    ASSUME TypeInv, LedgerInv, NEW r \in Requests,
           \/ ArriveVote(r) \/ ArriveOther(r)
           \/ CheckRateLimit(r) \/ ListByOwner(r) \/ Recount(r) \/ CountBallots(r)
           \/ ApplyLive(r) \/ GetTally(r) \/ Seed(r) \/ DropTally(r)
           \/ Crash(r) /\ pc[r] # "insert"
    PROVE  UNCHANGED Ledger!vars
<1>1. UNCHANGED <<poll, votes, counted>>
  BY DEF ArriveVote, ArriveOther, Arrive, CheckRateLimit, ListByOwner, Recount,
         CountBallots, ApplyLive, GetTally, Seed, DropTally, Crash, mongo
<1>2. pc[r] # "insert" /\ pc[r] # "done"
  BY DEF ArriveVote, ArriveOther, Arrive, CheckRateLimit, ListByOwner, Recount,
         CountBallots, ApplyLive, GetTally, Seed, DropTally, Crash, InFlight
<1>3. PICK label, s, d, v :
         /\ label \in Labels \ {"insert"} /\ s \in Statuses \ {"created"}
         /\ Reply(r, s, v) \/ Proceed(r, label, d)
  BY DEF ArriveVote, ArriveOther, Arrive, CheckRateLimit, ListByOwner, Recount,
         CountBallots, ApplyLive, GetTally, Seed, DropTally, Crash, Labels, Statuses
<1> QED BY <1>1, <1>2, <1>3, LedgerQuiet DEF Reply, Proceed

\* Every execution of the service is one the ledger allows: the collections, the
\* cached tally and the answers keep all that PollLedger promises.
THEOREM ServiceImplementsLedger == Spec => ImplementsLedger
<1>1. TypeInv /\ LedgerInv /\ LedgerInv' /\ [Next]_vars => [Ledger!Next]_(Ledger!vars)
  <2> SUFFICES ASSUME TypeInv, LedgerInv, LedgerInv', [Next]_vars
               PROVE  [Ledger!Next]_(Ledger!vars)
    OBVIOUS
  <2>1. CASE Expire \/ LoseTally \/ UNCHANGED vars
    <3>1. UNCHANGED <<poll, votes, counted, pc, resp>>
      BY <2>1 DEF Expire, LoseTally, vars, mongo, local
    <3> QED BY <3>1, LedgerStutter DEF admittedBar, ackedBar
  <2>2. ASSUME NEW r \in Requests, Step(r) \/ Crash(r) \/ ArriveVote(r) \/ ArriveOther(r)
        PROVE  [Ledger!Next]_(Ledger!vars)
    BY <2>2, LedgerLoad, LedgerInsert, LedgerIncrement, LedgerOwner, LedgerPublish,
       LedgerOther DEF Step
  <2> QED BY <2>1, <2>2 DEF Next
<1> QED BY <1>1, LedgerInit, TypeCorrect, LedgerHolds, PTL DEF Spec, Ledger!Spec, ImplementsLedger
=============================================================================
