---------------------------- MODULE ServerProofs ----------------------------
(***************************************************************************)
(* The safety properties of Server, for any number of requests, failures   *)
(* and clients that hang up.  The inductive invariant says which stores    *)
(* are open in which phase of main.run and when a handler can run at all,  *)
(* keeps every call within its bound, and follows a vote from its tally to *)
(* its event.                                                              *)
(***************************************************************************)
EXTENDS Server, TLAPS

-----------------------------------------------------------------------------
(* The inductive invariant                                                 *)

Request ==
    [ pc : InHandler \cup {"done"}, kind : Kinds, origin : Origins, age : 0 .. 3,
      gone : BOOLEAN, recorded : BOOLEAN, counted : BOOLEAN, announced : BOOLEAN,
      unheard : BOOLEAN, panicked : BOOLEAN, status : Nat, logged : BOOLEAN ]

\* The types that a step needs: those of TypeOK, with the whole record of a request.
TypesInv ==
    /\ phase \in Phases /\ (phase = "config" <=> env # None)
    /\ store \in {"none", "open", "closed"} /\ live \in {"none", "open", "closed"}
    /\ hub \in {"none", "running", "closed"}
    /\ indexes \in BOOLEAN /\ signalled \in BOOLEAN /\ timedOut \in BOOLEAN
    /\ drain \in 0 .. DrainLimit /\ faults \in 0 .. MaxFaults /\ goneCount \in 0 .. MaxGone
    /\ req \in [Requests -> Request \cup {Idle}]

Serving == {"listening", "closingHub", "draining"}

Stopping == {"closingMongo", "closingRedis", "stopped"}

\* What main.run has opened and not closed yet, phase by phase.  A drain that gave up is
\* over.
PhaseInv ==
    /\ phase \in {"redis", "router"} \cup Serving \cup Stopping => indexes
    /\ phase \in {"indexes", "redis", "router"} \cup Serving \cup {"closingMongo"} => store = "open"
    /\ phase \in {"router"} \cup Serving \cup {"closingMongo", "closingRedis"} => live = "open"
    /\ timedOut => phase \in Stopping

\* When a request can be there, and what is known of it.  No other kind has a handler, no
\* call is older than its bound, nothing is counted before MongoDB has answered, and what
\* was counted is announced or excused in the end.
RequestOK(q, p, late) ==
    /\ q # Idle => p \in Serving \cup Stopping \cup {"failed"}
    /\ q.pc \in InHandler =>
         /\ p \in Serving \/ late
         /\ q.kind \in {"health", "socket", "vote", "manage"}
         /\ CallBound(q) # None => q.age <= CallBound(q)
         /\ q.pc \in Mongo \cup {"body"} => ~q.counted
    /\ q.pc = "done" =>
         /\ q.age = 0
         /\ q.counted => q.announced \/ q.unheard \/ q.panicked \/ late

RequestsInv == \A r \in Requests : RequestOK(req[r], phase, timedOut)

ServerInv == TypesInv /\ PhaseInv /\ RequestsInv

LEMMA InitServer == Init => ServerInv
<1> SUFFICES ASSUME Init PROVE ServerInv
  OBVIOUS
<1>1. TypesInv
  <2>1. req \in [Requests -> Request \cup {Idle}]
    BY DEF Init
  <2>2. phase = "config" /\ env # None
    BY NoneAssumption DEF Init
  <2>3. 0 \in 0 .. DrainLimit /\ 0 \in 0 .. MaxFaults /\ 0 \in 0 .. MaxGone
    BY FaultAssumption DEF DrainLimit
  <2> QED BY <2>1, <2>2, <2>3 DEF Init, TypesInv, Phases
<1>2. PhaseInv
  BY DEF Init, PhaseInv, Serving, Stopping
<1>3. RequestsInv
  BY DEF Init, RequestsInv, RequestOK, Idle, InHandler, Calls, Mongo
<1> QED BY <1>1, <1>2, <1>3 DEF ServerInv

\* A request in a handler has its record.
LEMMA HandlersRun ==
    ASSUME ServerInv, NEW r \in Requests, req[r].pc \in InHandler
    PROVE  /\ req[r] \in Request /\ req[r] # Idle
           /\ RequestOK(req[r], phase, timedOut)
           /\ phase \in Serving \/ timedOut
<1>1. req[r] \in Request /\ req[r] # Idle
  BY DEF ServerInv, TypesInv, Idle, InHandler, Calls, Mongo
<1> QED BY <1>1 DEF ServerInv, RequestsInv, RequestOK

\* What follows when one request takes a step and the process takes none.
LEMMA OneRequest ==
    ASSUME ServerInv, NEW r \in Requests, NEW q \in Request,
           req' = [req EXCEPT ![r] = q], UNCHANGED process, UNCHANGED drain,
           faults' \in 0 .. MaxFaults, goneCount' \in 0 .. MaxGone,
           RequestOK(q, phase, timedOut)
    PROVE  ServerInv'
<1>1. TypesInv'
  BY DEF ServerInv, TypesInv, process
<1>2. PhaseInv'
  BY DEF ServerInv, PhaseInv, process
<1>3. \A s \in Requests : RequestOK(req'[s], phase, timedOut)
  <2> TAKE s \in Requests
  <2>1. RequestOK(req[s], phase, timedOut)
    BY DEF ServerInv, RequestsInv
  <2> QED BY <2>1 DEF ServerInv, TypesInv
<1>4. RequestsInv'
  BY <1>3 DEF RequestsInv, process
<1> QED BY <1>1, <1>2, <1>4 DEF ServerInv

\* The same for the end of a handler.
LEMMA AnswerKeeps ==
    ASSUME ServerInv, NEW r \in Requests, NEW q \in Request, NEW status \in Nat,
           Answer(r, q, status), UNCHANGED <<process, drain, goneCount>>,
           faults' \in 0 .. MaxFaults,
           phase \in Serving \/ timedOut,
           q.counted => q.announced \/ q.unheard \/ q.panicked \/ timedOut
    PROVE  ServerInv'
<1> DEFINE logged == ~q.panicked /\ status # 499
           a == [q EXCEPT !.pc = "done", !.status = status, !.age = 0, !.logged = logged]
<1>1. req' = [req EXCEPT ![r] = a]
  BY DEF Answer
<1>2. logged \in BOOLEAN
  OBVIOUS
<1> HIDE DEF logged
<1>3. a \in Request
  <2> DEFINE q1 == [q EXCEPT !.pc = "done"]
             q2 == [q1 EXCEPT !.status = status]
             q3 == [q2 EXCEPT !.age = 0]
             q4 == [q3 EXCEPT !.logged = logged]
  <2>1. q1 \in Request
    BY DEF Request
  <2> HIDE DEF q1
  <2>2. q2 \in Request
    BY <2>1 DEF Request
  <2> HIDE DEF q2
  <2>3. q3 \in Request
    BY <2>2 DEF Request
  <2> HIDE DEF q3
  <2>4. q4 \in Request
    BY <1>2, <2>3 DEF Request
  <2> QED BY <2>4 DEF q1, q2, q3
<1>7. /\ a.pc = "done" /\ a.age = 0 /\ a.counted = q.counted /\ a.announced = q.announced
      /\ a.unheard = q.unheard /\ a.panicked = q.panicked
  BY DEF Request
<1> HIDE DEF a
<1>4. phase \in Serving \cup Stopping \cup {"failed"}
  BY DEF ServerInv, PhaseInv
<1>5. RequestOK(a, phase, timedOut)
  BY <1>4, <1>7 DEF RequestOK, InHandler, Calls, Mongo
<1>6. goneCount' \in 0 .. MaxGone
  BY DEF ServerInv, TypesInv
<1> QED BY <1>1, <1>3, <1>5, <1>6, OneRequest

\* A request that the middleware ends, or that gets to its handler.
LEMMA ArriveKeeps ==
    ASSUME ServerInv, NEW r \in Requests, Arrive(r)
    PROVE  ServerInv'
<1> DEFINE Fresh(k, o, body) ==
      [ pc |-> IF body THEN "body" ELSE "store", kind |-> k, origin |-> o, age |-> 0,
        gone |-> FALSE, recorded |-> FALSE, counted |-> FALSE, announced |-> FALSE,
        unheard |-> FALSE, panicked |-> FALSE, status |-> 0, logged |-> FALSE ]
<1>1. PICK k \in Kinds, o \in Origins, body \in BOOLEAN :
         \/ \E status \in {204, 404, 401} : Answer(r, Fresh(k, o, body), status)
         \/ /\ k \in {"health", "socket", "vote", "manage"}
            /\ req' = [req EXCEPT ![r] = Fresh(k, o, body)]
  <2>1. PICK k \in Kinds, token, body \in BOOLEAN :
         \E o \in IF k = "socket" THEN Origins ELSE {NoOrigin} :
           \/ k = "preflight" /\ Answer(r, Fresh(k, o, body), 204)
           \/ k = "unknown" /\ Answer(r, Fresh(k, o, body), 404)
           \/ k = "manage" /\ ~token /\ Answer(r, Fresh(k, o, body), 401)
           \/ /\ \/ k \in {"health", "socket"} /\ ~body
                 \/ k = "manage" /\ token
                 \/ k = "vote" /\ body
              /\ req' = [req EXCEPT ![r] = Fresh(k, o, body)]
    BY Zenon DEF Arrive
  <2> HIDE DEF Fresh
  <2>2. NoOrigin \in Origins
    BY DEF Origins
  <2> QED BY <2>1, <2>2
<1> DEFINE q == Fresh(k, o, body)
<1>2. /\ q \in Request /\ q.pc \in {"body", "store"} /\ q.kind = k /\ q.age = 0
      /\ q.counted = FALSE
  BY DEF Request, InHandler, Calls, Mongo
<1> HIDE DEF Fresh, q
<1>3. phase \in Serving /\ UNCHANGED <<process, drain, goneCount>> /\ faults' = faults
  BY DEF Arrive, Serving
<1>4. faults \in 0 .. MaxFaults /\ goneCount \in 0 .. MaxGone
  BY DEF ServerInv, TypesInv
<1>5. ASSUME NEW status \in {204, 404, 401}, Answer(r, q, status)
      PROVE  ServerInv'
  BY <1>2, <1>3, <1>4, <1>5, AnswerKeeps
<1>6. CASE k \in {"health", "socket", "vote", "manage"} /\ req' = [req EXCEPT ![r] = q]
  <2>1. CallBound(q) # None => 0 <= CallBound(q)
    BY <1>2, <1>6 DEF CallBound, Deadline
  <2>2. RequestOK(q, phase, timedOut)
    BY <1>2, <1>3, <1>6, <2>1 DEF RequestOK
  <2>3. faults' \in 0 .. MaxFaults /\ goneCount' \in 0 .. MaxGone
    BY <1>3, <1>4
  <2> QED BY <1>2, <1>3, <1>6, <2>2, <2>3, OneRequest
<1> QED BY <1>1, <1>5, <1>6 DEF q

\* The same for a handler that goes on to a call to Redis.
LEMMA GoOnKeeps ==
    ASSUME ServerInv, NEW r \in Requests, req[r].pc \in InHandler, NEW q \in Request,
           req' = [req EXCEPT ![r] = q], UNCHANGED <<process, drain, goneCount>>,
           faults' \in 0 .. MaxFaults,
           q.pc \in {"count", "publish"}, q.age = 0, q.kind = req[r].kind
    PROVE  ServerInv'
<1>1. RequestOK(req[r], phase, timedOut) /\ (phase \in Serving \/ timedOut)
  BY HandlersRun
<1>2. phase \in Serving \cup Stopping \cup {"failed"} /\ goneCount' \in 0 .. MaxGone
  BY HandlersRun DEF ServerInv, PhaseInv, TypesInv
<1>3. CallBound(q) = 1
  BY DEF CallBound
<1>4. RequestOK(q, phase, timedOut)
  BY HandlersRun, <1>2, <1>3 DEF RequestOK, InHandler, Calls, Mongo
<1> QED BY <1>2, <1>4, OneRequest

\* The same for one that goes on to a call to MongoDB, under the deadline it has had.
LEMMA AskKeeps ==
    ASSUME ServerInv, NEW r \in Requests, req[r].pc \in Mongo \cup {"body"},
           NEW q \in Request, req' = [req EXCEPT ![r] = q],
           UNCHANGED <<process, drain, goneCount>>, faults' \in 0 .. MaxFaults,
           q.pc \in Mongo, q.age = req[r].age, q.kind = req[r].kind, q.counted = req[r].counted
    PROVE  ServerInv'
<1>0. req[r].pc \in InHandler /\ q.pc \in InHandler
  BY DEF InHandler, Calls
<1>1. RequestOK(req[r], phase, timedOut) /\ (phase \in Serving \/ timedOut)
  BY <1>0, HandlersRun
<1>2. phase \in Serving \cup Stopping \cup {"failed"} /\ goneCount' \in 0 .. MaxGone
  BY <1>0, HandlersRun DEF ServerInv, PhaseInv, TypesInv
<1>3. CallBound(q) = CallBound(req[r])
  BY DEF CallBound, Mongo
<1>4. q.pc # "done"
  BY DEF Mongo
<1>5. RequestOK(q, phase, timedOut)
  BY <1>0, <1>1, <1>2, <1>3, <1>4 DEF RequestOK
<1> QED BY <1>2, <1>5, OneRequest

\* The body is read, and MongoDB answers, or does not.
LEMMA MongoKeeps ==
    ASSUME ServerInv, NEW r \in Requests,
           ReadBody(r) \/ StoreAnswers(r) \/ TallyAnswers(r) \/ StoreFails(r)
    PROVE  ServerInv'
<1> DEFINE q == req[r]
<1>1. q.pc \in Mongo \cup {"body"}
  BY DEF ReadBody, StoreAnswers, TallyAnswers, StoreFails, Mongo
<1>2. /\ q \in Request /\ ~q.counted /\ (phase \in Serving \/ timedOut)
      /\ q.pc \in InHandler
  BY <1>1, HandlersRun DEF InHandler, Calls, RequestOK
<1>3. /\ faults' \in 0 .. MaxFaults
      /\ UNCHANGED <<process, drain, goneCount>>
  <2>1. faults' = faults \/ (faults < MaxFaults /\ faults' = faults + 1)
    BY DEF ReadBody, StoreAnswers, TallyAnswers, StoreFails, Fault
  <2> QED BY <2>1, FaultAssumption
          DEF ServerInv, TypesInv, ReadBody, StoreAnswers, TallyAnswers, StoreFails, Unchanged
<1>4. ASSUME NEW status \in Nat, Answer(r, q, status) PROVE ServerInv'
  BY <1>2, <1>3, <1>4, AnswerKeeps
<1>5. CASE ReadBody(r)
  <2>1. CASE req' = [req EXCEPT ![r] = [q EXCEPT !.pc = "store"]]
    <3> DEFINE q1 == [q EXCEPT !.pc = "store"]
    <3>1. /\ q1 \in Request /\ q1.pc \in Mongo /\ q1.age = q.age /\ q1.kind = q.kind
          /\ q1.counted = q.counted
      BY <1>2 DEF Request, InHandler, Calls, Mongo
    <3>2. req' = [req EXCEPT ![r] = q1]
      BY <2>1
    <3> HIDE DEF q1
    <3> QED BY <1>1, <1>3, <3>1, <3>2, AskKeeps
  <2>2. CASE \E status \in {400, 499} : Answer(r, q, status)
    BY <1>4, <2>2
  <2> HIDE DEF q
  <2> QED BY <1>5, <2>1, <2>2 DEF ReadBody, q
<1>6. ASSUME NEW pc2 \in {"count", "publish"},
             req' = [req EXCEPT ![r] = [q EXCEPT !.pc = pc2, !.age = 0, !.counted = TRUE]]
      PROVE  ServerInv'
  <2> DEFINE q1 == [q EXCEPT !.pc = pc2]
             q2 == [q1 EXCEPT !.age = 0]
             q3 == [q2 EXCEPT !.counted = TRUE]
  <2>1. q1 \in Request /\ q1.pc = pc2 /\ q1.kind = q.kind
    BY <1>2 DEF Request, InHandler, Calls
  <2>2. req' = [req EXCEPT ![r] = q3]
    BY <1>6
  <2> HIDE DEF q, q1
  <2>3. q2 \in Request /\ q2.pc = pc2 /\ q2.kind = q.kind /\ q2.age = 0
    BY <2>1 DEF Request
  <2> HIDE DEF q2
  <2>4. q3 \in Request /\ q3.pc = pc2 /\ q3.kind = q.kind /\ q3.age = 0
    BY <2>3 DEF Request
  <2> HIDE DEF q3
  <2> QED BY <1>2, <1>3, <2>2, <2>4, GoOnKeeps DEF q
<1>7. CASE StoreAnswers(r)
  <2>1. CASE req' = [req EXCEPT ![r] = [q EXCEPT !.pc = "increment", !.recorded = TRUE]]
    <3> DEFINE q1 == [q EXCEPT !.pc = "increment"]
               q2 == [q1 EXCEPT !.recorded = TRUE]
    <3>1. /\ q1 \in Request /\ q1.pc \in Mongo /\ q1.age = q.age /\ q1.kind = q.kind
          /\ q1.counted = q.counted
      BY <1>2 DEF Request, InHandler, Calls, Mongo
    <3>2. req' = [req EXCEPT ![r] = q2]
      BY <2>1
    <3> HIDE DEF q, q1
    <3>3. /\ q2 \in Request /\ q2.pc \in Mongo /\ q2.age = q.age /\ q2.kind = q.kind
          /\ q2.counted = q.counted
      BY <3>1 DEF Request
    <3> HIDE DEF q2
    <3> QED BY <1>1, <1>3, <3>2, <3>3, AskKeeps DEF q
  <2> HIDE DEF q
  <2>2. \/ req' = [req EXCEPT ![r] = [q EXCEPT !.pc = "increment", !.recorded = TRUE]]
        \/ \E pc2 \in {"count", "publish"} :
              req' = [req EXCEPT ![r] = [q EXCEPT !.pc = pc2, !.age = 0, !.counted = TRUE]]
        \/ \E status \in {101, 200, 403, 409, 499} : Answer(r, q, status)
    BY <1>7 DEF StoreAnswers, q
  <2> QED BY <1>4, <1>6, <2>1, <2>2
<1>8. CASE TallyAnswers(r)
  <2>1. req' = [req EXCEPT ![r] = [q EXCEPT !.pc = "count", !.age = 0, !.counted = TRUE]]
    BY <1>8 DEF TallyAnswers
  <2> QED BY <1>6, <2>1
<1>9. CASE StoreFails(r)
  <2> DEFINE Ends(applied, status) == Answer(r, [q EXCEPT !.recorded = @ \/ applied], status)
  <2>1. CASE req' = [req EXCEPT ![r] = [q EXCEPT !.pc = "recount"]]
    <3> DEFINE q1 == [q EXCEPT !.pc = "recount"]
    <3>1. /\ q1 \in Request /\ q1.pc \in Mongo /\ q1.age = q.age /\ q1.kind = q.kind
          /\ q1.counted = q.counted
      BY <1>2 DEF Request, InHandler, Calls, Mongo
    <3>2. req' = [req EXCEPT ![r] = q1]
      BY <2>1
    <3> HIDE DEF q1
    <3> QED BY <1>1, <1>3, <3>1, <3>2, AskKeeps
  <2>2. ASSUME NEW applied \in BOOLEAN, NEW status \in {499, 500, 503}, Ends(applied, status)
        PROVE  ServerInv'
    <3> DEFINE rec == q.recorded \/ applied
               q1  == [q EXCEPT !.recorded = rec]
    <3>1. rec \in BOOLEAN
      OBVIOUS
    <3>2. Answer(r, q1, status)
      BY <2>2, Zenon
    <3> HIDE DEF rec
    <3>3. q1 \in Request /\ ~q1.counted
      BY <1>2, <3>1 DEF Request
    <3> HIDE DEF q1
    <3> QED BY <1>2, <1>3, <3>2, <3>3, AnswerKeeps
  <2>3. \/ req' = [req EXCEPT ![r] = [q EXCEPT !.pc = "recount"]]
        \/ \E applied \in BOOLEAN, status \in {499, 500, 503} : Ends(applied, status)
    <3> DEFINE said == IF q.kind = "health" THEN 503 ELSE IF ContextOver(q) THEN 499 ELSE 500
    <3>1. said \in {499, 500, 503}
      OBVIOUS
    <3>2. \/ req' = [req EXCEPT ![r] = [q EXCEPT !.pc = "recount"]]
          \/ \E applied \in BOOLEAN : Ends(applied, said)
      BY <1>9, Zenon DEF StoreFails
    <3> HIDE DEF said, Ends
    <3> QED BY <3>1, <3>2
  <2> HIDE DEF q, Ends
  <2> QED BY <2>1, <2>2, <2>3
<1> QED BY <1>5, <1>7, <1>8, <1>9

\* A call to Redis returns: what is answered after PUBLISH was announced, or there is a
\* reason why it was not.
LEMMA AfterLiveKeeps ==
    ASSUME ServerInv, NEW r \in Requests, NEW q \in Request,
           q.pc \in {"count", "publish"}, q.pc = req[r].pc, q.kind = req[r].kind,
           AfterLive(r, q), UNCHANGED <<process, drain, goneCount>>,
           faults' \in 0 .. MaxFaults,
           q.pc = "publish" => q.announced \/ q.unheard \/ timedOut
    PROVE  ServerInv'
<1>1. req[r].pc \in InHandler
  BY DEF InHandler, Calls
<1>2. CASE q.pc = "count"
  <2> DEFINE q1 == [q EXCEPT !.pc = "publish"]
             q2 == [q1 EXCEPT !.age = 0]
  <2>1. req' = [req EXCEPT ![r] = q2]
    BY <1>2 DEF AfterLive
  <2>2. q1 \in Request /\ q1.pc = "publish" /\ q1.kind = q.kind
    BY DEF Request, InHandler, Calls
  <2> HIDE DEF q1
  <2>3. q2 \in Request /\ q2.pc = "publish" /\ q2.kind = q.kind /\ q2.age = 0
    BY <2>2 DEF Request
  <2> HIDE DEF q2
  <2> QED BY <1>1, <2>1, <2>3, GoOnKeeps
<1>3. CASE q.pc = "publish"
  <2>1. Answer(r, q, 200)
    BY <1>3 DEF AfterLive
  <2>2. phase \in Serving \/ timedOut
    BY <1>1, HandlersRun
  <2> QED BY <1>3, <2>1, <2>2, AnswerKeeps
<1> QED BY <1>2, <1>3

LEMMA LiveKeeps ==
    ASSUME ServerInv, NEW r \in Requests, LiveAnswers(r) \/ LiveFails(r)
    PROVE  ServerInv'
<1>1. req[r].pc \in {"count", "publish"}
  BY DEF LiveAnswers, LiveFails
<1>2. req[r] \in Request /\ (phase \in Serving \/ timedOut)
  BY <1>1, HandlersRun DEF InHandler, Calls
<1>3. /\ faults' \in 0 .. MaxFaults
      /\ UNCHANGED <<process, drain, goneCount>>
  <2>1. faults' = faults \/ (faults < MaxFaults /\ faults' = faults + 1)
    BY DEF LiveAnswers, LiveFails, Fault
  <2> QED BY <2>1, FaultAssumption
          DEF ServerInv, TypesInv, LiveAnswers, LiveFails, Unchanged
<1>4. CASE LiveAnswers(r)
  <2> DEFINE told == req[r].pc = "publish"
             q    == [req[r] EXCEPT !.announced = told]
  <2>1. AfterLive(r, q)
    BY <1>4 DEF LiveAnswers
  <2>2. told \in BOOLEAN /\ (req[r].pc = "publish" => told)
    OBVIOUS
  <2> HIDE DEF told
  <2>3. /\ q \in Request /\ q.pc = req[r].pc /\ q.kind = req[r].kind
        /\ q.announced = told
    BY <1>2, <2>2 DEF Request
  <2> HIDE DEF q
  <2> QED BY <1>1, <1>3, <2>1, <2>2, <2>3, AfterLiveKeeps
<1>5. CASE LiveFails(r) /\ ~LiveReached(req[r])
  <2>1. timedOut
    BY <1>2, <1>5 DEF LiveReached, ServerInv, PhaseInv
  <2>2. CASE AfterLive(r, req[r])
    BY <1>1, <1>2, <1>3, <2>1, <2>2, AfterLiveKeeps
  <2>3. CASE AfterLive(r, [req[r] EXCEPT !.unheard = (req[r].pc = "publish")])
    <3> DEFINE lost == req[r].pc = "publish"
               q    == [req[r] EXCEPT !.unheard = lost]
    <3>1. AfterLive(r, q) /\ lost \in BOOLEAN
      BY <2>3
    <3> HIDE DEF lost
    <3>2. q \in Request /\ q.pc = req[r].pc /\ q.kind = req[r].kind
      BY <1>2, <3>1 DEF Request
    <3> HIDE DEF q
    <3> QED BY <1>1, <1>3, <2>1, <3>1, <3>2, AfterLiveKeeps
  <2> QED BY <1>5, <2>2, <2>3 DEF LiveFails
<1>6. CASE LiveFails(r) /\ LiveReached(req[r])
  <2> DEFINE lost == req[r].pc = "publish"
             q    == [req[r] EXCEPT !.unheard = lost]
  <2>1. AfterLive(r, q)
    BY <1>6 DEF LiveFails
  <2>2. lost \in BOOLEAN /\ (req[r].pc = "publish" => lost)
    OBVIOUS
  <2> HIDE DEF lost
  <2>3. /\ q \in Request /\ q.pc = req[r].pc /\ q.kind = req[r].kind
        /\ q.unheard = lost
    BY <1>2, <2>2 DEF Request
  <2> HIDE DEF q
  <2> QED BY <1>1, <1>3, <2>1, <2>2, <2>3, AfterLiveKeeps
<1> QED BY <1>4, <1>5, <1>6

\* A handler panics, or its client goes away.
LEMMA PanicKeeps ==
    ASSUME ServerInv, NEW r \in Requests, Panic(r) \/ ClientGone(r)
    PROVE  ServerInv'
<1>1. /\ req[r] \in Request /\ (phase \in Serving \/ timedOut)
      /\ RequestOK(req[r], phase, timedOut) /\ req[r] # Idle
  BY HandlersRun DEF Panic, ClientGone, InHandler
<1>2. CASE Panic(r)
  <2> DEFINE q == [req[r] EXCEPT !.panicked = TRUE]
  <2>1. q \in Request /\ q.panicked
    BY <1>1 DEF Request
  <2>2. faults' \in 0 .. MaxFaults
    BY <1>2, FaultAssumption DEF Panic, Fault, ServerInv, TypesInv
  <2>3. Answer(r, q, 500) /\ UNCHANGED <<process, drain, goneCount>>
    BY <1>2 DEF Panic, Unchanged
  <2> HIDE DEF q
  <2> QED BY <1>1, <2>1, <2>2, <2>3, AnswerKeeps
<1>3. CASE ClientGone(r)
  <2> DEFINE q == [req[r] EXCEPT !.gone = TRUE]
  <2>1. /\ q \in Request /\ q.pc = req[r].pc /\ q.kind = req[r].kind /\ q.age = req[r].age
        /\ q.counted = req[r].counted /\ req[r].pc \in InHandler
    BY <1>1, <1>3 DEF Request, ClientGone, InHandler
  <2>2. /\ req' = [req EXCEPT ![r] = q] /\ UNCHANGED <<process, drain, faults>>
        /\ goneCount' \in 0 .. MaxGone /\ faults \in 0 .. MaxFaults
    BY <1>3, FaultAssumption DEF ClientGone, ServerInv, TypesInv
  <2> HIDE DEF q
  <2>3. CallBound(q) = CallBound(req[r])
    BY <2>1 DEF CallBound
  <2>4. RequestOK(q, phase, timedOut)
    BY <1>1, <2>1, <2>2, <2>3 DEF RequestOK, InHandler, Calls, Mongo
  <2>5. faults' \in 0 .. MaxFaults
    BY <2>2
  <2> QED BY <2>1, <2>2, <2>4, <2>5, OneRequest
<1> QED BY <1>2, <1>3

\* Time passes for every handler, but never past the bound of its call.
LEMMA TickKeeps ==
    ASSUME ServerInv, Tick
    PROVE  ServerInv'
<1> DEFINE Ages(r) == req[r].pc \in InHandler /\ CallBound(req[r]) \notin {None, req[r].age}
           Older(q) == [q EXCEPT !.age = @ + 1]
<1>1. /\ UNCHANGED <<process, faults, goneCount>>
      /\ req' = [r \in Requests |-> IF Ages(r) THEN Older(req[r]) ELSE req[r]]
  BY DEF Tick
<1>2. drain' \in 0 .. DrainLimit
  BY DEF Tick, ServerInv, TypesInv, DrainLimit
<1>3. ASSUME NEW r \in Requests, Ages(r)
      PROVE  /\ Older(req[r]) \in Request
             /\ RequestOK(Older(req[r]), phase, timedOut)
  <2> DEFINE q == Older(req[r])
  <2>1. /\ req[r] \in Request /\ req[r] # Idle /\ req[r].pc \in InHandler
        /\ RequestOK(req[r], phase, timedOut)
    BY <1>3, HandlersRun
  <2>2. CallBound(req[r]) \in 1 .. 3 /\ req[r].age < CallBound(req[r])
    <3>1. CallBound(req[r]) \in 1 .. 3
      BY <1>3, <2>1 DEF CallBound, Deadline, RequestOK
    <3>2. req[r].age # CallBound(req[r]) /\ req[r].age <= CallBound(req[r])
      BY <1>3, <2>1 DEF RequestOK
    <3> QED BY <2>1, <3>1, <3>2 DEF Request
  <2>3. req[r].age + 1 \in 0 .. 3
    BY <2>1, <2>2 DEF Request
  <2>4. /\ q \in Request /\ q.pc = req[r].pc /\ q.kind = req[r].kind
        /\ q.age = req[r].age + 1 /\ q.counted = req[r].counted
    BY <2>1, <2>3 DEF Request
  <2> HIDE DEF Older
  <2>5. CallBound(q) = CallBound(req[r])
    BY <2>4 DEF CallBound
  <2>6. q.age <= CallBound(q)
    BY <2>1, <2>2, <2>4, <2>5 DEF Request
  <2> HIDE DEF q
  <2>7. RequestOK(q, phase, timedOut)
    BY <2>1, <2>4, <2>6 DEF RequestOK, InHandler, Calls, Mongo
  <2> QED BY <2>4, <2>7 DEF q
<1> HIDE DEF Ages, Older
<1>4. TypesInv'
  <2>1. req' \in [Requests -> Request \cup {Idle}]
    BY <1>1, <1>3 DEF ServerInv, TypesInv
  <2> QED BY <1>1, <1>2, <2>1 DEF ServerInv, TypesInv, process
<1>5. PhaseInv'
  BY <1>1 DEF ServerInv, PhaseInv, process
<1>6. RequestsInv'
  BY <1>1, <1>3 DEF ServerInv, RequestsInv, process
<1> QED BY <1>4, <1>5, <1>6 DEF ServerInv

\* A step of main.run, when it keeps its own invariants.
LEMMA PhaseStep ==
    ASSUME ServerInv, TypesInv', PhaseInv', UNCHANGED req,
           \A r \in Requests : req[r] # Idle =>
              /\ phase' \in Serving \cup Stopping \cup {"failed"}
              /\ timedOut => timedOut'
              /\ req[r].pc \in InHandler => phase' \in Serving \/ timedOut'
    PROVE  ServerInv'
<1>1. ASSUME NEW r \in Requests PROVE RequestOK(req[r], phase', timedOut')
  <2>1. RequestOK(req[r], phase, timedOut)
    BY DEF ServerInv, RequestsInv
  <2> QED BY <2>1 DEF RequestOK, Idle, InHandler, Calls, Mongo
<1> QED BY <1>1 DEF ServerInv, RequestsInv

\* No request is there before the listener, and each step opens what the next one needs.
LEMMA StartUpKeeps ==
    ASSUME ServerInv, StartUp
    PROVE  ServerInv'
<1>1. faults' = faults \/ (faults < MaxFaults /\ faults' = faults + 1)
  BY DEF StartUp, LoadConfig, ConnectMongo, EnsureIndexes, ConnectRedis, BuildRouter, Die, Fault
<1>2. faults' \in 0 .. MaxFaults
  BY <1>1, FaultAssumption DEF ServerInv, TypesInv
<1>3. UNCHANGED <<signalled, drain, timedOut, req, goneCount>>
  BY DEF StartUp, LoadConfig, ConnectMongo, EnsureIndexes, ConnectRedis, BuildRouter, Die, Quiet
<1>4. TypesInv'
  <2>1. phase' \in Phases /\ (phase' = "config" <=> env' # None)
    BY DEF StartUp, LoadConfig, ConnectMongo, EnsureIndexes, ConnectRedis, BuildRouter, Die,
           ServerInv, TypesInv, Phases
  <2>2. /\ store' \in {"none", "open", "closed"} /\ live' \in {"none", "open", "closed"}
        /\ hub' \in {"none", "running", "closed"} /\ indexes' \in BOOLEAN
    BY DEF StartUp, LoadConfig, ConnectMongo, EnsureIndexes, ConnectRedis, BuildRouter, Die,
           Quiet, ServerInv, TypesInv
  <2> QED BY <1>2, <1>3, <2>1, <2>2 DEF ServerInv, TypesInv
<1>5. PhaseInv'
  BY DEF StartUp, LoadConfig, ConnectMongo, EnsureIndexes, ConnectRedis, BuildRouter, Die,
         Quiet, ServerInv, TypesInv, PhaseInv, Serving, Stopping
<1>6. \A r \in Requests : req[r] = Idle
  BY DEF StartUp, LoadConfig, ConnectMongo, EnsureIndexes, ConnectRedis, BuildRouter, Die,
         ServerInv, RequestsInv, RequestOK, Serving, Stopping
<1> QED BY <1>2, <1>3, <1>4, <1>5, <1>6, PhaseStep

\* The stores are closed when no handler is left, or the drain gave up on it.
LEMMA ShutDownKeeps ==
    ASSUME ServerInv, ShutDown
    PROVE  ServerInv'
<1>1. UNCHANGED <<env, config, indexes, drain, req, faults, goneCount>>
  BY DEF ShutDown, Signal, CloseHub, CloseListener, Drained, Disconnect, CloseLive, Stop
<1>2. TypesInv'
  <2>1. phase' \in Phases /\ (phase' = "config" <=> env' # None)
    BY <1>1 DEF ShutDown, Signal, CloseHub, CloseListener, Drained, Disconnect, CloseLive, Stop,
           ServerInv, TypesInv, Phases
  <2>2. /\ store' \in {"none", "open", "closed"} /\ live' \in {"none", "open", "closed"}
        /\ hub' \in {"none", "running", "closed"} /\ signalled' \in BOOLEAN
    BY DEF ShutDown, Signal, CloseHub, CloseListener, Drained, Disconnect, CloseLive, Stop,
           ServerInv, TypesInv
  <2>3. timedOut' \in BOOLEAN
    <3>1. Busy \in BOOLEAN
      BY DEF Busy
    <3> QED BY <3>1 DEF ShutDown, Signal, CloseHub, CloseListener, Drained, Disconnect,
                        CloseLive, ServerInv, TypesInv
  <2> QED BY <1>1, <2>1, <2>2, <2>3 DEF ServerInv, TypesInv
<1>3. PhaseInv'
  BY <1>1 DEF ShutDown, Signal, CloseHub, CloseListener, Drained, Disconnect, CloseLive, Stop,
              ServerInv, PhaseInv, Serving, Stopping
<1>4. /\ phase' \in Serving \cup Stopping
      /\ timedOut => timedOut'
  BY DEF ShutDown, Signal, CloseHub, CloseListener, Drained, Disconnect, CloseLive, Stop,
         ServerInv, PhaseInv, Serving, Stopping
<1>5. ASSUME NEW r \in Requests, req[r].pc \in InHandler
      PROVE  phase' \in Serving \/ timedOut'
  <2>1. phase \in Serving \/ timedOut
    BY <1>5, HandlersRun
  <2>2. Busy
    BY <1>5 DEF Busy
  <2> QED BY <2>1, <2>2, <1>4
          DEF ShutDown, Signal, CloseHub, CloseListener, Drained, Disconnect, CloseLive, Stop,
              Serving
<1> QED BY <1>1, <1>2, <1>3, <1>4, <1>5, PhaseStep

\* The invariant is inductive.
LEMMA NextServer ==
    ASSUME ServerInv, [Next]_vars
    PROVE  ServerInv'
<1>1. CASE UNCHANGED vars
  BY <1>1 DEF vars, process, ServerInv, TypesInv, PhaseInv, RequestsInv
<1> QED BY <1>1, StartUpKeeps, ShutDownKeeps, TickKeeps, ArriveKeeps, MongoKeeps, LiveKeeps,
           PanicKeeps DEF Next, Handle

-----------------------------------------------------------------------------
(* The safety properties                                                   *)

\* What main.run has opened, when requests run and what they were answered stay tied
\* together in every execution.
THEOREM ServerInvHolds == Spec => []ServerInv
<1>1. ServerInv /\ [Next]_vars => ServerInv'
  BY NextServer
<1> QED BY InitServer, <1>1, PTL DEF Spec

\* No handler runs without its indexes and its stores, as long as the requests end within
\* the drain (main.go run, EnsureIndexes before and Disconnect after the listener).
THEOREM StoresDoOutliveHandlers == Spec => []StoresOutliveHandlers
<1>1. ServerInv => StoresOutliveHandlers
  <2> SUFFICES ASSUME ServerInv PROVE StoresOutliveHandlers
    OBVIOUS
  <2>1. TypeOK
    BY DEF ServerInv, TypesInv, TypeOK, Request
  <2>2. Busy /\ ~timedOut => phase \in Serving
    BY HandlersRun DEF Busy
  <2> QED BY <2>1, <2>2 DEF StoresOutliveHandlers, ServerInv, PhaseInv, Serving, Running
<1> QED BY ServerInvHolds, <1>1, PTL

\* A vote whose tally MongoDB gave is announced although its client went away or its
\* deadline passed, unless the PUBLISH fails or takes five seconds, the handler panics, or
\* the process ends (services/poll.go detached).
THEOREM CountedVotesGetAnnounced == Spec => []CountedVotesAreAnnounced
<1>1. ServerInv => CountedVotesAreAnnounced
  BY DEF ServerInv, RequestsInv, RequestOK, CountedVotesAreAnnounced
<1> QED BY ServerInvHolds, <1>1, PTL
=============================================================================
