------------------------- MODULE PollCreationProofs -------------------------
(***************************************************************************)
(* Theorems about PollCreation, for any slugs, any number of attempts, any *)
(* rules for the texts, any requests by hand, and any bounds on edits,     *)
(* requests and faults.                                                    *)
(*                                                                         *)
(* No property is inductive: that a retry never stores a second poll needs *)
(* to know that a request still at its insert has stored none, that a link *)
(* leads to one poll that an answer names a poll its own request stored,   *)
(* and that a refusal is for a blind spot of the browser what the form had *)
(* checked when it sent the request.                                       *)
(***************************************************************************)
EXTENDS PollCreation, FiniteSetTheorems, SequenceTheorems, TLAPS

Fields == {"pc", "question", "options", "mode", "after", "rows", "number", "attempt", "answer"}

\* A caller has no request in flight, or one that is a record of these fields.
JobsInv ==
    /\ DOMAIN job = Callers
    /\ \A c \in Callers : job[c] = NoJob \/ (DOMAIN job[c] = Fields /\ job[c].pc # "idle")

\* Requests are numbered as they are sent.
NumbersInv ==
    /\ requests \in Nat
    /\ \A p \in polls : p.number \in 0 .. requests - 1
    /\ \A c \in Callers : job[c] # NoJob => job[c].number \in 0 .. requests - 1
    /\ job["form"] # NoJob /\ job["api"] # NoJob => job["form"].number # job["api"].number

\* Neither a number nor a slug is there twice, and a request that has not got past its
\* insert has stored nothing.
StoredInv ==
    /\ \A p, q \in polls : p.number = q.number \/ p.slug = q.slug => p = q
    /\ \A c \in Callers : job[c].pc \in {"sent", "insert"} =>
          \A p \in polls : p.number # job[c].number

\* Who is told that a poll was created, or is shown its link, has that poll.
LinksInv ==
    /\ \A c \in Callers :
          job[c].pc = "answered" /\ job[c].answer.status = "created" =>
              \E p \in polls : /\ p.number = job[c].number /\ p.owner = c
                               /\ p.slug = job[c].answer.slug
    /\ created # None => \E p \in polls : p.owner = "form" /\ p.slug = created

CreateInv == JobsInv /\ NumbersInv /\ StoredInv /\ LinksInv

LEMMA CreateInit == Init => CreateInv
<1> SUFFICES ASSUME Init PROVE CreateInv
  OBVIOUS
<1>1. \A c \in Callers : job[c] = NoJob /\ job[c].pc = "idle"
  BY DEF Init, NoJob
<1>2. JobsInv
  BY <1>1 DEF Init, JobsInv
<1>3. NumbersInv
  BY <1>1 DEF Init, NumbersInv, Callers
<1>4. StoredInv
  BY <1>1 DEF Init, StoredInv
<1>5. LinksInv
  BY <1>1 DEF Init, LinksInv
<1> QED
  BY <1>2, <1>3, <1>4, <1>5 DEF CreateInv

\* What leaves the requests, the polls and the link alone.
LEMMA CreateStays ==
    ASSUME CreateInv, UNCHANGED <<job, polls, requests>>, created' \in {created, None}
    PROVE  CreateInv'
<1>1. JobsInv' /\ NumbersInv' /\ StoredInv'
  BY DEF CreateInv, JobsInv, NumbersInv, StoredInv
<1>2. LinksInv'
  BY DEF CreateInv, LinksInv
<1> QED
  BY <1>1, <1>2 DEF CreateInv

\* A request takes the next number.
LEMMA CreateSend ==
    ASSUME CreateInv, NEW c \in Callers, NEW q, NEW opts, NEW m, NEW after, NEW sent,
           job[c] = NoJob, requests' = requests + 1,
           job' = [job EXCEPT ![c] = Request(q, opts, m, after, sent)],
           UNCHANGED <<created, polls>>
    PROVE  CreateInv'
<1> DEFINE new == Request(q, opts, m, after, sent)
<1>1. /\ DOMAIN new = Fields /\ new.pc = "sent" /\ new.number = requests
      /\ new # NoJob
  <2>1. DOMAIN new = Fields /\ new.pc = "sent" /\ new.number = requests
    BY DEF Request, Fields
  <2> QED
    BY <2>1 DEF NoJob
<1> HIDE DEF new
<1>2. /\ DOMAIN job' = Callers /\ job'[c] = new
      /\ \A d \in Callers \ {c} : job'[d] = job[d]
  BY DEF CreateInv, JobsInv, new
<1>3. JobsInv'
  BY <1>1, <1>2 DEF CreateInv, JobsInv
<1>4. NumbersInv'
  <2>1. requests \in Nat /\ requests' = requests + 1
    BY DEF CreateInv, NumbersInv
  <2>2. \A n \in 0 .. requests - 1 : n \in 0 .. requests' - 1 /\ n # requests
    BY <2>1
  <2>3. requests \in 0 .. requests' - 1
    BY <2>1
  <2>4. \A d \in Callers \ {c} : job'[d] # NoJob => job'[d].number \in 0 .. requests - 1
    BY <1>2 DEF CreateInv, NumbersInv
  <2>5. \A p \in polls' : p.number \in 0 .. requests' - 1
    BY <2>2 DEF CreateInv, NumbersInv
  <2> QED
    BY <1>1, <1>2, <2>1, <2>2, <2>3, <2>4, <2>5 DEF NumbersInv, Callers
<1>5. StoredInv'
  <2>1. \A p \in polls : p.number # requests
    BY DEF CreateInv, NumbersInv
  <2> QED
    BY <1>1, <1>2, <2>1 DEF CreateInv, StoredInv
<1>6. LinksInv'
  BY <1>1, <1>2 DEF CreateInv, LinksInv
<1> QED
  BY <1>3, <1>4, <1>5, <1>6 DEF CreateInv

\* A request goes on, or is answered, and keeps its number.
LEMMA JobMoves ==
    ASSUME CreateInv, NEW c \in Callers, NEW j, job' = [job EXCEPT ![c] = j],
           job[c] # NoJob, DOMAIN j = Fields, j.pc # "idle", j.number = job[c].number,
           j.pc \in {"sent", "insert"} => job[c].pc \in {"sent", "insert"},
           j.pc = "answered" => j.answer.status # "created",
           UNCHANGED <<created, polls, requests>>
    PROVE  CreateInv'
<1>1. /\ DOMAIN job' = Callers /\ job'[c] = j
      /\ \A d \in Callers \ {c} : job'[d] = job[d]
  BY DEF CreateInv, JobsInv
<1>2. JobsInv'
  BY <1>1 DEF CreateInv, JobsInv
<1>3. NumbersInv'
  BY <1>1 DEF CreateInv, NumbersInv, Callers
<1>4. StoredInv'
  BY <1>1 DEF CreateInv, StoredInv
<1>5. LinksInv'
  BY <1>1 DEF CreateInv, LinksInv
<1> QED
  BY <1>2, <1>3, <1>4, <1>5 DEF CreateInv

\* The request of a caller is over.
LEMMA JobEnds ==
    ASSUME CreateInv, NEW c \in Callers, job' = [job EXCEPT ![c] = NoJob],
           UNCHANGED <<polls, requests>>,
           created' \in {created, None} \/
           (c = "form" /\ job[c].pc = "answered" /\ job[c].answer.status = "created"
              /\ created' = job[c].answer.slug)
    PROVE  CreateInv'
<1>1. /\ DOMAIN job' = Callers /\ job'[c] = NoJob
      /\ \A d \in Callers \ {c} : job'[d] = job[d]
  BY DEF CreateInv, JobsInv
<1>2. NoJob.pc = "idle"
  BY DEF NoJob
<1>3. JobsInv'
  BY <1>1 DEF CreateInv, JobsInv
<1>4. NumbersInv'
  BY <1>1 DEF CreateInv, NumbersInv, Callers
<1>5. StoredInv'
  BY <1>1, <1>2 DEF CreateInv, StoredInv
<1>6. LinksInv'
  BY <1>1, <1>2 DEF CreateInv, LinksInv
<1> QED
  BY <1>3, <1>4, <1>5, <1>6 DEF CreateInv

\* What an answer makes of a request.
LEMMA AnswerMakes ==
    ASSUME CreateInv, NEW c \in Callers, job[c] # NoJob, NEW answer, Answer(c, answer)
    PROVE  \E j : /\ job' = [job EXCEPT ![c] = j] /\ DOMAIN j = Fields
                  /\ j.pc = "answered" /\ j.answer = answer /\ j.number = job[c].number
                  /\ j.attempt = job[c].attempt /\ j.rows = job[c].rows
                  /\ j.question = job[c].question /\ j.options = job[c].options
<1> DEFINE j1 == [job[c] EXCEPT !.pc = "answered"]
           j == [j1 EXCEPT !.answer = answer]
<1>1. DOMAIN job = Callers /\ DOMAIN job[c] = Fields
  BY DEF CreateInv, JobsInv
<1>2. /\ DOMAIN j1 = Fields /\ j1.pc = "answered" /\ j1.number = job[c].number
      /\ j1.attempt = job[c].attempt /\ j1.rows = job[c].rows
      /\ j1.question = job[c].question /\ j1.options = job[c].options
  BY <1>1 DEF Fields
<1>3. job' = [job EXCEPT ![c] = j]
  BY <1>1 DEF Answer
<1> HIDE DEF j1
<1>4. /\ DOMAIN j = Fields /\ j.pc = "answered" /\ j.answer = answer
      /\ j.number = job[c].number /\ j.attempt = job[c].attempt /\ j.rows = job[c].rows
      /\ j.question = job[c].question /\ j.options = job[c].options
  BY <1>2 DEF Fields
<1> QED
  BY <1>3, <1>4

\* A request is refused, or given up.
LEMMA CreateRefused ==
    ASSUME CreateInv, NEW c \in Callers, job[c] # NoJob, NEW answer, Answer(c, answer),
           answer.status # "created", UNCHANGED <<created, polls, requests>>
    PROVE  CreateInv'
<1>1. PICK j : /\ job' = [job EXCEPT ![c] = j] /\ DOMAIN j = Fields
               /\ j.pc = "answered" /\ j.answer = answer /\ j.number = job[c].number
  BY AnswerMakes
<1> QED
  BY <1>1, JobMoves

\* A poll is stored under a slug that is free, and the request is answered: with the slug,
\* or, when the reply was lost, without.
LEMMA CreateStores ==
    ASSUME CreateInv, NEW c \in Callers, NEW slug, NEW answer, job[c].pc = "insert",
           ~Taken(slug), polls' = polls \cup {Document(c, slug)}, Answer(c, answer),
           answer.status = "created" => answer.slug = slug, UNCHANGED <<created, requests>>
    PROVE  CreateInv'
<1> DEFINE doc == Document(c, slug)
<1>1. job[c] # NoJob
  BY DEF NoJob
<1>2. PICK j : /\ job' = [job EXCEPT ![c] = j] /\ DOMAIN j = Fields
               /\ j.pc = "answered" /\ j.answer = answer /\ j.number = job[c].number
  BY <1>1, AnswerMakes
<1>3. /\ DOMAIN job' = Callers /\ job'[c] = j
      /\ \A d \in Callers \ {c} : job'[d] = job[d]
  BY <1>2 DEF CreateInv, JobsInv
<1>4. doc.owner = c /\ doc.number = job[c].number /\ doc.slug = slug
  BY DEF Document
<1> HIDE DEF doc
<1>5. polls' = polls \cup {doc}
  BY DEF doc
<1>6. JobsInv'
  BY <1>2, <1>3 DEF CreateInv, JobsInv
<1>7. NumbersInv'
  <2>1. \A p \in polls' : p.number \in 0 .. requests - 1
    BY <1>1, <1>4, <1>5 DEF CreateInv, NumbersInv
  <2> QED
    BY <1>1, <1>2, <1>3, <2>1 DEF CreateInv, NumbersInv, Callers
<1>8. StoredInv'
  <2>1. \A p \in polls : p.number # doc.number /\ p.slug # doc.slug
    BY <1>4 DEF CreateInv, StoredInv, Taken
  <2>2. \A p, q \in polls' : p.number = q.number \/ p.slug = q.slug => p = q
    BY <1>5, <2>1 DEF CreateInv, StoredInv
  <2>3. ASSUME NEW d \in Callers, job'[d].pc \in {"sent", "insert"}
        PROVE  \A p \in polls' : p.number # job'[d].number
    <3>1. d # c /\ job'[d] = job[d]
      BY <1>2, <1>3, <2>3
    <3>2. job[d] # NoJob
      BY <2>3, <3>1 DEF NoJob
    <3>3. doc.number # job[d].number
      BY <1>1, <1>4, <3>1, <3>2 DEF CreateInv, NumbersInv, Callers
    <3> QED
      BY <1>5, <2>3, <3>1, <3>3 DEF CreateInv, StoredInv
  <2> QED
    BY <2>2, <2>3 DEF StoredInv
<1>9. LinksInv'
  <2>1. \A d \in Callers : job'[d].pc = "answered" /\ job'[d].answer.status = "created" =>
          \E p \in polls' : /\ p.number = job'[d].number /\ p.owner = d
                            /\ p.slug = job'[d].answer.slug
    BY <1>2, <1>3, <1>4, <1>5 DEF CreateInv, LinksInv
  <2>2. created' # None => \E p \in polls' : p.owner = "form" /\ p.slug = created'
    BY <1>5 DEF CreateInv, LinksInv
  <2> QED
    BY <2>1, <2>2 DEF LinksInv
<1> QED
  BY <1>6, <1>7, <1>8, <1>9 DEF CreateInv

LEMMA CreateValidate ==
    ASSUME CreateInv, NEW c \in Callers, Validate(c)
    PROVE  CreateInv'
<1> DEFINE in == job[c]
           cleaned == CleanOptions(in.options)
<1>1. in.pc = "sent" /\ UNCHANGED <<created, polls, requests>>
  BY DEF Validate, form
<1>2. in # NoJob
  BY <1>1 DEF NoJob
<1>3. ASSUME NEW field, Answer(c, Refused(field))
      PROVE  CreateInv'
  <2>1. Refused(field).status # "created"
    BY DEF Refused
  <2> QED
    BY <1>1, <1>2, <1>3, <2>1, CreateRefused
<1>4. ASSUME job' = [job EXCEPT ![c].pc = "insert", ![c].options = cleaned.texts,
                                ![c].mode = CleanMode(in.mode)]
      PROVE  CreateInv'
  <2> DEFINE j1 == [in EXCEPT !.pc = "insert"]
             j2 == [j1 EXCEPT !.options = cleaned.texts]
             j3 == [j2 EXCEPT !.mode = CleanMode(in.mode)]
  <2>1. DOMAIN job = Callers /\ DOMAIN in = Fields
    BY <1>2 DEF CreateInv, JobsInv
  <2>2. job' = [job EXCEPT ![c] = j3]
    BY <1>4, <2>1
  <2>3. DOMAIN j1 = Fields /\ j1.pc = "insert" /\ j1.number = in.number
    BY <2>1 DEF Fields
  <2> HIDE DEF j1
  <2>4. DOMAIN j2 = Fields /\ j2.pc = "insert" /\ j2.number = in.number
    BY <2>3 DEF Fields
  <2> HIDE DEF j2
  <2>5. DOMAIN j3 = Fields /\ j3.pc = "insert" /\ j3.number = in.number
    BY <2>4 DEF Fields
  <2> HIDE DEF j3
  <2> QED
    BY <1>1, <1>2, <2>2, <2>5, JobMoves
<1>5. \/ \E field : Answer(c, Refused(field))
      \/ job' = [job EXCEPT ![c].pc = "insert", ![c].options = cleaned.texts,
                            ![c].mode = CleanMode(in.mode)]
  BY DEF Validate
<1> QED
  BY <1>3, <1>4, <1>5

\* One draw stores a poll, or none; nothing but a collision draws again, and nothing was
\* stored by that.
LEMMA CreateAttempt ==
    ASSUME CreateInv, NEW c \in Callers, NEW slug \in Slugs, Attempt(c, slug)
    PROVE  CreateInv'
<1>1. job[c].pc = "insert" /\ job[c] # NoJob /\ UNCHANGED <<created, requests>>
  BY DEF Attempt, form, NoJob
<1>2. CASE Insert(c, slug)
  <2> DEFINE answer == [status |-> "created", slug |-> slug]
  <2>1. answer.slug = slug
    OBVIOUS
  <2>2. Answer(c, answer) /\ ~Taken(slug) /\ polls' = polls \cup {Document(c, slug)}
    BY <1>2 DEF Insert
  <2> HIDE DEF answer
  <2> QED
    BY <1>1, <2>1, <2>2, CreateStores
<1>3. Internal.status # "created"
  BY DEF Internal
<1>4. CASE Collide(c, slug)
  <2>1. polls' = polls
    BY <1>4 DEF Collide
  <2>2. CASE Answer(c, Internal)
    BY <1>1, <1>3, <2>1, <2>2, CreateRefused
  <2>3. CASE job' = [job EXCEPT ![c].attempt = @ + 1]
    <3> DEFINE j == [job[c] EXCEPT !.attempt = @ + 1]
    <3>1. DOMAIN job = Callers /\ DOMAIN job[c] = Fields
      BY <1>1 DEF CreateInv, JobsInv
    <3>2. job' = [job EXCEPT ![c] = j]
      BY <2>3, <3>1
    <3>3. DOMAIN j = Fields /\ j.pc = "insert" /\ j.number = job[c].number
      BY <1>1, <3>1 DEF Fields
    <3> HIDE DEF j
    <3> QED
      BY <1>1, <2>1, <3>2, <3>3, JobMoves
  <2> QED
    BY <1>4, <2>2, <2>3 DEF Collide, NextAttempt
<1>5. CASE InsertFails(c, slug)
  <2>1. CASE polls' = polls
    BY <1>1, <1>3, <1>5, <2>1, CreateRefused DEF InsertFails
  <2>2. CASE ~Taken(slug) /\ polls' = polls \cup {Document(c, slug)}
    BY <1>1, <1>3, <1>5, <2>2, CreateStores DEF InsertFails
  <2> QED
    BY <1>5, <2>1, <2>2 DEF InsertFails, FailOnce
<1> QED
  BY <1>2, <1>4, <1>5 DEF Attempt

LEMMA CreateNext == CreateInv /\ [Next]_vars => CreateInv'
<1> SUFFICES ASSUME CreateInv, [Next]_vars PROVE CreateInv'
  OBVIOUS
<1>1. "form" \in Callers /\ "api" \in Callers
  BY DEF Callers
<1>2. CASE UNCHANGED vars
  BY <1>2, CreateStays DEF vars, form
<1>3. ASSUME NEW i \in DOMAIN rows, removeOption(i) \/ \E t \in FormTexts : updateOption(i, t)
      PROVE  CreateInv'
  BY <1>3, CreateStays DEF removeOption, updateOption, Edit
<1>4. CASE addOption \/ createAnother
  BY <1>4, CreateStays DEF addOption, createAnother, Edit
<1>5. ASSUME NEW q \in Questions, handleSubmit(q)
      PROVE  CreateInv'
  <2>1. UNCHANGED <<created, polls>> /\ job["form"] = NoJob
    BY <1>5 DEF handleSubmit
  <2>2. CASE UNCHANGED <<job, requests>>
    BY <2>1, <2>2, CreateStays
  <2>3. CASE /\ requests' = requests + 1
             /\ \E sent : job' = [job EXCEPT !["form"] =
                                    Request(q, cleanOptions(typed), "single", None, sent)]
    BY <1>1, <2>1, <2>3, CreateSend
  <2> QED
    BY <1>5, <2>2, <2>3 DEF handleSubmit
<1>6. CASE Deliver
  <2>1. /\ job["form"].pc = "answered" /\ job' = [job EXCEPT !["form"] = NoJob]
        /\ UNCHANGED <<polls, requests>>
        /\ created' = IF job["form"].answer.status = "created"
                      THEN job["form"].answer.slug ELSE None
    BY <1>6 DEF Deliver
  <2> QED
    BY <1>1, <2>1, JobEnds
<1>7. CASE Lose
  BY <1>1, <1>7, JobEnds DEF Lose, form
<1>8. CASE DeliverAPI
  BY <1>1, <1>8, JobEnds DEF DeliverAPI, form
<1>9. ASSUME NEW in \in Crafted, CallAPI(in)
      PROVE  CreateInv'
  BY <1>1, <1>9, CreateSend DEF CallAPI, form
<1> QED
  BY <1>2, <1>3, <1>4, <1>5, <1>6, <1>7, <1>8, <1>9, CreateValidate, CreateAttempt
     DEF Next, Compose

LEMMA CreateInvHolds == Spec => []CreateInv
<1> QED
  BY CreateInit, CreateNext, PTL DEF Spec

\* A request stores one poll or none, however many of its slugs collide, whatever fails and
\* whoever competes with it, and one if it was told so: a draw is repeated only after an
\* insert that stored nothing.
THEOREM RequestsStoreOnePoll == Spec => []OnePollPerRequest
<1>1. CreateInv => OnePollPerRequest
  BY DEF CreateInv, StoredInv, LinksInv, OnePollPerRequest
<1> QED
  BY <1>1, CreateInvHolds, PTL

\* The link that the form shows leads to one poll, and that poll was stored by a request of
\* this form.
THEOREM LinksLeadToTheirPoll == Spec => []CreatedLinksLeadToTheirPoll
<1>1. CreateInv => CreatedLinksLeadToTheirPoll
  BY DEF CreateInv, StoredInv, LinksInv, CreatedLinksLeadToTheirPoll
<1> QED
  BY <1>1, CreateInvHolds, PTL

----------------------------------------------------------------------------
(* The data operators                                                      *)

\* Natural numbers are well ordered, which stands in for induction.
LEMMA LeastNumber ==
    ASSUME NEW T \in SUBSET Nat, T # {}
    PROVE  \E n \in T : \A m \in T : n <= m
<1> DEFINE R == OpToRel(<, Nat)
<1>1. IsWellFoundedOn(R, Nat)
  BY NatLessThanWellFounded
<1>2. \A x, y \in Nat : x < y => <<x, y>> \in R
  BY DEF OpToRel
<1> HIDE DEF R
<1>3. PICK n \in T : \A m \in T : <<m, n>> \notin R
  BY <1>1, WFMin
<1>4. ASSUME NEW m \in T
      PROVE  n <= m
  <2>1. m \in Nat /\ n \in Nat
    OBVIOUS
  <2>2. ~(m < n)
    BY <1>2, <1>3, <2>1
  <2> QED
    BY <2>1, <2>2
<1> QED
  BY <1>4

\* The n-th smallest of a set of places.
LEMMA NthExists ==
    ASSUME NEW l \in Nat, NEW S \in SUBSET (1 .. l), NEW n \in 1 .. Cardinality(S)
    PROVE  \E i \in S : Cardinality({j \in S : j < i}) = n - 1
<1> DEFINE Below(k) == {j \in S : j < k}
           T == {k \in Nat : Cardinality(Below(k)) >= n}
<1>1. IsFiniteSet(S) /\ Cardinality(S) \in Nat
  <2>1. IsFiniteSet(1 .. l)
    BY FS_Interval
  <2>2. IsFiniteSet(S)
    BY <2>1, FS_Subset
  <2> QED
    BY <2>2, FS_CardinalityType
<1>2. \A k \in Nat : IsFiniteSet(Below(k)) /\ Cardinality(Below(k)) \in Nat
  BY <1>1, FS_Subset, FS_CardinalityType
<1>3. l + 1 \in T
  <2>1. Below(l + 1) = S
    <3>1. \A j \in S : j \in Int /\ j < l + 1
      OBVIOUS
    <3> QED
      BY <3>1
  <2> QED
    BY <1>1, <2>1
<1>4. PICK k \in T : \A m \in T : k <= m
  <2>1. T \in SUBSET Nat /\ T # {}
    BY <1>3
  <2> HIDE DEF T
  <2> QED
    BY <2>1, LeastNumber
<1>5. k # 0
  <2>1. Below(0) = {}
    <3>1. \A j \in S : ~(j < 0)
      OBVIOUS
    <3> QED
      BY <3>1
  <2>2. Cardinality(Below(0)) = 0
    BY <2>1, FS_EmptySet
  <2> QED
    BY <1>4, <2>2
<1>6. k \in Nat /\ k - 1 \in Nat /\ k - 1 \notin T
  BY <1>4, <1>5
<1>7. Cardinality(Below(k)) >= n /\ Cardinality(Below(k - 1)) < n
  BY <1>2, <1>4, <1>6
<1>8. CASE k - 1 \notin S
  <2>1. \A j \in S : j < k <=> j < k - 1
    <3>1. \A j \in S : j \in Int /\ j # k - 1
      BY <1>8
    <3> QED
      BY <1>6, <3>1
  <2>2. Below(k) = Below(k - 1)
    BY <2>1
  <2> HIDE DEF Below
  <2> QED
    BY <1>2, <1>6, <1>7, <2>2
<1>9. CASE k - 1 \in S
  <2>0. \A j \in S : j < k <=> j < k - 1 \/ j = k - 1
    <3>1. \A j \in S : j \in Int
      OBVIOUS
    <3> QED
      BY <1>6, <3>1
  <2>1. Below(k) = Below(k - 1) \cup {k - 1} /\ k - 1 \notin Below(k - 1)
    BY <1>6, <1>9, <2>0
  <2>2. Cardinality(Below(k - 1) \cup {k - 1}) = Cardinality(Below(k - 1)) + 1
    BY <1>2, <1>6, <2>1, FS_AddElement
  <2>3. Cardinality(Below(k - 1)) = n - 1
    BY <1>2, <1>6, <1>7, <2>1, <2>2
  <2> QED
    BY <1>9, <2>3
<1> QED
  BY <1>8, <1>9

\* k is made of the elements of s at the places in S, in the order they had.
Kept(E, s, S, k) ==
    /\ k \in Seq(E) /\ DOMAIN k = 1 .. Cardinality(S)
    /\ Len(k) = Cardinality(S) /\ Cardinality(S) <= Len(s)
    /\ \A n \in DOMAIN k : \E i \in S : k[n] = s[i]
    /\ \A n, m \in DOMAIN k : n < m => \E i, j \in S : i < j /\ k[n] = s[i] /\ k[m] = s[j]

LEMMA KeepKeeps ==
    ASSUME NEW E, NEW s \in Seq(E), NEW S \in SUBSET DOMAIN s
    PROVE  Kept(E, s, S, Keep(s, S))
<1> DEFINE l == Len(s)
           Below(k) == {j \in S : j < k}
           nth(n) == CHOOSE i \in S : Cardinality(Below(i)) = n - 1
           size == Cardinality(S)
           kept == Keep(s, S)
<1>1. l \in Nat /\ DOMAIN s = 1 .. l /\ S \in SUBSET (1 .. l)
  OBVIOUS
<1>2. IsFiniteSet(S) /\ size \in Nat /\ size <= l
  <2>1. IsFiniteSet(1 .. l) /\ Cardinality(1 .. l) = l
    <3> HIDE DEF l
    <3>1. IsFiniteSet(1 .. l) /\ Cardinality(1 .. l) = IF 1 > l THEN 0 ELSE l - 1 + 1
      BY <1>1, FS_Interval
    <3> QED
      BY <1>1, <3>1
  <2>2. IsFiniteSet(S) /\ Cardinality(S) <= Cardinality(1 .. l)
    BY <1>1, <2>1, FS_Subset
  <2> QED
    BY <2>1, <2>2, FS_CardinalityType
<1>3. ASSUME NEW n \in 1 .. size
      PROVE  nth(n) \in S /\ Cardinality(Below(nth(n))) = n - 1
  <2>1. \E i \in S : Cardinality(Below(i)) = n - 1
    BY <1>1, NthExists
  <2> QED
    BY <2>1
<1>4. kept = [n \in 1 .. size |-> s[nth(n)]]
  BY DEF Keep
<1> HIDE DEF nth, kept
<1>5. ASSUME NEW n \in 1 .. size, NEW m \in 1 .. size, n < m
      PROVE  nth(n) < nth(m)
  <2>1. nth(n) \in Int /\ nth(m) \in Int
    <3>1. nth(n) \in S /\ nth(m) \in S
      BY <1>3
    <3> QED
      BY <1>1, <3>1
  <2>2. IsFiniteSet(Below(nth(n))) /\ IsFiniteSet(Below(nth(m)))
    BY <1>2, FS_Subset
  <2>3. CASE nth(m) <= nth(n)
    <3>1. Below(nth(m)) \subseteq Below(nth(n))
      BY <1>1, <2>1, <2>3
    <3>2. Cardinality(Below(nth(m))) <= Cardinality(Below(nth(n)))
      BY <2>2, <3>1, FS_Subset
    <3> HIDE DEF Below
    <3> QED
      BY <1>2, <1>3, <1>5, <3>2
  <2> QED
    BY <2>1, <2>3
<1>6. /\ kept \in Seq(E) /\ DOMAIN kept = 1 .. size /\ Len(kept) = size
      /\ \A n \in 1 .. size : nth(n) \in S /\ kept[n] = s[nth(n)]
  <2>1. \A n \in 1 .. size : nth(n) \in S
    BY <1>3
  <2>2. \A i \in 1 .. l : s[i] \in E
    BY <1>1
  <2>3. \A n \in 1 .. size : s[nth(n)] \in E
    BY <1>1, <2>1, <2>2
  <2> HIDE DEF size, l
  <2>4. kept \in [1 .. size -> E] /\ \A n \in 1 .. size : kept[n] = s[nth(n)]
    BY <1>4, <2>3
  <2>5. kept \in Seq(E) /\ DOMAIN kept = 1 .. size /\ Len(kept) = size
    BY <1>2, <2>4
  <2> QED
    BY <2>1, <2>4, <2>5
<1>7. \A n, m \in 1 .. size : n < m => nth(n) < nth(m)
  BY <1>5
<1> HIDE DEF size
<1> QED
  BY <1>2, <1>6, <1>7 DEF kept, size, Kept

\* Two lists from the same places go together.
LEMMA KeepTogether ==
    ASSUME NEW E, NEW F, NEW s \in Seq(E), NEW t \in Seq(F), NEW S \in SUBSET DOMAIN s,
           NEW n \in DOMAIN Keep(s, S)
    PROVE  \E i \in S : Keep(s, S)[n] = s[i] /\ Keep(t, S)[n] = t[i]
<1> DEFINE nth == CHOOSE i \in S : Cardinality({j \in S : j < i}) = n - 1
<1>1. n \in 1 .. Cardinality(S)
  BY DEF Keep
<1>2. Len(s) \in Nat /\ S \in SUBSET (1 .. Len(s))
  OBVIOUS
<1>3. \E i \in S : Cardinality({j \in S : j < i}) = n - 1
  BY <1>1, <1>2, NthExists
<1>4. nth \in S
  BY <1>3
<1>5. Keep(s, S)[n] = s[nth] /\ Keep(t, S)[n] = t[nth]
  BY <1>1 DEF Keep
<1> HIDE DEF nth
<1> QED BY <1>4, <1>5

----------------------------------------------------------------------------
(* The rules for a poll                                                    *)

\* Both sides keep the word, and put spare space right where they know it for space.
LEMMA Collapsed ==
    ASSUME NEW t \in Texts
    PROVE  /\ collapseSpace(t) \in Texts /\ collapseSpace(t).word = t.word
           /\ collapseSpace(t).spelling \notin {"spaced", "nextline"}
  BY DEF Texts, collapseSpace, Plainly

LEMMA Trimmed ==
    ASSUME NEW t \in Texts
    PROVE  /\ trimmed(t) \in Texts /\ trimmed(t).word = t.word
           /\ trimmed(t).spelling \notin {"spaced", "marked"}
           /\ IsText(trimmed(t)) <=> IsText(t)
  BY DEF Texts, trimmed, Plainly, IsText

\* Two texts that only the server takes for the same: one has a space or a capital that the
\* browser does not know.
LEMMA BlindDuplicate ==
    ASSUME NEW t \in Texts, NEW u \in Texts,
           t.spelling \notin {"spaced", "marked"}, u.spelling \notin {"spaced", "marked"},
           ToLower(collapseSpace(t)) = ToLower(collapseSpace(u)), toLowerCase(t) # toLowerCase(u)
    PROVE  t.word = u.word /\ {t.spelling, u.spelling} \cap {"dotted", "nextline"} # {}
<1>1. t.word = u.word
  BY DEF Texts, collapseSpace, ToLower, Plainly
<1>2. CASE t.spelling \in {"dotted", "nextline"} \/ u.spelling \in {"dotted", "nextline"}
  BY <1>1, <1>2
<1>3. CASE t.spelling \in {"plain", "upper", "final"} /\ u.spelling \in {"plain", "upper", "final"}
  <2>1. collapseSpace(t) = t /\ collapseSpace(u) = u
    BY <1>3 DEF collapseSpace, Plainly
  <2>2. t.spelling = "final" <=> u.spelling = "final"
    BY <1>3, <2>1 DEF Texts, ToLower, Plainly
  <2>3. toLowerCase(t) = toLowerCase(u)
    BY <1>1, <1>3, <2>2 DEF Texts, toLowerCase, Plainly
  <2> QED BY <2>3
<1> QED BY <1>2, <1>3 DEF Texts

\* The texts of a list, collapsed by the server, or by the browser.
Collapse(raw) == [i \in DOMAIN raw |-> collapseSpace(raw[i])]

Trim(rows1) == [i \in DOMAIN rows1 |-> trimmed(rows1[i])]

LEMMA CollapsedList ==
    ASSUME NEW raw \in Seq(Texts)
    PROVE  /\ Collapse(raw) \in Seq(Texts) /\ Len(Collapse(raw)) = Len(raw)
           /\ DOMAIN Collapse(raw) = 1 .. Len(raw)
           /\ \A i \in 1 .. Len(raw) : /\ Collapse(raw)[i].spelling \notin {"spaced", "nextline"}
                                       /\ Collapse(raw)[i].word = raw[i].word
                                       /\ Collapse(raw)[i] = collapseSpace(raw[i])
<1> DEFINE l == Len(raw)
<1>1. l \in Nat /\ DOMAIN raw = 1 .. l /\ \A i \in 1 .. l : raw[i] \in Texts
  OBVIOUS
<1> HIDE DEF l
<1>2. \A i \in 1 .. l : /\ collapseSpace(raw[i]).spelling \notin {"spaced", "nextline"}
                        /\ collapseSpace(raw[i]).word = raw[i].word
                        /\ collapseSpace(raw[i]) \in Texts
  BY <1>1, Collapsed
<1>3. /\ Collapse(raw) \in [1 .. l -> Texts]
      /\ \A i \in 1 .. l : Collapse(raw)[i] = collapseSpace(raw[i])
  BY <1>1, <1>2 DEF Collapse
<1> QED
  BY <1>1, <1>2, <1>3 DEF l

LEMMA TrimmedList ==
    ASSUME NEW raw \in Seq(Texts)
    PROVE  /\ Trim(raw) \in Seq(Texts) /\ Len(Trim(raw)) = Len(raw)
           /\ DOMAIN Trim(raw) = 1 .. Len(raw)
           /\ \A i \in 1 .. Len(raw) : /\ Trim(raw)[i].spelling \notin {"spaced", "marked"}
                                       /\ Trim(raw)[i].word = raw[i].word
                                       /\ IsText(Trim(raw)[i]) <=> IsText(raw[i])
<1> DEFINE l == Len(raw)
<1>1. l \in Nat /\ DOMAIN raw = 1 .. l /\ \A i \in 1 .. l : raw[i] \in Texts
  OBVIOUS
<1> HIDE DEF l
<1>2. \A i \in 1 .. l : /\ trimmed(raw[i]).spelling \notin {"spaced", "marked"}
                        /\ trimmed(raw[i]).word = raw[i].word
                        /\ IsText(trimmed(raw[i])) <=> IsText(raw[i])
                        /\ trimmed(raw[i]) \in Texts
  BY <1>1, Trimmed
<1>3. /\ Trim(raw) \in [1 .. l -> Texts]
      /\ \A i \in 1 .. l : Trim(raw)[i] = trimmed(raw[i])
  BY <1>1, <1>2 DEF Trim
<1> QED
  BY <1>1, <1>2, <1>3 DEF l

\* Choices of which none is unfit make a well-formed poll.
LEMMA FitOptions ==
    ASSUME NEW texts \in Seq(Texts), Len(texts) \in MinOptions .. MaxOptions,
           \A i \in DOMAIN texts : texts[i].spelling \notin {"spaced", "nextline"},
           UnfitOptions(texts) = {}, NEW mode \in {"single", "multiple"},
           NEW after, ValidateExpiry(after)
    PROVE  WellFormed(texts, mode, after)
<1>1. /\ DOMAIN texts = 1 .. Len(texts) /\ Len(texts) \in Nat
      /\ \A i \in DOMAIN texts : texts[i] \in Texts
  OBVIOUS
<1>2. \A i \in DOMAIN texts : /\ ~Empty(texts[i]) /\ texts[i].word \notin {Control, Long}
                              /\ ~Duplicates(texts, i)
  BY DEF UnfitOptions
<1>3. ASSUME NEW i \in DOMAIN texts
      PROVE  texts[i].word \in Words \cup {Short} \/ texts[i] = [word |-> Blank, spelling |-> "marked"]
  BY <1>1, <1>2 DEF Texts, Empty
<1>4. ASSUME NEW i \in DOMAIN texts, NEW j \in DOMAIN texts, ToLower(texts[i]) = ToLower(texts[j])
      PROVE  i = j
  <2>2. ~(i < j) /\ ~(j < i)
    <3>1. CASE i < j
      <4>1. i \in 1 .. j - 1
        BY <1>1, <3>1
      <4> QED
        BY <1>2, <1>4, <4>1 DEF Duplicates
    <3>2. CASE j < i
      <4>1. j \in 1 .. i - 1
        BY <1>1, <3>2
      <4> QED
        BY <1>2, <1>4, <4>1 DEF Duplicates
    <3> QED
      BY <3>1, <3>2
  <2>3. i \in Int /\ j \in Int
    BY <1>1
  <2> QED
    BY <2>2, <2>3
<1>5. after # None => after > 0 /\ after <= MaxDuration
  BY DEF ValidateExpiry
<1>6. Len(texts) \in 2 .. MaxOptions
  BY DEF MinOptions
<1> QED
  BY <1>3, <1>4, <1>5, <1>6 DEF WellFormed

\* CleanOptions accepts the choices, or names one of them, or the list.
LEMMA CleanedOptions ==
    ASSUME NEW raw \in Seq(Texts)
    PROVE  LET cleaned == CleanOptions(raw)
           IN /\ cleaned.ok => /\ cleaned.texts = Collapse(raw)
                               /\ Len(raw) \in MinOptions .. MaxOptions
                               /\ UnfitOptions(Collapse(raw)) = {}
              /\ ~cleaned.ok => /\ cleaned.field \in 0 .. MaxOptions
                                /\ \/ Len(raw) \notin MinOptions .. MaxOptions
                                   \/ cleaned.field \in UnfitOptions(Collapse(raw))
<1> DEFINE unfit == UnfitOptions(Collapse(raw))
<1>1. CleanOptions(raw) =
        IF Len(raw) \notin MinOptions .. MaxOptions THEN [ok |-> FALSE, field |-> 0]
        ELSE IF unfit = {} THEN [ok |-> TRUE, texts |-> Collapse(raw)]
        ELSE [ok |-> FALSE, field |-> CHOOSE i \in unfit : \A j \in unfit : i <= j]
  BY DEF CleanOptions, Collapse
<1>2. unfit \subseteq 1 .. Len(raw)
  BY CollapsedList DEF UnfitOptions
<1> HIDE DEF unfit
<1>3. CASE Len(raw) \notin MinOptions .. MaxOptions
  <2>1. CleanOptions(raw) = [ok |-> FALSE, field |-> 0]
    BY <1>1, <1>3
  <2>2. 0 \in 0 .. MaxOptions
    BY OptionsAssumption
  <2> QED
    BY <1>3, <2>1, <2>2
<1>4. CASE Len(raw) \in MinOptions .. MaxOptions /\ unfit = {}
  <2>1. CleanOptions(raw) = [ok |-> TRUE, texts |-> Collapse(raw)]
    BY <1>1, <1>4
  <2> QED
    BY <1>4, <2>1 DEF unfit
<1>5. CASE Len(raw) \in MinOptions .. MaxOptions /\ unfit # {}
  <2> DEFINE first == CHOOSE i \in unfit : \A j \in unfit : i <= j
  <2>1. CleanOptions(raw) = [ok |-> FALSE, field |-> first]
    BY <1>1, <1>5
  <2>2. unfit \in SUBSET Nat
    BY <1>2
  <2>3. first \in unfit
    BY <1>5, <2>2, LeastNumber
  <2>4. \A i \in unfit : i \in 0 .. MaxOptions
    BY <1>2, <1>5, OptionsAssumption DEF MinOptions
  <2>5. first \in 0 .. MaxOptions
    BY <2>3, <2>4
  <2> HIDE DEF first
  <2> QED
    BY <1>5, <2>1, <2>3, <2>5 DEF unfit
<1> QED
  BY <1>3, <1>4, <1>5

\* What the checks of the form let through.
Mirrored(options) ==
    /\ options \in Seq(Texts) /\ Len(options) \in MinOptions .. MaxOptions
    /\ \A i \in DOMAIN options : /\ options[i].spelling \notin {"spaced", "marked"}
                                 /\ IsText(options[i]) /\ options[i].word # Long
                                 /\ ~duplicatesAnother(options, i)

\* No row at fault means that the rows that are sent are none either: they are in the order
\* they had, so that a choice is compared with those before it on both sides.
LEMMA SentOptions ==
    ASSUME NEW texts \in Seq(Texts), enoughOptions(texts), unfitRows(texts) = {}
    PROVE  Mirrored(cleanOptions(texts))
<1> DEFINE flat == Trim(texts)
           S == {i \in DOMAIN flat : IsText(flat[i])}
           sent == cleanOptions(texts)
<1>1. /\ flat \in Seq(Texts) /\ DOMAIN flat = 1 .. Len(texts) /\ Len(flat) = Len(texts)
      /\ \A i \in DOMAIN flat : flat[i].spelling \notin {"spaced", "marked"}
  BY TrimmedList
<1>2. sent = Keep(flat, S)
  BY DEF cleanOptions, Trim
<1>3. \A i \in S : flat[i].word # Long /\ IsText(flat[i]) /\ ~duplicatesAnother(flat, i)
  BY DEF unfitRows, Trim
<1>4. S \in SUBSET DOMAIN flat
  OBVIOUS
<1> HIDE DEF flat, S, sent
<1>5. /\ sent \in Seq(Texts) /\ DOMAIN sent = 1 .. Cardinality(S)
      /\ Len(sent) = Cardinality(S) /\ Cardinality(S) <= Len(flat)
      /\ \A n \in DOMAIN sent : \E i \in S : sent[n] = flat[i]
      /\ \A n, m \in DOMAIN sent : n < m =>
            \E i, j \in S : i < j /\ sent[n] = flat[i] /\ sent[m] = flat[j]
  <2>1. Kept(Texts, flat, S, sent)
    BY <1>1, <1>2, <1>4, KeepKeeps
  <2> QED
    BY <2>1 DEF Kept
<1>6. Len(sent) \in MinOptions .. MaxOptions
  <2>1. Len(sent) >= MinOptions /\ Len(texts) <= MaxOptions
    BY DEF enoughOptions, sent
  <2>2. Len(sent) \in Nat /\ Len(texts) \in Nat /\ Len(sent) <= Len(texts)
    BY <1>1, <1>5
  <2> QED
    BY <2>1, <2>2, OptionsAssumption DEF MinOptions
<1>7. ASSUME NEW n \in DOMAIN sent
      PROVE  /\ sent[n].spelling \notin {"spaced", "marked"}
             /\ IsText(sent[n]) /\ sent[n].word # Long
  BY <1>1, <1>3, <1>4, <1>5
<1>8. ASSUME NEW n \in DOMAIN sent, duplicatesAnother(sent, n)
      PROVE  FALSE
  <2>1. PICK m \in 1 .. n - 1 : toLowerCase(sent[m]) = toLowerCase(sent[n])
    BY <1>8 DEF duplicatesAnother
  <2>2. DOMAIN sent = 1 .. Len(sent) /\ Len(sent) \in Nat
    BY <1>5
  <2>3. m \in DOMAIN sent /\ m < n
    BY <2>1, <2>2
  <2>4. PICK i \in S, j \in S : i < j /\ sent[m] = flat[i] /\ sent[n] = flat[j]
    BY <1>5, <2>3
  <2>5. i \in 1 .. j - 1
    BY <1>1, <1>4, <2>4
  <2>6. duplicatesAnother(flat, j)
    BY <2>1, <2>4, <2>5 DEF duplicatesAnother
  <2> QED
    BY <1>3, <2>6
<1> QED
  BY <1>5, <1>6, <1>7, <1>8 DEF Mirrored, sent

\* What the server does not see as the form does.
BlindSpot(options, field) ==
    \/ options[field].word = Control
    \/ options[field].word = Blank /\ options[field].spelling = "nextline"
    \/ \E j \in 1 .. field - 1 :
         /\ options[j].word = options[field].word
         /\ {options[j].spelling, options[field].spelling} \cap {"dotted", "nextline"} # {}

\* What the form let through, the server refuses for a blind spot of the form.
LEMMA MirroredFails ==
    ASSUME NEW options, Mirrored(options), ~CleanOptions(options).ok
    PROVE  LET field == CleanOptions(options).field
           IN field \in DOMAIN options \ {0} /\ BlindSpot(options, field)
<1> DEFINE field == CleanOptions(options).field
           texts == Collapse(options)
<1>1. options \in Seq(Texts) /\ Len(options) \in MinOptions .. MaxOptions
  BY DEF Mirrored
<1>2. field \in UnfitOptions(texts)
  BY <1>1, CleanedOptions
<1>3. /\ DOMAIN options = 1 .. Len(options) /\ Len(options) \in Nat
      /\ DOMAIN texts = DOMAIN options
      /\ \A i \in DOMAIN options : /\ options[i] \in Texts /\ texts[i] = collapseSpace(options[i])
                                   /\ texts[i].word = options[i].word
                                   /\ texts[i].spelling \notin {"spaced", "nextline"}
  BY <1>1, CollapsedList
<1> HIDE DEF field, texts
<1>4. /\ field \in DOMAIN options
      /\ Empty(texts[field]) \/ texts[field].word \in {Control, Long} \/ Duplicates(texts, field)
  BY <1>2, <1>3 DEF UnfitOptions
<1>5. /\ IsText(options[field]) /\ options[field].word # Long
      /\ ~duplicatesAnother(options, field)
  BY <1>4 DEF Mirrored
<1>6. texts[field].word = options[field].word
  BY <1>3, <1>4
<1>7. ASSUME Empty(texts[field]) PROVE BlindSpot(options, field)
  <2>1. options[field].word = Blank /\ options[field].spelling = "nextline"
    BY <1>5, <1>7, <1>6 DEF Empty, IsText
  <2> QED BY <2>1 DEF BlindSpot
<1>8. ASSUME texts[field].word \in {Control, Long} PROVE BlindSpot(options, field)
  <2>1. options[field].word = Control
    BY <1>5, <1>8, <1>6
  <2> QED BY <2>1 DEF BlindSpot
<1>9. ASSUME Duplicates(texts, field) PROVE BlindSpot(options, field)
  <2>1. PICK j \in 1 .. field - 1 : ToLower(texts[j]) = ToLower(texts[field])
    BY <1>9 DEF Duplicates
  <2>2. j \in DOMAIN options
    BY <1>3, <1>4, <2>1
  <2>3. toLowerCase(options[j]) # toLowerCase(options[field])
    BY <1>5, <2>1 DEF duplicatesAnother
  <2>4. /\ options[j].spelling \notin {"spaced", "marked"}
        /\ options[field].spelling \notin {"spaced", "marked"}
    BY <1>4, <2>2 DEF Mirrored
  <2>5. /\ options[j].word = options[field].word
        /\ {options[j].spelling, options[field].spelling} \cap {"dotted", "nextline"} # {}
    BY <1>3, <1>4, <2>1, <2>2, <2>3, <2>4, BlindDuplicate
  <2> QED BY <2>1, <2>5 DEF BlindSpot
<1>10. field # 0
  BY <1>3, <1>4
<1> QED
  BY <1>4, <1>7, <1>8, <1>9, <1>10 DEF field

----------------------------------------------------------------------------
(* What is stored, and what is refused                                     *)

Rows == [id : Int, text : Texts]

FormInv ==
    /\ rows \in Seq(Rows) /\ Len(rows) \in MinOptions .. MaxOptions
    /\ DOMAIN optionErrors \subseteq 1 .. MaxOptions
    /\ created \in Slugs \cup {None}
    /\ edits \in 0 .. MaxEdits /\ requests \in 0 .. MaxRequests /\ faults \in 0 .. MaxFaults

\* What the form sends has passed its checks, and every choice was typed in its row.
Passed(j) ==
    /\ validateQuestion(j.question) /\ Mirrored(j.options) /\ j.mode = "single" /\ j.after = None
    /\ DOMAIN j.rows = DOMAIN j.options
    /\ \A i \in DOMAIN j.options : j.rows[i].text.word = j.options[i].word

Excused(j, field) ==
    IF field = 0
    THEN \/ j.question.word = Control
         \/ j.question.word \in {Blank, Short} /\ j.question.spelling = "nextline"
         \/ j.question.word = Long /\ j.question.spelling = "marked"
    ELSE /\ field \in DOMAIN j.options /\ DOMAIN j.rows = DOMAIN j.options
         /\ j.rows[field].text.word = j.options[field].word
         /\ BlindSpot(j.options, field)

AnswerFits(c, j) ==
    \/ j.answer.status = "created" /\ j.answer.slug \in Slugs
    \/ /\ j.answer.status = "invalid" /\ j.answer.field \in 0 .. MaxOptions
       /\ c = "form" => Excused(j, j.answer.field)
    \/ j.answer.status = "internal"

\* A request is what was sent until it was validated, fit to be stored after that, and then
\* answered.
JobFits(c, j) ==
    \/ j = NoJob
    \/ /\ j.attempt \in 0 .. SlugAttempts - 1
       /\ \/ /\ j.pc = "sent" /\ j.question \in Texts /\ j.options \in Seq(Texts)
             /\ c = "form" => Passed(j)
          \/ j.pc = "insert" /\ WellFormed(j.options, j.mode, j.after)
          \/ j.pc = "answered" /\ AnswerFits(c, j)

JobsFit  == \A c \in Callers : JobFits(c, job[c])
PollsFit == \A p \in polls : WellFormed(p.options, p.mode, p.after)

TextsInv == FormInv /\ JobsFit /\ PollsFit

LEMMA BlankRows ==
    /\ blankOptions \in Seq(Rows) /\ Len(blankOptions) \in MinOptions .. MaxOptions
    /\ \A id \in Int : blankRow(id) \in Rows
<1>1. \A id \in Int : blankRow(id) \in Rows
  BY DEF blankRow, Rows, Texts
<1>2. blankOptions \in Seq(Rows) /\ Len(blankOptions) = 2
  BY <1>1 DEF blankOptions
<1> QED
  BY <1>1, <1>2, OptionsAssumption DEF MinOptions

LEMMA TextsInit == Init => TextsInv
<1> SUFFICES ASSUME Init PROVE TextsInv
  OBVIOUS
<1>1. DOMAIN noErrors = {}
  BY DEF noErrors
<1>2. FormInv
  BY <1>1, BlankRows, BoundsAssumption DEF Init, FormInv
<1>3. JobsFit /\ PollsFit
  BY DEF Init, JobsFit, JobFits, PollsFit
<1> QED
  BY <1>2, <1>3 DEF TextsInv

LEMMA JobFitsNow ==
    ASSUME CreateInv, TextsInv, FormInv', NEW c \in Callers, NEW j,
           job' = [job EXCEPT ![c] = j], JobFits(c, j), PollsFit'
    PROVE  TextsInv'
<1>1. job'[c] = j /\ \A d \in Callers \ {c} : job'[d] = job[d]
  BY DEF CreateInv, JobsInv
<1>2. JobsFit'
  BY <1>1 DEF TextsInv, JobsFit
<1> QED
  BY <1>2 DEF TextsInv

LEMMA FormEdits ==
    ASSUME CreateInv, TextsInv,
           addOption \/ createAnother
           \/ \E i \in DOMAIN rows : removeOption(i) \/ \E t \in FormTexts : updateOption(i, t)
    PROVE  TextsInv'
<1>1. JobsFit' /\ PollsFit'
  BY DEF addOption, createAnother, removeOption, updateOption, Edit, TextsInv, JobsFit, PollsFit
<1>2. /\ rows \in Seq(Rows) /\ Len(rows) \in MinOptions .. MaxOptions
      /\ Len(rows) \in Nat /\ DOMAIN rows = 1 .. Len(rows)
  BY DEF TextsInv, FormInv
<1>3. ASSUME Edit, rows' \in Seq(Rows), Len(rows') \in MinOptions .. MaxOptions,
             DOMAIN optionErrors' \subseteq DOMAIN optionErrors
      PROVE  FormInv'
  <2>1. edits' \in 0 .. MaxEdits
    BY <1>3, BoundsAssumption DEF Edit, TextsInv, FormInv
  <2> QED
    BY <1>3, <2>1 DEF Edit, TextsInv, FormInv
<1>4. CASE addOption
  <2>1. rows' = Append(rows, blankRow(MaxOptions + edits)) /\ Len(rows) < MaxOptions
    BY <1>4 DEF addOption
  <2>2. blankRow(MaxOptions + edits) \in Rows
    BY BlankRows, OptionsAssumption DEF TextsInv, FormInv
  <2>3. rows' \in Seq(Rows) /\ Len(rows') = Len(rows) + 1
    BY <1>2, <2>1, <2>2
  <2>4. Len(rows') \in MinOptions .. MaxOptions
    BY <1>2, <2>1, <2>3, OptionsAssumption DEF MinOptions
  <2> QED
    BY <1>1, <1>3, <1>4, <2>3, <2>4 DEF addOption, TextsInv
<1>5. CASE createAnother
  <2>1. DOMAIN noErrors = {}
    BY DEF noErrors
  <2>2. FormInv'
    BY <1>5, <2>1, BlankRows DEF createAnother, TextsInv, FormInv
  <2> QED
    BY <1>1, <2>2 DEF TextsInv
<1>6. ASSUME NEW i \in DOMAIN rows, removeOption(i)
      PROVE  TextsInv'
  <2> DEFINE l == Len(rows)
             head == SubSeq(rows, 1, i - 1)
             tail == SubSeq(rows, i + 1, l)
  <2>1. i \in 1 .. l /\ l \in Nat /\ l > MinOptions /\ rows' = head \o tail
    BY <1>2, <1>6 DEF removeOption, RemoveAt
  <2>2. \A k \in 1 .. l : rows[k] \in Rows
    BY <1>2
  <2>3. head \in Seq(Rows) /\ Len(head) = i - 1
    <3>1. \A k \in 1 .. i - 1 : rows[k] \in Rows
      BY <2>1, <2>2
    <3>2. head \in Seq(Rows) /\ Len(head) = IF 1 <= i - 1 THEN i - 1 - 1 + 1 ELSE 0
      BY <2>1, <3>1, SubSeqProperties
    <3> QED
      BY <2>1, <3>2
  <2>4. tail \in Seq(Rows) /\ Len(tail) = l - i
    <3>1. \A k \in i + 1 .. l : rows[k] \in Rows
      BY <2>1, <2>2
    <3>2. tail \in Seq(Rows) /\ Len(tail) = IF i + 1 <= l THEN l - (i + 1) + 1 ELSE 0
      BY <2>1, <3>1, SubSeqProperties
    <3> QED
      BY <2>1, <3>2
  <2> HIDE DEF head, tail
  <2>5. rows' \in Seq(Rows) /\ Len(rows') = l - 1
    BY <2>1, <2>3, <2>4, ConcatProperties
  <2>6. Len(rows') \in MinOptions .. MaxOptions
    BY <1>2, <2>1, <2>5, OptionsAssumption DEF MinOptions
  <2> QED
    BY <1>1, <1>3, <1>6, <2>5, <2>6 DEF removeOption, TextsInv
<1>7. ASSUME NEW i \in DOMAIN rows, NEW t \in FormTexts, updateOption(i, t)
      PROVE  TextsInv'
  <2> DEFINE row == [rows[i] EXCEPT !.text = t]
  <2>1. row \in Rows
    <3>1. rows[i] \in Rows /\ t \in Texts
      BY <1>2, TextsAssumption
    <3> QED
      BY <3>1 DEF Rows
  <2>2. rows' = [rows EXCEPT ![i] = row]
    BY <1>7 DEF updateOption
  <2> HIDE DEF row
  <2>3. rows' \in Seq(Rows) /\ Len(rows') = Len(rows)
    BY <1>2, <2>1, <2>2
  <2>4. DOMAIN optionErrors' \subseteq DOMAIN optionErrors
    BY <1>7 DEF updateOption, Without
  <2> QED
    BY <1>1, <1>2, <1>3, <1>7, <2>3, <2>4 DEF updateOption, TextsInv
<1> QED
  BY <1>4, <1>5, <1>6, <1>7

\* The rows as texts, and the places of those that are not blank.
LEMMA TypedTexts ==
    ASSUME FormInv
    PROVE  typed \in Seq(Texts) /\ DOMAIN typed = DOMAIN rows
<1>1. /\ Len(rows) \in Nat /\ DOMAIN rows = 1 .. Len(rows)
      /\ \A i \in 1 .. Len(rows) : rows[i] \in Rows
  BY DEF FormInv
<1>2. \A i \in 1 .. Len(rows) : rows[i].text \in Texts
  BY <1>1 DEF Rows
<1>3. typed \in [1 .. Len(rows) -> Texts]
  BY <1>1, <1>2 DEF typed
<1> QED
  BY <1>1, <1>3

\* What is sent goes with the rows it was typed in: both lists leave out the same ones.
LEMMA SentRows ==
    ASSUME FormInv
    PROVE  /\ DOMAIN Keep(rows, textRows) = DOMAIN cleanOptions(typed)
           /\ \A n \in DOMAIN cleanOptions(typed) :
                 Keep(rows, textRows)[n].text.word = cleanOptions(typed)[n].word
<1> DEFINE flat == Trim(typed)
           S == {i \in DOMAIN flat : IsText(flat[i])}
<1>1. typed \in Seq(Texts) /\ DOMAIN typed = DOMAIN rows /\ rows \in Seq(Rows)
  BY TypedTexts DEF FormInv
<1>2. DOMAIN typed = 1 .. Len(typed)
  BY <1>1
<1>3. /\ flat \in Seq(Texts) /\ DOMAIN flat = DOMAIN rows
      /\ \A i \in DOMAIN flat : /\ flat[i].word = typed[i].word
                                /\ IsText(flat[i]) <=> IsText(typed[i])
  BY <1>1, <1>2, TrimmedList
<1>4. \A i \in DOMAIN rows : typed[i] = rows[i].text
  BY DEF typed
<1>5. S = textRows
  BY <1>3, <1>4 DEF textRows
<1>6. cleanOptions(typed) = Keep(flat, S)
  BY DEF cleanOptions, Trim
<1>7. S \in SUBSET DOMAIN flat
  OBVIOUS
<1> HIDE DEF flat, S
<1>8. ASSUME NEW n \in DOMAIN Keep(flat, S)
      PROVE  Keep(rows, S)[n].text.word = Keep(flat, S)[n].word
  <2>1. PICK i \in S : Keep(flat, S)[n] = flat[i] /\ Keep(rows, S)[n] = rows[i]
    BY <1>1, <1>3, <1>7, KeepTogether
  <2> QED
    BY <1>3, <1>4, <1>7, <2>1
<1>9. DOMAIN Keep(rows, S) = DOMAIN Keep(flat, S)
  BY DEF Keep
<1> QED
  BY <1>5, <1>6, <1>8, <1>9

LEMMA FormSubmits ==
    ASSUME CreateInv, TextsInv, NEW q \in Questions, handleSubmit(q)
    PROVE  TextsInv'
<1>1. "form" \in Callers
  BY DEF Callers
<1>2. typed \in Seq(Texts) /\ DOMAIN typed = DOMAIN rows
  BY TypedTexts DEF TextsInv
<1>3. DOMAIN optionErrors' \subseteq 1 .. MaxOptions
  <2>1. DOMAIN optionErrors' \subseteq unfitRows(typed)
    BY DEF handleSubmit
  <2>2. unfitRows(typed) \subseteq DOMAIN rows
    BY <1>2 DEF unfitRows
  <2>3. DOMAIN rows = 1 .. Len(rows) /\ Len(rows) \in Nat /\ Len(rows) <= MaxOptions
    BY OptionsAssumption DEF TextsInv, FormInv, MinOptions
  <2>4. 1 .. Len(rows) \subseteq 1 .. MaxOptions
    BY <2>3, OptionsAssumption
  <2> QED
    BY <2>1, <2>2, <2>3, <2>4
<1>4. requests' \in 0 .. MaxRequests
  BY BoundsAssumption DEF handleSubmit, TextsInv, FormInv
<1>5. FormInv'
  BY <1>3, <1>4 DEF handleSubmit, TextsInv, FormInv
<1>6. PollsFit'
  BY DEF handleSubmit, TextsInv, PollsFit
<1>7. CASE job' = job
  BY <1>5, <1>6, <1>7 DEF TextsInv, JobsFit
<1>8. CASE /\ validateQuestion(q) /\ enoughOptions(typed) /\ unfitRows(typed) = {}
           /\ job' = [job EXCEPT !["form"] =
                        Request(q, cleanOptions(typed), "single", None, Keep(rows, textRows))]
  <2> DEFINE j == Request(q, cleanOptions(typed), "single", None, Keep(rows, textRows))
  <2>1. /\ j.pc = "sent" /\ j.question = q /\ j.options = cleanOptions(typed)
        /\ j.mode = "single" /\ j.after = None /\ j.attempt = 0
        /\ j.rows = Keep(rows, textRows)
    BY DEF Request
  <2>2. job' = [job EXCEPT !["form"] = j]
    BY <1>8
  <2> HIDE DEF j
  <2>3. Mirrored(cleanOptions(typed))
    BY <1>2, <1>8, SentOptions
  <2>4. /\ DOMAIN Keep(rows, textRows) = DOMAIN cleanOptions(typed)
        /\ \A n \in DOMAIN cleanOptions(typed) :
              Keep(rows, textRows)[n].text.word = cleanOptions(typed)[n].word
    BY SentRows DEF TextsInv
  <2>5. Passed(j) /\ j.options \in Seq(Texts)
    BY <1>8, <2>1, <2>3, <2>4 DEF Passed, Mirrored
  <2>6. j.question \in Texts /\ j.attempt \in 0 .. SlugAttempts - 1
    BY <2>1, TextsAssumption, AttemptsAssumption
  <2>7. JobFits("form", j)
    BY <2>1, <2>5, <2>6 DEF JobFits
  <2> QED
    BY <1>1, <1>5, <1>6, <2>2, <2>7, JobFitsNow
<1> QED
  BY <1>7, <1>8 DEF handleSubmit

LEMMA ApiSends ==
    ASSUME CreateInv, TextsInv, NEW in \in Crafted, CallAPI(in)
    PROVE  TextsInv'
<1> DEFINE j == Request(in.question, in.options, in.mode, in.after, <<>>)
<1>1. job' = [job EXCEPT !["api"] = j] /\ "api" \in Callers
  BY DEF CallAPI, Callers
<1>2. /\ j.pc = "sent" /\ j.question = in.question /\ j.options = in.options
      /\ j.attempt = 0
  BY DEF Request
<1> HIDE DEF j
<1>3. in.question \in Texts /\ in.options \in Seq(Texts)
  BY TextsAssumption
<1>4. JobFits("api", j)
  BY <1>2, <1>3, AttemptsAssumption DEF JobFits
<1>5. requests' \in 0 .. MaxRequests
  BY BoundsAssumption DEF CallAPI, TextsInv, FormInv
<1>6. FormInv' /\ PollsFit'
  BY <1>5 DEF CallAPI, form, TextsInv, FormInv, PollsFit
<1> QED
  BY <1>1, <1>4, <1>6, JobFitsNow

\* An answer that fits is given.
LEMMA AnswerGiven ==
    ASSUME CreateInv, TextsInv, FormInv', PollsFit', NEW c \in Callers, job[c] # NoJob,
           NEW answer, Answer(c, answer),
           \/ answer.status = "created" /\ answer.slug \in Slugs
           \/ /\ answer.status = "invalid" /\ answer.field \in 0 .. MaxOptions
              /\ c = "form" => Excused(job[c], answer.field)
           \/ answer.status = "internal"
    PROVE  TextsInv'
<1>1. PICK j : /\ job' = [job EXCEPT ![c] = j] /\ j.pc = "answered" /\ j.answer = answer
               /\ j.attempt = job[c].attempt /\ j.rows = job[c].rows
               /\ j.question = job[c].question /\ j.options = job[c].options
  BY AnswerMakes
<1>2. j.attempt \in 0 .. SlugAttempts - 1
  BY <1>1 DEF TextsInv, JobsFit, JobFits
<1>3. AnswerFits(c, j)
  BY <1>1 DEF AnswerFits, Excused
<1>4. JobFits(c, j)
  BY <1>1, <1>2, <1>3 DEF JobFits
<1> QED
  BY <1>1, <1>4, JobFitsNow

LEMMA TextsValidate ==
    ASSUME CreateInv, TextsInv, NEW c \in Callers, Validate(c)
    PROVE  TextsInv'
<1> DEFINE in == job[c]
           cleaned == CleanOptions(in.options)
<1>1. in.pc = "sent" /\ UNCHANGED <<form, polls, requests, faults>>
  BY DEF Validate
<1>2. in # NoJob
  BY <1>1 DEF NoJob
<1>3. /\ in.question \in Texts /\ in.options \in Seq(Texts)
      /\ in.attempt \in 0 .. SlugAttempts - 1 /\ (c = "form" => Passed(in))
  BY <1>1, <1>2 DEF TextsInv, JobsFit, JobFits
<1>4. FormInv' /\ PollsFit'
  BY <1>1 DEF form, TextsInv, FormInv, PollsFit
<1>5. ASSUME NEW field \in 0 .. MaxOptions, Answer(c, Refused(field)),
             c = "form" => Excused(in, field)
      PROVE  TextsInv'
  <2>1. Refused(field).status = "invalid" /\ Refused(field).field = field
    BY DEF Refused
  <2> QED
    BY <1>2, <1>4, <1>5, <2>1, AnswerGiven
<1>6. 0 \in 0 .. MaxOptions
  BY OptionsAssumption
<1>7. CASE ~CleanQuestion(in.question)
  <2>1. c = "form" => Excused(in, 0)
    BY <1>3, <1>7 DEF CleanQuestion, Empty, IsText, Passed, validateQuestion, Excused
  <2>2. Answer(c, Refused(0))
    BY <1>7 DEF Validate
  <2> QED
    BY <1>5, <1>6, <2>1, <2>2
<1>8. CASE CleanQuestion(in.question) /\ ~cleaned.ok
  <2>1. c = "form" => Excused(in, cleaned.field)
    <3>1. CASE c = "form"
      <4>1. Passed(in) /\ Mirrored(in.options)
        BY <1>3, <3>1 DEF Passed
      <4>2. cleaned.field \in DOMAIN in.options \ {0} /\ BlindSpot(in.options, cleaned.field)
        BY <1>8, <4>1, MirroredFails
      <4>3. /\ DOMAIN in.rows = DOMAIN in.options
            /\ in.rows[cleaned.field].text.word = in.options[cleaned.field].word
        BY <4>1, <4>2 DEF Passed
      <4> QED
        BY <4>2, <4>3 DEF Excused
    <3> QED
      BY <3>1
  <2>2. Answer(c, Refused(cleaned.field))
    BY <1>8 DEF Validate
  <2>3. cleaned.field \in 0 .. MaxOptions
    BY <1>3, <1>8, CleanedOptions
  <2> QED
    BY <1>5, <2>1, <2>2, <2>3
<1>9. CASE /\ CleanQuestion(in.question) /\ cleaned.ok
           /\ ~ModeOK(in.mode) \/ ~ValidateExpiry(in.after)
  <2>1. c # "form"
    BY <1>3, <1>9 DEF Passed, ModeOK, CleanMode, ValidateExpiry
  <2>2. Answer(c, Refused(0))
    BY <1>9 DEF Validate
  <2> QED
    BY <1>5, <1>6, <2>1, <2>2
<1>10. CASE /\ CleanQuestion(in.question) /\ cleaned.ok
            /\ ModeOK(in.mode) /\ ValidateExpiry(in.after)
  <2> DEFINE j1 == [in EXCEPT !.pc = "insert"]
             j2 == [j1 EXCEPT !.options = cleaned.texts]
             j3 == [j2 EXCEPT !.mode = CleanMode(in.mode)]
  <2>1. DOMAIN job = Callers /\ DOMAIN in = Fields
    BY <1>2 DEF CreateInv, JobsInv
  <2>2. job' = [job EXCEPT ![c] = j3]
    BY <1>10, <2>1 DEF Validate
  <2>3. /\ DOMAIN j1 = Fields /\ j1.pc = "insert" /\ j1.attempt = in.attempt
        /\ j1.after = in.after
    BY <2>1 DEF Fields
  <2> HIDE DEF j1
  <2>4. /\ DOMAIN j2 = Fields /\ j2.pc = "insert" /\ j2.attempt = in.attempt
        /\ j2.after = in.after /\ j2.options = cleaned.texts
    BY <2>3 DEF Fields
  <2> HIDE DEF j2
  <2>5. /\ DOMAIN j3 = Fields /\ j3.pc = "insert" /\ j3.attempt = in.attempt
        /\ j3.after = in.after /\ j3.options = cleaned.texts /\ j3.mode = CleanMode(in.mode)
    BY <2>4 DEF Fields
  <2> HIDE DEF j3
  <2>6. /\ cleaned.texts = Collapse(in.options) /\ UnfitOptions(Collapse(in.options)) = {}
        /\ Len(in.options) \in MinOptions .. MaxOptions
    BY <1>3, <1>10, CleanedOptions
  <2>7. /\ cleaned.texts \in Seq(Texts) /\ Len(cleaned.texts) \in MinOptions .. MaxOptions
        /\ \A i \in DOMAIN cleaned.texts : cleaned.texts[i].spelling \notin {"spaced", "nextline"}
        /\ UnfitOptions(cleaned.texts) = {}
    BY <1>3, <2>6, CollapsedList
  <2>8. CleanMode(in.mode) \in {"single", "multiple"}
    BY <1>10 DEF ModeOK
  <2> HIDE DEF cleaned
  <2>9. WellFormed(j3.options, j3.mode, j3.after)
    BY <1>10, <2>5, <2>7, <2>8, FitOptions
  <2>10. JobFits(c, j3)
    BY <1>3, <2>5, <2>9 DEF JobFits
  <2> QED
    BY <1>4, <2>2, <2>10, JobFitsNow
<1> QED
  BY <1>7, <1>8, <1>9, <1>10

LEMMA TextsAttempt ==
    ASSUME CreateInv, TextsInv, NEW c \in Callers, NEW slug \in Slugs, Attempt(c, slug)
    PROVE  TextsInv'
<1>1. job[c].pc = "insert" /\ job[c] # NoJob /\ UNCHANGED <<form, requests>>
  BY DEF Attempt, NoJob
<1>2. /\ WellFormed(job[c].options, job[c].mode, job[c].after)
      /\ job[c].attempt \in 0 .. SlugAttempts - 1
  BY <1>1 DEF TextsInv, JobsFit, JobFits
<1>3. faults' \in 0 .. MaxFaults
  BY BoundsAssumption DEF Attempt, Insert, Collide, InsertFails, FailOnce, TextsInv, FormInv
<1>4. FormInv'
  BY <1>1, <1>3 DEF form, TextsInv, FormInv
<1>5. PollsFit'
  <2> DEFINE doc == Document(c, slug)
  <2>1. WellFormed(doc.options, doc.mode, doc.after)
    BY <1>2 DEF Document
  <2> HIDE DEF doc
  <2>2. polls' \in {polls, polls \cup {doc}}
    BY DEF Attempt, Insert, Collide, InsertFails, FailOnce, doc
  <2> QED
    BY <2>1, <2>2 DEF TextsInv, PollsFit
<1>6. CASE Answer(c, Internal)
  <2>1. Internal.status = "internal"
    BY DEF Internal
  <2> QED
    BY <1>1, <1>4, <1>5, <1>6, <2>1, AnswerGiven
<1>7. CASE Answer(c, [status |-> "created", slug |-> slug])
  <2> DEFINE answer == [status |-> "created", slug |-> slug]
  <2>1. Answer(c, answer) /\ answer.status = "created" /\ answer.slug \in Slugs
    BY <1>7
  <2> HIDE DEF answer
  <2> QED
    BY <1>1, <1>4, <1>5, <2>1, AnswerGiven
<1>8. CASE job[c].attempt + 1 < SlugAttempts /\ job' = [job EXCEPT ![c].attempt = @ + 1]
  <2> DEFINE j == [job[c] EXCEPT !.attempt = @ + 1]
  <2>1. DOMAIN job = Callers /\ DOMAIN job[c] = Fields
    BY <1>1 DEF CreateInv, JobsInv
  <2>2. job' = [job EXCEPT ![c] = j]
    BY <1>8, <2>1
  <2>3. /\ j.pc = "insert" /\ j.attempt = job[c].attempt + 1 /\ j.options = job[c].options
        /\ j.mode = job[c].mode /\ j.after = job[c].after
    BY <1>1, <2>1 DEF Fields
  <2> HIDE DEF j
  <2>4. j.attempt \in 0 .. SlugAttempts - 1
    BY <1>2, <1>8, <2>3, AttemptsAssumption
  <2>5. JobFits(c, j)
    BY <1>2, <2>3, <2>4 DEF JobFits
  <2> QED
    BY <1>4, <1>5, <2>2, <2>5, JobFitsNow
<1> QED
  BY <1>6, <1>7, <1>8 DEF Attempt, Insert, Collide, InsertFails, NextAttempt

LEMMA TextsNext == CreateInv /\ TextsInv /\ [Next]_vars => TextsInv'
<1> SUFFICES ASSUME CreateInv, TextsInv, [Next]_vars PROVE TextsInv'
  OBVIOUS
<1>1. CASE UNCHANGED vars
  BY <1>1 DEF vars, form, TextsInv, FormInv, JobsFit, PollsFit
<1>2. ASSUME NEW c \in Callers, FormInv', job' = [job EXCEPT ![c] = NoJob], polls' = polls
      PROVE  TextsInv'
  <2>1. PollsFit' /\ JobFits(c, NoJob)
    BY <1>2 DEF TextsInv, PollsFit, JobFits
  <2> QED
    BY <1>2, <2>1, JobFitsNow
<1>3. CASE Deliver
  <2> DEFINE answer == job["form"].answer
  <2>1. job["form"].pc = "answered" /\ "form" \in Callers
    BY <1>3 DEF Deliver, Callers
  <2>2. AnswerFits("form", job["form"])
    BY <2>1 DEF TextsInv, JobsFit, JobFits, NoJob
  <2>3. created' \in Slugs \cup {None}
    BY <1>3, <2>2 DEF Deliver, AnswerFits
  <2>4. DOMAIN optionErrors' \subseteq 1 .. MaxOptions
    <3>1. CASE answer.status # "invalid"
      BY <1>3, <3>1 DEF Deliver, TextsInv, FormInv
    <3>2. CASE answer.status = "invalid"
      <4>1. answer.field \in 0 .. MaxOptions
        BY <2>2, <3>2 DEF AnswerFits
      <4>2. DOMAIN optionErrors' = {answer.field} \ {0}
        BY <1>3, <3>2 DEF Deliver
      <4> QED
        BY <4>1, <4>2, OptionsAssumption
    <3> QED
      BY <3>1, <3>2
  <2>5. FormInv'
    BY <1>3, <2>3, <2>4 DEF Deliver, TextsInv, FormInv
  <2> QED
    BY <1>2, <1>3, <2>1, <2>5 DEF Deliver
<1>4. CASE Lose \/ DeliverAPI
  <2>1. faults' \in 0 .. MaxFaults
    BY <1>4, BoundsAssumption DEF Lose, DeliverAPI, TextsInv, FormInv
  <2>2. FormInv'
    BY <1>4, <2>1 DEF Lose, DeliverAPI, form, TextsInv, FormInv
  <2> QED
    BY <1>2, <1>4, <2>2 DEF Lose, DeliverAPI, Callers
<1> QED
  BY <1>1, <1>3, <1>4, FormEdits, FormSubmits, ApiSends, TextsValidate, TextsAttempt
     DEF Next, Compose

LEMMA TextsInvHolds == Spec => []TextsInv
<1> QED
  BY CreateInvHolds, TextsInit, TextsNext, PTL DEF Spec

\* Whoever wrote the request, and whether or not the form had checked it, what is stored is
\* a well-formed poll: no step after the validation changes the choices.
THEOREM StoredPollsStayWellFormed == Spec => []StoredPollsAreWellFormed
<1>1. CreateInv /\ TextsInv => StoredPollsAreWellFormed
  <2> SUFFICES ASSUME CreateInv, TextsInv PROVE StoredPollsAreWellFormed
    OBVIOUS
  <2>1. \A i \in DOMAIN rows : rows[i].text \in Texts
    <3>1. \A i \in DOMAIN rows : rows[i] \in Rows
      BY DEF TextsInv, FormInv
    <3> QED
      BY <3>1 DEF Rows
  <2>2. \A c \in Callers : job[c].pc \in {"idle", "sent", "insert", "answered"}
    BY DEF TextsInv, JobsFit, JobFits, NoJob
  <2>3. \A c \in Callers : job[c] # NoJob => job[c].attempt \in 0 .. SlugAttempts - 1
    BY DEF TextsInv, JobsFit, JobFits
  <2>4. TypeOK
    BY <2>1, <2>2, <2>3 DEF TypeOK, TextsInv, FormInv
  <2> QED
    BY <2>4 DEF TextsInv, PollsFit, StoredPollsAreWellFormed
<1> QED
  BY <1>1, CreateInvHolds, TextsInvHolds, PTL

\* Whatever is typed, edited and sent, what the form passed is refused for a blind spot of
\* its mirror only, at the row it was typed in: leaving the blank rows out keeps the order, so
\* both sides compare a choice with the same ones.
THEOREM FormsRefusedForBlindSpots == Spec => []RefusalsAreBlindSpots
<1>1. TextsInv => RefusalsAreBlindSpots
  BY DEF TextsInv, JobsFit, JobFits, AnswerFits, Excused, BlindSpot, Callers, NoJob,
         RefusalsAreBlindSpots
<1> QED
  BY <1>1, TextsInvHolds, PTL
=============================================================================
