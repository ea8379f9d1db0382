---------------------------- MODULE PollCreation ----------------------------
(***************************************************************************)
(* How a poll comes to be: the form of CreatePollPage.jsx, a caller of the *)
(* API that does not use the form, PollService.Create with its draws of a  *)
(* slug, and the unique index on slugs.                                    *)
(*                                                                         *)
(* The rows of the form carry an identity, which the program does not      *)
(* have: it tells where an error about a row ends up.                      *)
(***************************************************************************)
EXTENDS Validation

CONSTANTS
    Slugs,
    SlugAttempts,   \* 4 in the code
    FormTexts,      \* what is typed into a row
    Questions,      \* what is typed as the question
    Crafted,        \* the inputs of the caller without a form
    MaxEdits, MaxRequests, MaxFaults

ASSUME AttemptsAssumption == SlugAttempts \in Nat \ {0}
ASSUME BoundsAssumption == MaxEdits \in Nat /\ MaxRequests \in Nat /\ MaxFaults \in Nat

\* Whatever is typed is a text, which the input of a row keeps from getting too long, and
\* whatever the other caller sends has the fields that the handler decodes.
ASSUME TextsAssumption ==
    /\ FormTexts \cup Questions \subseteq Texts /\ \A t \in FormTexts : t.word # Long
    /\ Crafted \subseteq [question : Texts, options : Seq(Texts), mode : STRING,
                         after : Int \cup {None}]

VARIABLES
    rows,           \* the form: [id, text] of each row
    optionErrors,   \* the row that the error shown at an index is about
    created,        \* the poll whose link is shown, or None
    job,            \* the request in flight of each caller
    polls,          \* the documents of the polls collection
    edits, requests, faults

form == <<rows, optionErrors, created, edits>>
vars == <<form, job, polls, requests, faults>>

Callers == {"form", "api"}

NoJob == [pc |-> "idle"]

\* A request as it is sent, with the rows that its choices come from.
Request(q, opts, m, after, sent) ==
    [ pc |-> "sent", question |-> q, options |-> opts, mode |-> m, after |-> after,
      rows |-> sent, number |-> requests, attempt |-> 0, answer |-> None ]

blankRow(id) == [id |-> id, text |-> [word |-> Blank, spelling |-> "plain"]]

blankOptions == <<blankRow(1), blankRow(2)>>

noErrors == <<>>

Init ==
    /\ rows = blankOptions /\ optionErrors = noErrors /\ created = None
    /\ job = [c \in Callers |-> NoJob]
    /\ polls = {}
    /\ edits = 0 /\ requests = 0 /\ faults = 0

typed == [i \in DOMAIN rows |-> rows[i].text]

textRows == {i \in DOMAIN rows : IsText(rows[i].text)}

-----------------------------------------------------------------------------
(* The form: it is there until a poll was created, also during a request   *)

Edit ==
    /\ created = None
    /\ edits < MaxEdits /\ edits' = edits + 1
    /\ UNCHANGED <<created, job, polls, requests, faults>>

Without(errors, S) == [i \in DOMAIN errors \ S |-> errors[i]]

updateOption(i, t) ==
    /\ Edit
    /\ rows' = [rows EXCEPT ![i].text = t]
    /\ optionErrors' = Without(optionErrors, {i})

addOption ==
    /\ Edit
    /\ Len(rows) < MaxOptions
    /\ rows' = Append(rows, blankRow(MaxOptions + edits))
    /\ UNCHANGED optionErrors

\* The rows below move up, the errors stay.
removeOption(i) ==
    /\ Edit
    /\ Len(rows) > MinOptions
    /\ rows' = RemoveAt(rows, i)
    /\ UNCHANGED optionErrors

\* handleSubmit: the rows are checked, and sent without the blank ones.
handleSubmit(q) ==
    /\ created = None /\ job["form"] = NoJob
    /\ optionErrors' = [i \in IF enoughOptions(typed) THEN unfitRows(typed) ELSE {} |-> rows[i].id]
    /\ IF validateQuestion(q) /\ enoughOptions(typed) /\ unfitRows(typed) = {}
       THEN /\ requests < MaxRequests /\ requests' = requests + 1
            /\ job' = [job EXCEPT !["form"] =
                  Request(q, cleanOptions(typed), "single", None,
                          Keep(rows, textRows))]
       ELSE UNCHANGED <<job, requests>>
    /\ UNCHANGED <<rows, created, polls, edits, faults>>

\* "Create another".
createAnother ==
    /\ created # None
    /\ created' = None /\ rows' = blankOptions /\ optionErrors' = noErrors
    /\ UNCHANGED <<job, polls, edits, requests, faults>>

CallAPI(in) ==
    /\ job["api"] = NoJob
    /\ requests < MaxRequests /\ requests' = requests + 1
    /\ job' = [job EXCEPT !["api"] =
          Request(in.question, in.options, in.mode, in.after, <<>>) ]
    /\ UNCHANGED <<form, polls, faults>>

-----------------------------------------------------------------------------
(* PollService.Create                                                      *)

Answer(c, answer) == job' = [job EXCEPT ![c].pc = "answered", ![c].answer = answer]

Refused(field) == [status |-> "invalid", field |-> field]

Internal == [status |-> "internal"]

\* Everything is checked before anything is stored; 0 stands for a field that is no choice.
Validate(c) ==
    LET in == job[c]
        cleaned == CleanOptions(in.options)
    IN /\ in.pc = "sent"
       /\ IF ~CleanQuestion(in.question) THEN Answer(c, Refused(0))
          ELSE IF ~cleaned.ok THEN Answer(c, Refused(cleaned.field))
          ELSE IF ~ModeOK(in.mode) \/ ~ValidateExpiry(in.after) THEN Answer(c, Refused(0))
          ELSE job' = [job EXCEPT ![c].pc = "insert", ![c].options = cleaned.texts,
                                  ![c].mode = CleanMode(in.mode)]
       /\ UNCHANGED <<form, polls, requests, faults>>

Document(c, slug) ==
    [ owner |-> c, number |-> job[c].number, slug |-> slug,
      options |-> job[c].options, mode |-> job[c].mode, after |-> job[c].after ]

\* A deviation: no unique index on the slug.
TakenNever(slug) == FALSE

\* The unique index on slugs.
Taken(slug) == \E p \in polls : p.slug = slug

NextAttempt(c) ==
    IF job[c].attempt + 1 < SlugAttempts THEN job' = [job EXCEPT ![c].attempt = @ + 1]
                                         ELSE Answer(c, Internal)

Insert(c, slug) ==
    /\ ~Taken(slug)
    /\ polls' = polls \cup {Document(c, slug)}
    /\ Answer(c, [status |-> "created", slug |-> slug])
    /\ UNCHANGED faults

Collide(c, slug) == Taken(slug) /\ NextAttempt(c) /\ UNCHANGED <<polls, faults>>

FailOnce(c, slug) ==
    /\ faults < MaxFaults /\ faults' = faults + 1
    /\ polls' = polls \/ (~Taken(slug) /\ polls' = polls \cup {Document(c, slug)})

\* A deviation: any error is retried, not only a duplicate key.
InsertFailsRetried(c, slug) == FailOnce(c, slug) /\ NextAttempt(c)

\* Any other error ends the request; the insert may have been applied.
InsertFails(c, slug) == FailOnce(c, slug) /\ Answer(c, Internal)

\* One draw of a slug, and one insert.
Attempt(c, slug) ==
    /\ job[c].pc = "insert"
    /\ Insert(c, slug) \/ Collide(c, slug) \/ InsertFails(c, slug)
    /\ UNCHANGED <<form, requests>>

-----------------------------------------------------------------------------
(* The answer                                                              *)

\* The form shows the link, or the errors: "options.N" at row N, as if no row had been
\* left out of what was sent.
Deliver ==
    /\ job["form"].pc = "answered"
    /\ LET answer == job["form"].answer
       IN /\ created' = IF answer.status = "created" THEN answer.slug ELSE None
          /\ optionErrors' =
                IF answer.status # "invalid" THEN optionErrors
                ELSE [i \in {answer.field} \ {0} |-> job["form"].rows[i].id]
    /\ job' = [job EXCEPT !["form"] = NoJob]
    /\ UNCHANGED <<rows, polls, edits, requests, faults>>

\* Nothing comes back: the form says so, and the user may send it again.
Lose ==
    /\ job["form"] # NoJob
    /\ faults < MaxFaults /\ faults' = faults + 1
    /\ job' = [job EXCEPT !["form"] = NoJob]
    /\ UNCHANGED <<form, polls, requests>>

DeliverAPI ==
    /\ job["api"].pc = "answered"
    /\ job' = [job EXCEPT !["api"] = NoJob]
    /\ UNCHANGED <<form, polls, requests, faults>>

Compose ==
    \/ \E i \in DOMAIN rows : removeOption(i) \/ \E t \in FormTexts : updateOption(i, t)
    \/ addOption \/ createAnother
    \/ \E q \in Questions : handleSubmit(q)

Next ==
    \/ Compose \/ Deliver \/ Lose \/ DeliverAPI
    \/ \E in \in Crafted : CallAPI(in)
    \/ \E c \in Callers : Validate(c) \/ \E slug \in Slugs : Attempt(c, slug)

Spec == Init /\ [][Next]_vars

-----------------------------------------------------------------------------
(* Properties                                                              *)

\* Every variable has its type, and an error is shown at an index.
TypeOK ==
    /\ Len(rows) \in MinOptions .. MaxOptions
    /\ \A i \in DOMAIN rows : rows[i].text \in Texts
    /\ DOMAIN optionErrors \subseteq 1 .. MaxOptions
    /\ created \in Slugs \cup {None}
    /\ \A c \in Callers : job[c].pc \in {"idle", "sent", "insert", "answered"}
    /\ \A c \in Callers : job[c] # NoJob => job[c].attempt \in 0 .. SlugAttempts - 1
    /\ edits \in 0 .. MaxEdits /\ requests \in 0 .. MaxRequests /\ faults \in 0 .. MaxFaults

\* Two choices or more, none of them unfit, that differ when they are in lower case, a known
\* mode, and a closing time ahead.
WellFormed(options, mode, after) ==
    /\ Len(options) \in 2 .. MaxOptions
    /\ \A i \in DOMAIN options :
         /\ options[i].word \in Words \cup {Short} \/ options[i] = [word |-> Blank, spelling |-> "marked"]
         /\ options[i].spelling \notin {"spaced", "nextline"}
         /\ \A j \in DOMAIN options : ToLower(options[i]) = ToLower(options[j]) => i = j
    /\ mode \in {"single", "multiple"}
    /\ after # None => after > 0 /\ after <= MaxDuration

\* Whoever wrote the request, a stored poll is well formed; every variable has its type,
\* which bounds the attempts.
StoredPollsAreWellFormed ==
    TypeOK /\ \A p \in polls : WellFormed(p.options, p.mode, p.after)

\* The link that the form shows leads to one poll, which is its user's own.
CreatedLinksLeadToTheirPoll ==
    created # None =>
        \E p \in polls : p.owner = "form" /\ {q \in polls : q.slug = created} = {p}

\* poll.go:115-136 of services: however many slugs collide and whatever fails, a request
\* stores one poll, or none; and exactly one if it was told so.
OnePollPerRequest ==
    /\ \A p, q \in polls : p.number = q.number => p = q
    /\ \A c \in Callers :
          job[c].pc = "answered" /\ job[c].answer.status = "created" =>
              \E p \in polls : p.number = job[c].number /\ p.slug = job[c].answer.slug

\* The mirror of lib/validation.js lets through what it does not look for, a control
\* character, and what it takes for something else: space or a capital that only the server
\* knows.  Nothing else that it passed is refused, whatever rows were left blank or changed
\* since; and the choice that is named is the one typed in the row that was sent at that
\* place.
RefusalsAreBlindSpots ==
    LET sent  == job["form"]
        field == sent.answer.field
        asked == sent.question
        text  == sent.options[field]
    IN  sent.pc = "answered" /\ sent.answer.status = "invalid" =>
          IF field = 0
          THEN \/ asked.word = Control
               \/ asked.word \in {Blank, Short} /\ asked.spelling = "nextline"
               \/ asked.word = Long /\ asked.spelling = "marked"
          ELSE /\ field \in DOMAIN sent.options /\ DOMAIN sent.rows = DOMAIN sent.options
               /\ sent.rows[field].text.word = text.word
               /\ \/ text.word = Control
                  \/ text.word = Blank /\ text.spelling = "nextline"
                  \/ \E j \in 1 .. field - 1 :
                       /\ sent.options[j].word = text.word
                       /\ {sent.options[j].spelling, text.spelling} \cap {"dotted", "nextline"} # {}

-----------------------------------------------------------------------------
(* What the repository says of the program and TLC refutes                 *)

\* validation.js:104, "Case-insensitive, matching the server", and the other rules of the
\* mirror: but for control characters, which it does not look for, what it lets through is
\* not refused.
OnlyControlCharactersAreRefused ==
    LET sent  == job["form"]
        field == sent.answer.field
    IN  sent.pc = "answered" /\ sent.answer.status = "invalid" =>
          IF field = 0 THEN sent.question.word = Control
                       ELSE field \in DOMAIN sent.options /\ sent.options[field].word = Control

\* CreatePollPage.jsx:89-91: the errors of the server "land on the right input", when
\* nothing was typed in the meantime.
ErrorsLandOnTheirRow ==
    [][ job["form"].pc = "answered" /\ job'["form"] = NoJob
          /\ job["form"].rows = Keep(rows, textRows)
        => \A i \in DOMAIN optionErrors' : rows'[i].id = optionErrors'[i] ]_vars
=============================================================================
