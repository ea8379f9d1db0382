--------------------------- MODULE VoteGateProofs ---------------------------
(***************************************************************************)
(* Theorems about VoteGate, for every limit and window, any number of      *)
(* requests, browsers and addresses, and every budget of faults.           *)
(***************************************************************************)
EXTENDS VoteGate, FiniteSetTheorems, TLAPS

USE LimitAssumption, WindowAssumption, TickAssumption, BoundAssumption, NameAssumption

\* A request that has been sent has asked for something, and one that is not refused at
\* once has a voter.
SentInv ==
    \A r \in Requests : /\ pc[r] # "idle" => req[r] \in Ballots
                        /\ pc[r] \in {"limit", "vote"} => req[r].voter \in Requests

TypeInv == TypeOK /\ SentInv

----------------------------------------------------------------------------
(* The data operators                                                      *)

\* One vote more is counted in a key that has an end.
LEMMA CountedType ==
    ASSUME NEW w \in Keys \cup {None}
    PROVE  Counted(w) \in Keys
  BY DEF Counted, Keys

\* Rounding up to seconds never tells a voter to come back too early.
LEMMA RetryCoversWindow ==
    ASSUME NEW ttl \in Nat
    PROVE  /\ RetrySeconds(ttl) * TicksPerSecond \in Nat
           /\ RetrySeconds(ttl) * TicksPerSecond >= ttl
<1> DEFINE T == TicksPerSecond
           x == ttl + T - 1
           q == x \div T
<1>1. T \in Nat \ {0} /\ x \in Nat
  OBVIOUS
<1>2. q \in Int /\ x % T \in 0 .. T - 1 /\ x = T * q + (x % T)
  BY <1>1, SMTT(30)
<1> HIDE DEF q
<1>3. q * T = T * q /\ q * T \in Int
  BY <1>1, <1>2, SMTT(30)
<1>4. q * T >= ttl
  BY <1>1, <1>2, <1>3, SMTT(30)
<1> QED
  BY <1>3, <1>4 DEF RetrySeconds, q

----------------------------------------------------------------------------
(* Types                                                                   *)

LEMMA TypeInit == Init => TypeInv
<1> SUFFICES ASSUME Init PROVE TypeInv
  OBVIOUS
<1>1. TypeOK
  BY DEF Init, TypeOK, NoAnswer
<1>2. SentInv
  BY DEF Init, SentInv
<1> QED
  BY <1>1, <1>2 DEF TypeInv

\* Whatever is answered, the answer and the place are of their types.
LEMMA AnswerType ==
    ASSUME TypeInv, NEW r \in Requests, NEW status \in Statuses, pc[r] # "idle",
           Answer(r, status)
    PROVE  /\ pc' \in [Requests -> {"idle", "limit", "vote", "answered", "done"}]
           /\ resp' \in [Requests -> {NoAnswer} \cup
                            [status : Statuses, setCookie : Requests \cup {None}]]
           /\ pc' = [pc EXCEPT ![r] = "answered"]
<1>1. req[r].voter \in Requests \cup {None}
  BY DEF TypeInv, SentInv, Ballots
<1>2. [status |-> status, setCookie |-> IF req[r].cookie = None THEN req[r].voter ELSE None]
         \in [status : Statuses, setCookie : Requests \cup {None}]
  BY <1>1
<1> QED
  BY <1>2 DEF Answer, TypeInv, TypeOK

LEMMA TypeSend ==
    ASSUME TypeInv, NEW r \in Requests, NEW b \in Browsers, NEW a \in Addresses \cup {NoAddress},
           Send(r, b, a) \/ SendMalformed(r, b, a)
    PROVE  TypeInv'
<1>1. \A v \in Requests \cup {None} :
        [browser |-> b, address |-> a, cookie |-> cookie[b], voter |-> v] \in Ballots
  BY DEF TypeInv, TypeOK, Ballots
<1>2. CASE Send(r, b, a)
  <2>1. VoterKey(r, b) \in Requests
    BY DEF TypeInv, TypeOK, VoterKey
  <2>2. SentInv'
    BY <1>1, <1>2, <2>1 DEF Send, TypeInv, TypeOK, SentInv
  <2>3. TypeOK'
    BY <1>1, <1>2, <2>1 DEF Send, TypeInv, TypeOK, limiter
  <2> QED
    BY <2>2, <2>3 DEF TypeInv
<1>3. CASE SendMalformed(r, b, a)
  <2>1. SentInv'
    BY <1>1, <1>3 DEF SendMalformed, TypeInv, TypeOK, SentInv
  <2>2. [NoAnswer EXCEPT !.status = "invalid"]
           \in [status : Statuses, setCookie : Requests \cup {None}]
    BY DEF NoAnswer, Statuses
  <2>3. TypeOK'
    BY <1>1, <1>3, <2>2 DEF SendMalformed, TypeInv, TypeOK, limiter
  <2> QED
    BY <2>1, <2>3 DEF TypeInv
<1> QED
  BY <1>2, <1>3

LEMMA TypeCheck ==
    ASSUME TypeInv, NEW r \in Requests, CheckRateLimit(r)
    PROVE  TypeInv'
<1> DEFINE a == req[r].address
           w == Counted(window[a])
           g == IF window[a] = None THEN 0 ELSE granted[a]
<1>1. a \in Addresses
  BY DEF CheckRateLimit, TypeInv, SentInv, Ballots
<1>2. w \in Keys /\ g \in Nat
  BY <1>1, CountedType DEF TypeInv, TypeOK
<1>3. window' = [window EXCEPT ![a] = w] /\ window' \in [Addresses -> Keys \cup {None}]
  BY <1>1, <1>2 DEF CheckRateLimit, TypeInv, TypeOK
<1>4. granted' \in [Addresses -> Nat]
  BY <1>1, <1>2 DEF CheckRateLimit, TypeInv, TypeOK
<1>5. wait' \in [Requests -> Nat]
  BY <1>2, RetryCoversWindow DEF CheckRateLimit, TypeInv, TypeOK, Keys
<1>6. ago' \in [Requests -> Ages \cup {Never}]
  BY DEF CheckRateLimit, TypeInv, TypeOK, Ages
<1>7. /\ pc' \in [Requests -> {"idle", "limit", "vote", "answered", "done"}]
      /\ resp' \in [Requests -> {NoAnswer} \cup [status : Statuses, setCookie : Requests \cup {None}]]
      /\ \A q \in Requests : pc'[q] # "idle" => pc[q] # "idle"
      /\ \A q \in Requests : pc'[q] \in {"limit", "vote"} => pc[q] \in {"limit", "vote"}
  <2>1. CASE Pass(r)
    BY <2>1 DEF Pass, CheckRateLimit, TypeInv, TypeOK
  <2>2. CASE Answer(r, "tooMany")
    <3>1. "tooMany" \in Statuses /\ pc[r] # "idle"
      BY DEF Statuses, CheckRateLimit
    <3> QED
      BY <2>2, <3>1, AnswerType DEF TypeInv, TypeOK
  <2> QED
    BY <2>1, <2>2 DEF CheckRateLimit
<1>8. SentInv'
  BY <1>7 DEF CheckRateLimit, TypeInv, SentInv
<1>9. TypeOK'
  BY <1>3, <1>4, <1>5, <1>6, <1>7 DEF CheckRateLimit, TypeInv, TypeOK
<1> QED
  BY <1>8, <1>9 DEF TypeInv

LEMMA TypePass ==
    ASSUME TypeInv, NEW r \in Requests, CheckNobody(r) \/ CheckFails(r)
    PROVE  TypeInv'
<1>1. pc' \in [Requests -> {"idle", "limit", "vote", "answered", "done"}]
  BY DEF CheckNobody, CheckFails, Pass, TypeInv, TypeOK
<1>2. SentInv'
  BY DEF CheckNobody, CheckFails, Pass, TypeInv, TypeOK, SentInv
<1>3. CASE CheckNobody(r)
  BY <1>1, <1>2, <1>3 DEF CheckNobody, Pass, TypeInv, TypeOK, limiter
<1>4. CASE CheckFails(r)
  <2>1. req[r].address \in Addresses
    BY <1>4 DEF CheckFails, TypeInv, SentInv, Ballots
  <2>2. Counted(window[req[r].address]) \in Keys
    BY <2>1, CountedType DEF TypeInv, TypeOK
  <2>3. window' \in [Addresses -> Keys \cup {None}]
    BY <1>4, <2>1, <2>2 DEF CheckFails, TypeInv, TypeOK
  <2>5. granted' \in [Addresses -> Nat]
    BY <1>4, <2>1 DEF CheckFails, TypeInv, TypeOK
  <2>4. redisFaults' \in 0 .. MaxRedisFaults
    BY <1>4 DEF CheckFails, TypeInv, TypeOK
  <2> QED
    BY <1>1, <1>2, <1>4, <2>3, <2>4, <2>5 DEF CheckFails, Pass, TypeInv, TypeOK
<1> QED
  BY <1>3, <1>4

LEMMA TypeVote ==
    ASSUME TypeInv, NEW r \in Requests, Vote(r)
    PROVE  TypeInv'
<1> DEFINE doc == [voter |-> req[r].voter, browser |-> req[r].browser]
<1>1. PICK status \in Statuses : Answer(r, status)
  BY DEF Vote, Statuses
<1>2. pc[r] # "idle"
  BY DEF Vote
<1>3. SentInv'
  BY <1>1, <1>2, AnswerType DEF Vote, TypeInv, TypeOK, SentInv
<1>4. votes' \subseteq [voter : Requests, browser : Browsers]
  BY <1>2 DEF Vote, TypeInv, TypeOK, SentInv, Ballots
<1>5. TypeOK'
  BY <1>1, <1>2, <1>4, AnswerType DEF Vote, TypeInv, TypeOK, limiter
<1> QED
  BY <1>3, <1>5 DEF TypeInv

LEMMA TypeOver ==
    ASSUME TypeInv, NEW r \in Requests, Deliver(r) \/ Lose(r)
    PROVE  TypeInv'
<1>1. /\ pc' \in [Requests -> {"idle", "limit", "vote", "answered", "done"}]
      /\ resp' \in [Requests -> {NoAnswer} \cup [status : Statuses, setCookie : Requests \cup {None}]]
  BY DEF Deliver, Lose, Over, TypeInv, TypeOK
<1>2. SentInv'
  BY DEF Deliver, Lose, Over, TypeInv, TypeOK, SentInv
<1>3. req[r].browser \in Browsers /\ resp[r].setCookie \in Requests \cup {None}
  BY DEF Deliver, Lose, Over, TypeInv, TypeOK, SentInv, Ballots, NoAnswer
<1>4. cookie' \in [Browsers -> Requests \cup {None}]
  BY <1>3 DEF Deliver, Lose, TypeInv, TypeOK
<1>5. lost' \in 0 .. MaxLost /\ excused' \subseteq Browsers
  BY <1>3 DEF Deliver, Lose, TypeInv, TypeOK
<1>6. TypeOK'
  BY <1>1, <1>4, <1>5 DEF Deliver, Lose, Over, TypeInv, TypeOK, limiter
<1> QED
  BY <1>2, <1>6 DEF TypeInv

LEMMA TypeTick ==
    ASSUME TypeInv, Tick
    PROVE  TypeInv'
<1>1. ASSUME NEW a \in Addresses
      PROVE  window'[a] \in Keys \cup {None}
  BY <1>1 DEF Tick, TypeInv, TypeOK, Keys
<1>2. window' \in [Addresses -> Keys \cup {None}]
  BY <1>1 DEF Tick
<1>3. ago' \in [Requests -> Ages \cup {Never}]
  <2>1. \A t \in Ages : t + 1 \in Ages \cup {Never}
    BY DEF Ages, Never
  <2> QED
    BY <2>1 DEF Tick
<1>4. wait' \in [Requests -> Nat] /\ blocked' \subseteq Requests
  BY DEF Tick, Gone, TypeInv, TypeOK
<1>5. TypeOK' /\ SentInv'
  BY <1>2, <1>3, <1>4 DEF Tick, TypeInv, TypeOK, SentInv
<1> QED
  BY <1>5 DEF TypeInv

LEMMA TypeLoseWindow ==
    ASSUME TypeInv, NEW a \in Addresses, LoseWindow(a)
    PROVE  TypeInv'
  BY DEF LoseWindow, Gone, TypeInv, TypeOK, SentInv

LEMMA TypeNext == TypeInv /\ [Next]_vars => TypeInv'
<1> SUFFICES ASSUME TypeInv, [Next]_vars PROVE TypeInv'
  OBVIOUS
<1>1. CASE UNCHANGED vars
  BY <1>1 DEF vars, limiter, TypeInv, TypeOK, SentInv
<1>2. CASE Tick
  BY <1>2, TypeTick
<1>3. CASE \E a \in Addresses : LoseWindow(a)
  BY <1>3, TypeLoseWindow
<1>4. ASSUME NEW r \in Requests, Handle(r)
      PROVE  TypeInv'
  BY <1>4, TypeSend, TypeCheck, TypePass, TypeVote, TypeOver DEF Handle
<1> QED
  BY <1>1, <1>2, <1>3, <1>4 DEF Next

\* Every variable keeps its type: a key of an address always has an end.
THEOREM TypesHold == Spec => []TypeInv
<1> QED
  BY TypeInit, TypeNext, PTL DEF Spec

----------------------------------------------------------------------------
(* The limit                                                               *)

\* What was let pass was counted, and the count was within the limit.
GrantedInv ==
    \A a \in Addresses : window[a] # None => granted[a] <= Limit /\ granted[a] <= window[a].count

LEMMA GrantedNext == TypeInv /\ GrantedInv /\ [Next]_vars => GrantedInv'
<1> SUFFICES ASSUME TypeInv, GrantedInv, [Next]_vars PROVE GrantedInv'
  OBVIOUS
<1>1. CASE UNCHANGED limiter
  BY <1>1 DEF limiter, GrantedInv
<1>2. CASE Tick
  BY <1>2 DEF Tick, GrantedInv, TypeInv, TypeOK, Keys
<1>3. ASSUME NEW a \in Addresses, LoseWindow(a)
      PROVE  GrantedInv'
  BY <1>3 DEF LoseWindow, GrantedInv, TypeInv, TypeOK
<1>4. ASSUME NEW r \in Requests, CheckRateLimit(r)
      PROVE  GrantedInv'
  <2> DEFINE a == req[r].address
             w == Counted(window[a])
             g == IF window[a] = None THEN 0 ELSE granted[a]
  <2>1. a \in Addresses
    BY <1>4 DEF CheckRateLimit, TypeInv, SentInv, Ballots
  <2>2. w \in Keys /\ g \in Nat /\ g <= Limit /\ g + 1 <= w.count
    BY <2>1, CountedType DEF GrantedInv, TypeInv, TypeOK, Counted, Keys
  <2>3. /\ window' = [window EXCEPT ![a] = w]
        /\ \/ w.count <= Limit /\ granted' = [granted EXCEPT ![a] = g + 1]
           \/ granted' = [granted EXCEPT ![a] = g]
    BY <1>4 DEF CheckRateLimit, Allowed
  <2>4. /\ window'[a] = w
        /\ granted'[a] \in {g, g + 1} /\ granted'[a] <= Limit
    BY <2>1, <2>2, <2>3 DEF TypeInv, TypeOK, Keys
  <2>5. \A b \in Addresses \ {a} : window'[b] = window[b] /\ granted'[b] = granted[b]
    BY <2>1, <2>3 DEF TypeInv, TypeOK
  <2> QED
    BY <2>2, <2>4, <2>5 DEF GrantedInv, Keys
<1>5. ASSUME NEW r \in Requests, CheckFails(r)
      PROVE  GrantedInv'
  <2> DEFINE a == req[r].address
             w == Counted(window[a])
             g == IF window[a] = None THEN 0 ELSE granted[a]
  <2>1. a \in Addresses
    BY <1>5 DEF CheckFails, TypeInv, SentInv, Ballots
  <2>2. w \in Keys /\ g \in Nat /\ g <= Limit /\ g <= w.count
    BY <2>1, CountedType DEF GrantedInv, TypeInv, TypeOK, Counted, Keys
  <2>3. CASE UNCHANGED <<window, granted>>
    BY <2>3 DEF GrantedInv
  <2>4. CASE /\ window' = [window EXCEPT ![a] = w]
             /\ granted' = [granted EXCEPT ![a] = g]
    BY <2>1, <2>2, <2>4 DEF GrantedInv, TypeInv, TypeOK
  <2> QED
    BY <1>5, <2>3, <2>4 DEF CheckFails
<1>6. CASE \E r \in Requests : \/ \E b \in Browsers, a \in Addresses \cup {NoAddress} :
                                     Send(r, b, a) \/ SendMalformed(r, b, a)
                               \/ CheckNobody(r) \/ Vote(r) \/ Deliver(r) \/ Lose(r)
  BY <1>1, <1>6 DEF Send, SendMalformed, CheckNobody, Vote, Deliver, Lose, Over
<1>7. CASE UNCHANGED vars
  BY <1>1, <1>7 DEF vars
<1> QED
  BY <1>2, <1>3, <1>4, <1>5, <1>6, <1>7 DEF Next, Handle

----------------------------------------------------------------------------
(* Twice the limit                                                         *)

\* What the script let pass since the key of an address was created, and before.
Young(a) == {r \in Recent(a) : ago[r] <= Window - window[a].ttl}
Old(a)   == Recent(a) \ Young(a)

\* Only a vote that was sent has passed.
PassedInv == \A r \in Requests : ago[r] \in Ages => pc[r] # "idle"

\* An address has the votes of two keys, at most, in the last window of time: the key it
\* has, if any, and the one before.
TwoKeysInv ==
    redisFaults = 0 =>
        \A a \in Addresses :
            /\ IsFiniteSet(Recent(a))
            /\ window[a] = None => /\ Cardinality(Recent(a)) <= Limit
                                   /\ \A r \in Recent(a) : ago[r] # 0
            /\ window[a] # None => /\ Cardinality(Young(a)) <= granted[a]
                                   /\ Cardinality(Old(a)) <= Limit

LEMMA PassedNext == TypeInv /\ PassedInv /\ [Next]_vars => PassedInv'
<1> SUFFICES ASSUME TypeInv, PassedInv, [Next]_vars PROVE PassedInv'
  OBVIOUS
<1>1. CASE UNCHANGED vars
  BY <1>1 DEF vars, limiter, PassedInv
<1>2. CASE Tick
  BY <1>2 DEF Tick, PassedInv, TypeInv, TypeOK, Ages, Never
<1>3. CASE \E a \in Addresses : LoseWindow(a)
  BY <1>3 DEF LoseWindow, PassedInv
<1>4. ASSUME NEW r \in Requests, Handle(r)
      PROVE  PassedInv'
  <2>1. \A q \in Requests : pc[q] # "idle" => pc'[q] # "idle"
    BY <1>4 DEF Handle, Send, SendMalformed, CheckRateLimit, CheckNobody, CheckFails, Pass,
                Answer, Vote, Deliver, Lose, Over, TypeInv, TypeOK
  <2>2. ago' = ago \/ (ago' = [ago EXCEPT ![r] = 0] /\ pc[r] = "limit")
    BY <1>4 DEF Handle, Send, SendMalformed, CheckRateLimit, CheckNobody, CheckFails,
                Vote, Deliver, Lose, Over, limiter
  <2> QED
    BY <2>1, <2>2 DEF PassedInv, TypeInv, TypeOK
<1> QED
  BY <1>1, <1>2, <1>3, <1>4 DEF Next

\* What leaves the keys and the votes that passed alone.
LEMMA TwoKeysStay ==
    ASSUME TypeInv, TwoKeysInv, redisFaults' = 0 => redisFaults = 0,
           UNCHANGED <<window, granted, ago>>,
           \A r \in Requests : ago[r] \in Ages => req'[r] = req[r]
    PROVE  TwoKeysInv'
<1>1. \A a \in Addresses : Recent(a)' = Recent(a)
  BY DEF Recent
<1>2. \A a \in Addresses : Young(a)' = Young(a) /\ Old(a)' = Old(a)
  BY <1>1 DEF Young, Old
<1> QED
  BY <1>1, <1>2 DEF TwoKeysInv

\* A vote is let pass by the key there is, or by a new one.
LEMMA TwoKeysCheck ==
    ASSUME TypeInv, GrantedInv, TwoKeysInv, NEW r \in Requests, CheckRateLimit(r)
    PROVE  TwoKeysInv'
<1> SUFFICES ASSUME redisFaults = 0, NEW a \in Addresses
             PROVE  /\ IsFiniteSet(Recent(a)')
                    /\ window'[a] = None => /\ Cardinality(Recent(a)') <= Limit
                                            /\ \A q \in Recent(a)' : ago'[q] # 0
                    /\ window'[a] # None => /\ Cardinality(Young(a)') <= granted'[a]
                                            /\ Cardinality(Old(a)') <= Limit
  BY DEF TwoKeysInv, CheckRateLimit
<1> DEFINE c == req[r].address
           w == Counted(window[c])
           g == IF window[c] = None THEN 0 ELSE granted[c]
<1>1. c \in Addresses /\ w \in Keys /\ g \in Nat /\ req' = req
  BY CountedType DEF CheckRateLimit, TypeInv, TypeOK, SentInv, Ballots
<1>2. window' = [window EXCEPT ![c] = w] /\ w # None
  BY <1>1 DEF CheckRateLimit
<1>3. \/ /\ granted' = [granted EXCEPT ![c] = g + 1]
         /\ ago' = [ago EXCEPT ![r] = 0]
      \/ /\ granted' = [granted EXCEPT ![c] = g]
         /\ ago' = ago /\ ~Allowed(w)
  BY DEF CheckRateLimit
<1>4. \A q \in Requests : ago'[q] = ago[q] \/ (q = r /\ ago'[q] = 0)
  BY <1>3 DEF TypeInv, TypeOK
<1>5. CASE a # c
  <2>1. Recent(a)' = Recent(a) /\ r \notin Recent(a)
    BY <1>1, <1>4, <1>5 DEF Recent
  <2>2. window'[a] = window[a] /\ granted'[a] = granted[a]
    BY <1>1, <1>2, <1>3, <1>5 DEF TypeInv, TypeOK
  <2>3. \A q \in Recent(a) : ago'[q] = ago[q]
    BY <1>4, <2>1 DEF Recent
  <2>4. Young(a)' = Young(a)
    BY <2>1, <2>2, <2>3 DEF Young
  <2>5. Old(a)' = Old(a)
    BY <2>1, <2>4 DEF Old
  <2> QED
    BY <2>1, <2>2, <2>3, <2>4, <2>5 DEF TwoKeysInv
<1>6. CASE a = c /\ window[a] # None
  <2>1. /\ window'[a] # None /\ window'[a].ttl = window[a].ttl
        /\ window[a].ttl \in 1 .. Window
    BY <1>2, <1>6 DEF Counted, Keys, TypeInv, TypeOK
  <2>2. /\ IsFiniteSet(Recent(a)) /\ Cardinality(Young(a)) <= granted[a]
        /\ Cardinality(Old(a)) <= Limit /\ granted[a] \in Nat
    BY <1>6 DEF TwoKeysInv, TypeInv, TypeOK
  <2>3. IsFiniteSet(Young(a)) /\ IsFiniteSet(Old(a))
    BY <2>2, FS_Subset DEF Young, Old
  <2>4. CASE ago' = ago
    <3>1. Recent(a)' = Recent(a)
      BY <1>1, <2>4 DEF Recent
    <3>2. Young(a)' = Young(a) /\ Old(a)' = Old(a)
      BY <2>1, <2>4, <3>1 DEF Young, Old
    <3>3. granted'[a] >= granted[a]
      BY <1>1, <1>3, <1>6, <2>2 DEF TypeInv, TypeOK
    <3>4. Cardinality(Young(a)) \in Nat /\ granted'[a] \in Nat
      BY <1>1, <1>3, <1>6, <2>3, FS_CardinalityType DEF TypeInv, TypeOK
    <3> QED
      BY <2>1, <2>2, <3>1, <3>2, <3>3, <3>4
  <2>5. CASE granted' = [granted EXCEPT ![c] = g + 1] /\ ago' = [ago EXCEPT ![r] = 0]
    <3>1. Recent(a)' = Recent(a) \cup {r} /\ ago'[r] = 0
      BY <1>1, <1>6, <2>5 DEF Recent, Ages, TypeInv, TypeOK
    <3>2. Young(a)' = Young(a) \cup {r}
      <4>1. Young(a)' = {q \in Recent(a)' : ago'[q] <= Window - window[a].ttl}
        BY <2>1 DEF Young
      <4>2. 0 <= Window - window[a].ttl
        BY <2>1
      <4>3. \A q \in Recent(a) \ {r} : ago'[q] = ago[q]
        BY <1>4 DEF Recent
      <4> QED
        BY <3>1, <4>1, <4>2, <4>3 DEF Young
    <3>3. Old(a)' \subseteq Old(a)
      BY <3>1, <3>2 DEF Old
    <3>4. granted'[a] = granted[a] + 1
      BY <1>1, <1>6, <2>5 DEF TypeInv, TypeOK
    <3>5. IsFiniteSet(Recent(a)')
      BY <2>2, <3>1, FS_AddElement
    <3>6. Cardinality(Young(a)') <= granted'[a]
      <4>1. Cardinality(Young(a) \cup {r}) \in {Cardinality(Young(a)), Cardinality(Young(a)) + 1}
        BY <2>3, FS_AddElement
      <4>2. Cardinality(Young(a)) \in Nat
        BY <2>3, FS_CardinalityType
      <4> QED
        BY <2>2, <3>2, <3>4, <4>1, <4>2
    <3>7. Cardinality(Old(a)') <= Limit
      <4>1. /\ Cardinality(Old(a)') <= Cardinality(Old(a))
            /\ IsFiniteSet(Old(a)')
        BY <2>3, <3>3, FS_Subset
      <4>2. Cardinality(Old(a)') \in Nat /\ Cardinality(Old(a)) \in Nat
        BY <2>3, <4>1, FS_CardinalityType
      <4> QED
        BY <2>2, <4>1, <4>2
    <3> QED
      BY <2>1, <3>5, <3>6, <3>7
  <2> QED
    BY <1>3, <2>4, <2>5
<1>7. CASE a = c /\ window[a] = None
  <2>1. window'[a] = w /\ w.ttl = Window /\ w.count = 1 /\ g = 0
    BY <1>1, <1>2, <1>7 DEF Counted, TypeInv, TypeOK
  <2>2. granted' = [granted EXCEPT ![c] = 1] /\ ago' = [ago EXCEPT ![r] = 0]
    BY <1>3, <2>1 DEF Allowed
  <2>3. /\ IsFiniteSet(Recent(a)) /\ Cardinality(Recent(a)) <= Limit
        /\ \A q \in Recent(a) : ago[q] # 0
    BY <1>7 DEF TwoKeysInv
  <2>4. Recent(a)' = Recent(a) \cup {r} /\ ago'[r] = 0
    BY <1>1, <1>7, <2>2 DEF Recent, Ages, TypeInv, TypeOK
  <2>5. Young(a)' = {r}
    <3>1. ASSUME NEW q \in Recent(a), q # r
          PROVE  ago'[q] \in Nat \ {0}
      BY <1>4, <2>3, <3>1 DEF Recent, Ages
    <3>2. Young(a)' = {q \in Recent(a)' : ago'[q] <= 0}
      BY <2>1 DEF Young
    <3> QED
      BY <2>4, <3>1, <3>2
  <2>6. Old(a)' \subseteq Recent(a)
    BY <2>4, <2>5 DEF Old
  <2>7. IsFiniteSet(Old(a)') /\ Cardinality(Old(a)') <= Cardinality(Recent(a))
    BY <2>3, <2>6, FS_Subset
  <2>8. Cardinality(Old(a)') \in Nat /\ Cardinality(Recent(a)) \in Nat
    BY <2>3, <2>7, FS_CardinalityType
  <2>9. IsFiniteSet(Recent(a)') /\ Cardinality(Young(a)') = 1
    <3>1. IsFiniteSet(Recent(a) \cup {r})
      BY <2>3, FS_AddElement
    <3>2. Cardinality({r}) = 1
      BY FS_Singleton
    <3> QED
      BY <2>4, <2>5, <3>1, <3>2
  <2>10. window'[a] # None /\ granted'[a] = 1
    BY <1>1, <1>2, <1>7, <2>1, <2>2 DEF TypeInv, TypeOK
  <2> QED
    BY <2>3, <2>7, <2>8, <2>9, <2>10
<1> QED
  BY <1>5, <1>6, <1>7

\* A tick ages the votes and the key together; when the key ends, what is left of the
\* window before it was old enough to be forgotten.
LEMMA TwoKeysTick ==
    ASSUME TypeInv, GrantedInv, TwoKeysInv, Tick
    PROVE  TwoKeysInv'
<1> SUFFICES ASSUME redisFaults = 0, NEW a \in Addresses
             PROVE  /\ IsFiniteSet(Recent(a)')
                    /\ window'[a] = None => /\ Cardinality(Recent(a)') <= Limit
                                            /\ \A q \in Recent(a)' : ago'[q] # 0
                    /\ window'[a] # None => /\ Cardinality(Young(a)') <= granted'[a]
                                            /\ Cardinality(Old(a)') <= Limit
  BY DEF TwoKeysInv, Tick
<1>1. IsFiniteSet(Recent(a)) /\ req' = req /\ granted' = granted
  BY DEF TwoKeysInv, Tick
<1>2. ASSUME NEW q \in Requests, ago'[q] \in Ages
      PROVE  ago[q] \in Ages /\ ago'[q] = ago[q] + 1
  BY <1>2 DEF Tick, TypeInv, TypeOK, Ages, Never
<1>3. /\ Recent(a)' \subseteq Recent(a)
      /\ \A q \in Recent(a)' : ago'[q] = ago[q] + 1 /\ ago'[q] \in Ages /\ ago[q] \in Ages
  BY <1>1, <1>2 DEF Recent
<1>4. \A S \in SUBSET Recent(a) : \A T \in SUBSET S :
        /\ IsFiniteSet(S) /\ IsFiniteSet(T) /\ Cardinality(T) <= Cardinality(S)
        /\ Cardinality(S) \in Nat /\ Cardinality(T) \in Nat
  BY <1>1, FS_Subset, FS_CardinalityType
<1>5. IsFiniteSet(Recent(a)')
  BY <1>3, <1>4
<1>6. \A q \in Recent(a)' : ago'[q] # 0
  BY <1>3 DEF Ages
<1>7. CASE window[a] = None
  <2>1. window'[a] = None
    BY <1>7 DEF Tick
  <2>2. Cardinality(Recent(a)') <= Cardinality(Recent(a))
    BY <1>3, <1>4
  <2>3. Cardinality(Recent(a)) <= Limit
    BY <1>7 DEF TwoKeysInv
  <2>4. Cardinality(Recent(a)') \in Nat /\ Cardinality(Recent(a)) \in Nat
    BY <1>3, <1>4
  <2> QED
    BY <1>5, <1>6, <2>1, <2>2, <2>3, <2>4
<1>8. CASE window[a] # None
  <2>1. window[a] \in Keys /\ window[a].ttl \in 1 .. Window
    BY <1>8 DEF TypeInv, TypeOK, Keys
  <2>2. /\ Cardinality(Young(a)) <= granted[a] /\ Cardinality(Old(a)) <= Limit
        /\ granted[a] <= Limit /\ granted[a] \in Nat
    BY <1>8 DEF TwoKeysInv, GrantedInv, TypeInv, TypeOK
  <2>3. Young(a) \subseteq Recent(a) /\ Old(a) \subseteq Recent(a)
    BY DEF Young, Old
  <2>4. CASE window[a].ttl = 1
    <3>1. window'[a] = None
      BY <1>8, <2>4 DEF Tick
    <3>2. Recent(a)' \subseteq Young(a)
      BY <1>3, <2>4 DEF Young, Ages
    <3>3. Cardinality(Recent(a)') <= Cardinality(Young(a))
      BY <1>4, <2>3, <3>2
    <3>4. Cardinality(Recent(a)') \in Nat /\ Cardinality(Young(a)) \in Nat
      BY <1>4, <2>3, <3>2
    <3> QED
      BY <1>5, <1>6, <2>2, <3>1, <3>3, <3>4
  <2>5. CASE window[a].ttl # 1
    <3>1. window'[a] = [window[a] EXCEPT !.ttl = @ - 1]
      BY <1>8, <2>5 DEF Tick
    <3>2. window'[a] # None /\ window'[a].ttl = window[a].ttl - 1
      BY <2>1, <2>5, <3>1 DEF Keys
    <3>3. Young(a)' \subseteq Young(a) /\ Old(a)' \subseteq Old(a)
      BY <1>3, <2>1, <3>2 DEF Young, Old, Ages
    <3>4. /\ Cardinality(Young(a)') <= Cardinality(Young(a))
          /\ Cardinality(Old(a)') <= Cardinality(Old(a))
      BY <1>4, <2>3, <3>3
    <3>5. /\ Cardinality(Young(a)') \in Nat /\ Cardinality(Young(a)) \in Nat
          /\ Cardinality(Old(a)') \in Nat /\ Cardinality(Old(a)) \in Nat
      BY <1>4, <2>3, <3>3
    <3> QED
      BY <1>1, <1>5, <2>2, <3>2, <3>4, <3>5
  <2> QED
    BY <2>4, <2>5
<1> QED
  BY <1>7, <1>8

LEMMA TwoKeysNext ==
    TypeInv /\ GrantedInv /\ PassedInv /\ TwoKeysInv /\ [Next]_vars => TwoKeysInv'
<1> SUFFICES ASSUME TypeInv, GrantedInv, PassedInv, TwoKeysInv, [Next]_vars PROVE TwoKeysInv'
  OBVIOUS
<1>1. CASE UNCHANGED vars
  BY <1>1, TwoKeysStay DEF vars, limiter
<1>2. CASE Tick
  BY <1>2, TwoKeysTick
<1>3. CASE redisFaults' # 0
  BY <1>3 DEF TwoKeysInv
<1>4. ASSUME \/ \E a \in Addresses : LoseWindow(a)
             \/ \E r \in Requests : CheckFails(r)
      PROVE  redisFaults' # 0
  <2>1. redisFaults' = redisFaults + 1
    BY <1>4 DEF LoseWindow, CheckFails
  <2>2. redisFaults \in Nat
    BY DEF TypeInv, TypeOK
  <2> QED
    BY <2>1, <2>2
<1>5. ASSUME NEW r \in Requests, NEW b \in Browsers, NEW a \in Addresses \cup {NoAddress},
             Send(r, b, a) \/ SendMalformed(r, b, a)
      PROVE  TwoKeysInv'
  <2>1. ago[r] \notin Ages
    BY <1>5 DEF Send, SendMalformed, PassedInv
  <2>2. \A q \in Requests : ago[q] \in Ages => req'[q] = req[q]
    BY <1>5, <2>1 DEF Send, SendMalformed, TypeInv, TypeOK
  <2> QED
    BY <1>5, <2>2, TwoKeysStay DEF Send, SendMalformed, limiter
<1>6. ASSUME NEW r \in Requests, CheckNobody(r) \/ Vote(r) \/ Deliver(r) \/ Lose(r)
      PROVE  TwoKeysInv'
  BY <1>6, TwoKeysStay DEF CheckNobody, Vote, Deliver, Lose, Over, limiter
<1> QED
  BY <1>1, <1>2, <1>3, <1>4, <1>5, <1>6, TwoKeysCheck DEF Next, Handle

\* As long as Redis keeps its keys, an address gets at most twice the limit in any stretch
\* of time as long as the window: what passes there belongs to two keys.
THEOREM FixedWindowsAtMostDouble == Spec => []TwiceTheLimitAtMost
<1>1. Init => PassedInv
  BY DEF Init, PassedInv, Ages, Never
<1>2. Init => TwoKeysInv
  <2> SUFFICES ASSUME Init, NEW a \in Addresses
               PROVE  /\ IsFiniteSet(Recent(a)) /\ Cardinality(Recent(a)) <= Limit
                      /\ window[a] = None /\ \A r \in Recent(a) : ago[r] # 0
    BY DEF TwoKeysInv, Init
  <2>1. Recent(a) = {}
    BY DEF Init, Recent, Ages, Never
  <2> QED
    BY <2>1, FS_EmptySet DEF Init
<1>3. TypeInv /\ GrantedInv /\ TwoKeysInv => TwiceTheLimitAtMost
  <2> SUFFICES ASSUME TypeInv, GrantedInv, TwoKeysInv, redisFaults = 0, NEW a \in Addresses
               PROVE  Cardinality(Recent(a)) <= 2 * Limit
    BY DEF TwiceTheLimitAtMost
  <2>1. IsFiniteSet(Recent(a)) /\ Cardinality(Recent(a)) \in Nat
    BY FS_CardinalityType DEF TwoKeysInv
  <2>2. CASE window[a] = None
    BY <2>1, <2>2 DEF TwoKeysInv
  <2>3. CASE window[a] # None
    <3>1. /\ Cardinality(Young(a)) <= granted[a] /\ Cardinality(Old(a)) <= Limit
          /\ granted[a] <= Limit /\ granted[a] \in Nat
      BY <2>3 DEF TwoKeysInv, GrantedInv, TypeInv, TypeOK
    <3>2. /\ Young(a) \in SUBSET Recent(a) /\ Old(a) \in SUBSET Recent(a)
          /\ Recent(a) = Young(a) \cup Old(a) /\ Young(a) \cap Old(a) = {}
      BY DEF Young, Old
    <3>3. IsFiniteSet(Young(a)) /\ IsFiniteSet(Old(a))
      BY <2>1, <3>2, FS_Subset
    <3>4. Cardinality(Recent(a)) = Cardinality(Young(a)) + Cardinality(Old(a)) - 0
      BY <3>2, <3>3, FS_Union, FS_EmptySet
    <3>5. Cardinality(Young(a)) \in Nat /\ Cardinality(Old(a)) \in Nat
      BY <3>3, FS_CardinalityType
    <3> QED
      BY <3>1, <3>4, <3>5
  <2> QED
    BY <2>2, <2>3
<1>4. Init => GrantedInv
  BY DEF Init, GrantedInv
<1> QED
  BY <1>1, <1>2, <1>3, <1>4, TypesHold, GrantedNext, PassedNext, TwoKeysNext, PTL DEF Spec

----------------------------------------------------------------------------
(* Retry-After                                                             *)

\* As long as the key that refused a request is there, the request waits longer than it.
WaitInv ==
    \A r \in blocked :
        /\ pc[r] \in {"answered", "done"}
        /\ req[r].address \in Addresses
        /\ window[req[r].address] # None
        /\ wait[r] >= window[req[r].address].ttl

LEMMA WaitNext == TypeInv /\ WaitInv /\ [Next]_vars => WaitInv'
<1> SUFFICES ASSUME TypeInv, WaitInv, [Next]_vars PROVE WaitInv'
  OBVIOUS
<1>0. blocked \subseteq Requests
  BY DEF TypeInv, TypeOK
<1>1. CASE Tick
  <2> SUFFICES ASSUME NEW r \in blocked'
               PROVE  /\ window'[req[r].address] # None
                      /\ wait'[r] >= window'[req[r].address].ttl
    BY <1>1 DEF Tick, Gone, WaitInv
  <2> DEFINE a == req[r].address
  <2>1. r \in blocked /\ a \in Addresses /\ window[a] \in Keys /\ window[a].ttl # 1
    BY <1>1 DEF Tick, Gone, WaitInv, TypeInv, TypeOK
  <2>2. window'[a] = [window[a] EXCEPT !.ttl = @ - 1]
    BY <1>1, <2>1 DEF Tick
  <2>3. window'[a] \in Keys /\ window'[a].ttl = window[a].ttl - 1
    BY <2>1, <2>2 DEF Keys
  <2>4. wait[r] \in Nat /\ wait[r] >= window[a].ttl /\ window[a].ttl \in Nat \ {0}
    BY <1>0, <2>1 DEF WaitInv, TypeInv, TypeOK, Keys
  <2>5. wait'[r] = wait[r] - 1
    BY <1>0, <1>1, <2>1, <2>4 DEF Tick
  <2> QED
    BY <2>3, <2>4, <2>5
<1>2. ASSUME NEW a \in Addresses, LoseWindow(a)
      PROVE  WaitInv'
  BY <1>2 DEF LoseWindow, Gone, WaitInv, TypeInv, TypeOK
<1>3. ASSUME NEW r \in Requests, CheckRateLimit(r)
      PROVE  WaitInv'
  <2> DEFINE a == req[r].address
             w == Counted(window[a])
  <2>1. a \in Addresses /\ pc[r] = "limit" /\ r \notin blocked
    BY <1>3 DEF CheckRateLimit, WaitInv, TypeInv, SentInv, Ballots
  <2>2. w \in Keys /\ (window[a] # None => w.ttl = window[a].ttl)
    BY <2>1, CountedType DEF TypeInv, TypeOK, Counted, Keys
  <2>3. window' = [window EXCEPT ![a] = w] /\ req' = req
    BY <1>3 DEF CheckRateLimit
  <2>4. ASSUME NEW q \in blocked
        PROVE  /\ pc[q] \in {"answered", "done"} /\ req'[q].address \in Addresses
               /\ window'[req[q].address] # None
               /\ wait[q] >= window'[req[q].address].ttl
    BY <2>1, <2>2, <2>3, <2>4 DEF WaitInv, TypeInv, TypeOK
  <2>5. CASE Pass(r) /\ UNCHANGED <<wait, blocked>>
    BY <2>1, <2>3, <2>4, <2>5 DEF Pass, WaitInv, TypeInv, TypeOK
  <2>6. CASE /\ Answer(r, "tooMany")
             /\ wait' = [wait EXCEPT ![r] = RetrySeconds(w.ttl) * TicksPerSecond]
             /\ blocked' = blocked \cup {r}
    <3>1. wait'[r] >= w.ttl
      BY <2>2, <2>6, RetryCoversWindow DEF TypeInv, TypeOK, Keys
    <3>2. pc'[r] = "answered" /\ window'[a] = w
      BY <2>1, <2>3, <2>6 DEF Answer, TypeInv, TypeOK
    <3>3. \A q \in blocked : wait'[q] = wait[q] /\ pc'[q] = pc[q]
      BY <1>0, <2>1, <2>6 DEF Answer, TypeInv, TypeOK
    <3> QED
      BY <2>1, <2>2, <2>3, <2>4, <2>6, <3>1, <3>2, <3>3 DEF WaitInv
  <2> QED
    BY <1>3, <2>5, <2>6 DEF CheckRateLimit
<1>4. ASSUME NEW r \in Requests, CheckFails(r)
      PROVE  WaitInv'
  <2> DEFINE a == req[r].address
             w == Counted(window[a])
  <2>1. a \in Addresses /\ pc[r] = "limit" /\ r \notin blocked
    BY <1>4 DEF CheckFails, WaitInv, TypeInv, SentInv, Ballots
  <2>2. w \in Keys /\ (window[a] # None => w.ttl = window[a].ttl)
    BY <2>1, CountedType DEF TypeInv, TypeOK, Counted, Keys
  <2>3. window' = [window EXCEPT ![a] = w] \/ window' = window
    BY <1>4 DEF CheckFails
  <2>4. ASSUME NEW q \in blocked
        PROVE  /\ pc'[q] \in {"answered", "done"}
               /\ window'[req[q].address] # None
               /\ wait[q] >= window'[req[q].address].ttl
    BY <1>0, <1>4, <2>1, <2>2, <2>3, <2>4 DEF CheckFails, Pass, WaitInv, TypeInv, TypeOK
  <2> QED
    BY <1>4, <2>4 DEF CheckFails, WaitInv
<1>5. ASSUME NEW r \in Requests, UNCHANGED limiter,
             \A q \in Requests : pc[q] \in {"answered", "done"} =>
                                    pc'[q] \in {"answered", "done"} /\ req'[q] = req[q]
      PROVE  WaitInv'
  BY <1>0, <1>5 DEF WaitInv, limiter
<1>6. ASSUME NEW r \in Requests, NEW b \in Browsers, NEW a \in Addresses \cup {NoAddress},
             Send(r, b, a) \/ SendMalformed(r, b, a)
      PROVE  WaitInv'
  <2>1. \A q \in Requests : pc[q] \in {"answered", "done"} => pc'[q] = pc[q] /\ req'[q] = req[q]
    BY <1>6 DEF Send, SendMalformed, TypeInv, TypeOK
  <2> QED
    BY <1>5, <1>6, <2>1 DEF Send, SendMalformed
<1>7. ASSUME NEW r \in Requests, CheckNobody(r) \/ Vote(r) \/ Deliver(r) \/ Lose(r)
      PROVE  WaitInv'
  <2>1. req' = req /\ UNCHANGED limiter
    BY <1>7 DEF CheckNobody, Vote, Deliver, Lose, Over
  <2>2. \/ pc[r] = "limit" /\ pc' = [pc EXCEPT ![r] = "vote"]
        \/ pc' = [pc EXCEPT ![r] = "answered"]
        \/ pc' = [pc EXCEPT ![r] = "done"]
    BY <1>7 DEF CheckNobody, Pass, Vote, Answer, Deliver, Lose, Over
  <2>3. \A q \in Requests : pc[q] \in {"answered", "done"} => pc'[q] \in {"answered", "done"}
    BY <2>2 DEF TypeInv, TypeOK
  <2> QED
    BY <1>5, <2>1, <2>3
<1>8. CASE UNCHANGED vars
  BY <1>8 DEF vars, limiter, WaitInv
<1> QED
  BY <1>1, <1>2, <1>3, <1>4, <1>6, <1>7, <1>8 DEF Next, Handle

\* Whoever waits as long as Retry-After says no longer meets the window that refused:
\* the announced wait, rounded up to seconds, covers what is left of the key.
THEOREM WaitingIsEnough == Spec => []RetryAfterSuffices
<1>1. Init => WaitInv
  BY DEF Init, WaitInv
<1>2. TypeInv /\ WaitInv => RetryAfterSuffices
  BY DEF TypeInv, TypeOK, WaitInv, RetryAfterSuffices, Keys
<1> QED
  BY <1>1, <1>2, TypesHold, WaitNext, PTL DEF Spec

----------------------------------------------------------------------------
(* The limit, and nothing below it                                         *)

\* Calls Redis failed at may have counted a vote that was not granted by it.
Spent(a, n) == n <= granted[a] + redisFaults

\* Each vote counted in a key was granted, unless the call failed or the limit was used
\* up; and an address is refused only then.
SpentInv ==
    /\ \A a \in Addresses : window[a] # None => Spent(a, window[a].count) \/ Spent(a, Limit)
    /\ \A r \in blocked : Spent(req[r].address, Limit)

LEMMA SpentNext == TypeInv /\ WaitInv /\ SpentInv /\ [Next]_vars => SpentInv'
<1> SUFFICES ASSUME TypeInv, WaitInv, SpentInv, [Next]_vars PROVE SpentInv'
  OBVIOUS
<1>0. /\ blocked \subseteq Requests /\ redisFaults \in Nat /\ Limit \in Nat
      /\ \A b \in Addresses : granted[b] \in Nat
      /\ \A q \in blocked : req[q].address \in Addresses /\ window[req[q].address] # None
  BY LimitAssumption, BoundAssumption DEF TypeInv, TypeOK, WaitInv
<1>1. CASE Tick
  <2>1. UNCHANGED <<granted, redisFaults, req>> /\ blocked' \subseteq blocked
    BY <1>1 DEF Tick, Gone
  <2>2. \A a \in Addresses : window'[a] # None => window[a] # None /\ window'[a].count = window[a].count
    BY <1>1 DEF Tick, TypeInv, TypeOK, Keys
  <2> QED
    BY <2>1, <2>2 DEF SpentInv, Spent
<1>2. ASSUME NEW a \in Addresses, LoseWindow(a)
      PROVE  SpentInv'
  <2>1. /\ UNCHANGED <<granted, req>> /\ redisFaults' = redisFaults + 1 /\ blocked' \subseteq blocked
        /\ \A b \in Addresses : window'[b] # None => window'[b] = window[b]
    BY <1>2 DEF LoseWindow, Gone, TypeInv, TypeOK
  <2>2. \A b \in Addresses : window[b] # None => window[b].count \in Nat
    BY DEF TypeInv, TypeOK, Keys
  <2> QED
    BY <1>0, <2>1, <2>2 DEF SpentInv, Spent
<1>3. ASSUME NEW r \in Requests, CheckRateLimit(r)
      PROVE  SpentInv'
  <2> DEFINE a == req[r].address
             w == Counted(window[a])
             g == IF window[a] = None THEN 0 ELSE granted[a]
  <2>1. a \in Addresses /\ UNCHANGED <<req, redisFaults>>
    BY <1>3 DEF CheckRateLimit, TypeInv, SentInv, Ballots
  <2>2. /\ w \in Keys /\ g \in Nat
        /\ window[a] = None => w.count = 1
        /\ window[a] # None => w.count = window[a].count + 1 /\ window[a].count \in Nat /\ g = granted[a]
    BY <1>0, <2>1, CountedType DEF TypeInv, TypeOK, Counted, Keys
  <2>3. w.count <= g + 1 + redisFaults \/ Limit <= g + redisFaults
    BY <1>0, <2>1, <2>2 DEF SpentInv, Spent
  <2>4. /\ window' = [window EXCEPT ![a] = w]
        /\ \/ granted' = [granted EXCEPT ![a] = g + 1] /\ blocked' = blocked
           \/ /\ w.count > Limit /\ granted' = [granted EXCEPT ![a] = g]
              /\ blocked' = blocked \cup {r}
    <3>1. ~(w.count <= Limit) => w.count > Limit
      BY <1>0, <2>2 DEF Keys
    <3> QED
      BY <1>3, <3>1 DEF CheckRateLimit, Allowed
  <2>5. /\ window'[a] = w
        /\ \/ granted'[a] = g + 1 /\ blocked' = blocked
           \/ w.count > Limit /\ granted'[a] = g /\ blocked' = blocked \cup {r}
        /\ \A b \in Addresses \ {a} : window'[b] = window[b] /\ granted'[b] = granted[b]
    BY <2>1, <2>4 DEF TypeInv, TypeOK
  <2> HIDE DEF w, g
  <2>6. w.count <= granted'[a] + redisFaults \/ Limit <= granted'[a] + redisFaults
    BY <1>0, <2>2, <2>3, <2>5 DEF Keys
  <2>7. ASSUME NEW q \in blocked' PROVE Limit <= granted'[req[q].address] + redisFaults
    <3>1. CASE q \in blocked /\ req[q].address # a
      BY <1>0, <2>5, <3>1 DEF SpentInv, Spent
    <3>2. CASE q \in blocked /\ req[q].address = a
      <4>1. Limit <= g + redisFaults
        BY <1>0, <2>2, <3>2 DEF SpentInv, Spent
      <4> QED
        BY <1>0, <2>2, <2>5, <3>2, <4>1
    <3>3. CASE q = r /\ w.count > Limit /\ granted'[a] = g
      BY <1>0, <2>2, <2>3, <3>3 DEF Keys
    <3> QED
      BY <2>5, <2>7, <3>1, <3>2, <3>3
  <2> QED
    BY <2>1, <2>5, <2>6, <2>7 DEF SpentInv, Spent
<1>4. ASSUME NEW r \in Requests, CheckFails(r)
      PROVE  SpentInv'
  <2> DEFINE a == req[r].address
             w == Counted(window[a])
             g == IF window[a] = None THEN 0 ELSE granted[a]
  <2>1. a \in Addresses /\ UNCHANGED <<req, blocked>> /\ redisFaults' = redisFaults + 1
    BY <1>4 DEF CheckFails, TypeInv, SentInv, Ballots
  <2>2. /\ w \in Keys /\ g \in Nat
        /\ window[a] = None => w.count = 1
        /\ window[a] # None => w.count = window[a].count + 1 /\ window[a].count \in Nat /\ g = granted[a]
    BY <1>0, <2>1, CountedType DEF TypeInv, TypeOK, Counted, Keys
  <2>3. \A b \in Addresses : window[b] # None => window[b].count \in Nat
    BY DEF TypeInv, TypeOK, Keys
  <2>4. CASE UNCHANGED <<window, granted>>
    BY <1>0, <2>1, <2>3, <2>4 DEF SpentInv, Spent
  <2>5. CASE /\ window' = [window EXCEPT ![a] = w]
             /\ granted' = [granted EXCEPT ![a] = g]
    <3>1. /\ window'[a] = w /\ granted'[a] = g
          /\ \A b \in Addresses \ {a} : window'[b] = window[b] /\ granted'[b] = granted[b]
      BY <2>1, <2>5 DEF TypeInv, TypeOK
    <3> HIDE DEF w, g
    <3>2. w.count <= granted'[a] + redisFaults' \/ Limit <= granted'[a] + redisFaults'
      BY <1>0, <2>1, <2>2, <3>1 DEF SpentInv, Spent, Keys
    <3>3. \A b \in Addresses \ {a} : window'[b] # None =>
             window'[b].count <= granted'[b] + redisFaults' \/ Limit <= granted'[b] + redisFaults'
      BY <1>0, <2>1, <2>3, <3>1 DEF SpentInv, Spent
    <3>4. \A q \in blocked : Limit <= granted'[req[q].address] + redisFaults'
      BY <1>0, <2>1, <2>2, <3>1 DEF SpentInv, Spent
    <3>5. \A b \in Addresses : window'[b] # None =>
             window'[b].count <= granted'[b] + redisFaults' \/ Limit <= granted'[b] + redisFaults'
      BY <3>1, <3>2, <3>3
    <3> QED
      BY <2>1, <3>4, <3>5 DEF SpentInv, Spent
  <2> QED
    BY <1>4, <2>4, <2>5 DEF CheckFails
<1>5. ASSUME UNCHANGED limiter, redisFaults' = redisFaults,
             \A q \in blocked : req'[q] = req[q]
      PROVE  SpentInv'
  BY <1>5 DEF SpentInv, Spent, limiter
<1>6. ASSUME NEW r \in Requests, NEW b \in Browsers, NEW a \in Addresses \cup {NoAddress},
             Send(r, b, a) \/ SendMalformed(r, b, a)
      PROVE  SpentInv'
  <2>1. \A q \in blocked : req'[q] = req[q]
    BY <1>0, <1>6 DEF Send, SendMalformed, TypeInv, TypeOK, WaitInv
  <2> QED
    BY <1>5, <1>6, <2>1 DEF Send, SendMalformed
<1>7. ASSUME NEW r \in Requests, CheckNobody(r) \/ Vote(r) \/ Deliver(r) \/ Lose(r)
      PROVE  SpentInv'
  BY <1>5, <1>7 DEF CheckNobody, Vote, Deliver, Lose, Over
<1>8. CASE UNCHANGED vars
  BY <1>5, <1>8 DEF vars, limiter
<1> QED
  BY <1>1, <1>2, <1>3, <1>4, <1>6, <1>7, <1>8 DEF Next, Handle

\* The script lets no more votes of an address pass than the limit while its key lives,
\* whatever is lost or fails in Redis, and refuses none before the limit is used up: the
\* count in the key is what it let pass, and what it counted while failing.
THEOREM WindowsKeepTheLimit == Spec => []LimitPerWindow
<1>1. Init => GrantedInv /\ WaitInv /\ SpentInv
  BY DEF Init, GrantedInv, WaitInv, SpentInv
<1>2. TypeInv /\ GrantedInv /\ SpentInv => LimitPerWindow
  <2>1. ASSUME TypeInv, SpentInv, NEW r \in blocked PROVE granted[req[r].address] + redisFaults >= Limit
    BY <2>1 DEF SpentInv, Spent
  <2> QED
    BY <2>1 DEF TypeInv, GrantedInv, LimitPerWindow
<1> QED
  BY <1>1, <1>2, TypesHold, GrantedNext, WaitNext, SpentNext, PTL DEF Spec

----------------------------------------------------------------------------
(* The cookie                                                              *)

\* A vote that is in flight under a voter key.
Asked(r) == pc[r] \in {"limit", "vote", "answered"} /\ req[r].voter # None

\* What the votes of a browser have in common: the cookie it holds, or, before it holds
\* one, the one vote that is in flight.
Known(b) ==
    /\ \A r \in Requests :
         Asked(r) /\ req[r].browser = b /\ cookie[b] # None => req[r].voter = cookie[b]
    /\ \A r, q \in Requests :
         /\ Asked(r) /\ req[r].browser = b /\ Asked(q) /\ req[q].browser = b
         /\ cookie[b] = None
         => r = q
    /\ \A v \in votes : v.browser = b =>
         \/ cookie[b] # None /\ v.voter = cookie[b]
         \/ cookie[b] = None /\ \E r \in Requests :
               Asked(r) /\ req[r].browser = b /\ v.voter = req[r].voter

AnswerInv ==
    \A r \in Requests :
        /\ pc[r] = "answered" =>
             resp[r].setCookie = IF req[r].cookie = None THEN req[r].voter ELSE None
        /\ Asked(r) /\ cookie[req[r].browser] = None => req[r].cookie = None

KnownInv == AnswerInv /\ \A b \in Browsers \ excused : Known(b)

\* What leaves the cookies, the requests and the votes alone, and no request unasked.
LEMMA KnownStays ==
    ASSUME TypeInv, KnownInv, UNCHANGED <<cookie, votes, req, resp, excused>>,
           \A r \in Requests : Asked(r)' <=> Asked(r),
           \A r \in Requests : pc'[r] = "answered" => pc[r] = "answered"
    PROVE  KnownInv'
<1>1. AnswerInv'
  BY DEF KnownInv, AnswerInv
<1>2. ASSUME NEW b \in Browsers \ excused'
      PROVE  Known(b)'
  BY DEF KnownInv, Known
<1> QED
  BY <1>1, <1>2 DEF KnownInv

LEMMA KnownSend ==
    ASSUME TypeInv, KnownInv, NEW r \in Requests, NEW b \in Browsers,
           NEW a \in Addresses \cup {NoAddress}, Send(r, b, a)
    PROVE  KnownInv'
<1>1. /\ req' = [req EXCEPT ![r] = [browser |-> b, address |-> a, cookie |-> cookie[b],
                                    voter |-> VoterKey(r, b)]]
      /\ pc' = [pc EXCEPT ![r] = "limit"] /\ pc[r] = "idle"
      /\ UNCHANGED <<cookie, votes, resp>>
  BY DEF Send
<1>2. /\ Asked(r)' /\ req'[r].browser = b /\ req'[r].voter = VoterKey(r, b)
      /\ req'[r].cookie = cookie[b] /\ pc'[r] = "limit" /\ ~Asked(r)
  BY <1>1 DEF TypeInv, TypeOK, Asked, VoterKey
<1>3. \A q \in Requests \ {r} : (Asked(q)' <=> Asked(q)) /\ req'[q] = req[q] /\ pc'[q] = pc[q]
  BY <1>1 DEF TypeInv, TypeOK, Asked
<1>4. AnswerInv'
  BY <1>1, <1>2, <1>3 DEF KnownInv, AnswerInv
<1>5. ASSUME NEW c \in Browsers \ excused', c # b
      PROVE  Known(c)'
  <2>1. c \in Browsers \ excused
    BY <1>5 DEF Send
  <2>2. Known(c)
    BY <2>1 DEF KnownInv
  <2> QED
    BY <1>1, <1>2, <1>3, <1>5, <2>2 DEF Known
<1>6. ASSUME b \notin excused'
      PROVE  Known(b)'
  <2>1. b \notin excused /\ Known(b)
    BY <1>6 DEF Send, KnownInv
  <2>2. CASE cookie[b] # None
    <3>1. req'[r].voter = cookie[b]
      BY <1>2, <2>2 DEF VoterKey
    <3> QED
      BY <1>1, <1>2, <1>3, <2>1, <2>2, <3>1 DEF Known
  <2>3. CASE cookie[b] = None
    <3>1. ~Unknown(b)
      BY <1>6, <2>3 DEF Send
    <3>2. \A q \in Requests : ~(Asked(q) /\ req[q].browser = b)
      BY <2>3, <3>1 DEF Unknown, Asked, KnownInv, AnswerInv
    <3>3. \A v \in votes : v.browser # b
      BY <2>1, <2>3, <3>2 DEF Known
    <3> QED
      BY <1>1, <1>2, <1>3, <2>3, <3>2, <3>3 DEF Known
  <2> QED
    BY <2>2, <2>3
<1> QED
  BY <1>4, <1>5, <1>6 DEF KnownInv

LEMMA KnownMalformed ==
    ASSUME TypeInv, KnownInv, NEW r \in Requests, NEW b \in Browsers,
           NEW a \in Addresses \cup {NoAddress}, SendMalformed(r, b, a)
    PROVE  KnownInv'
<1>1. /\ pc[r] = "idle" /\ pc'[r] = "answered"
      /\ req'[r].voter = None /\ resp'[r].setCookie = None
      /\ UNCHANGED <<cookie, votes, excused>>
  BY DEF SendMalformed, TypeInv, TypeOK, NoAnswer
<1>2. ~Asked(r) /\ ~Asked(r)'
  BY <1>1 DEF Asked
<1>3. \A q \in Requests \ {r} : /\ Asked(q)' <=> Asked(q)
                               /\ req'[q] = req[q] /\ pc'[q] = pc[q] /\ resp'[q] = resp[q]
  BY DEF SendMalformed, TypeInv, TypeOK, Asked
<1>4. AnswerInv'
  BY <1>1, <1>2, <1>3 DEF KnownInv, AnswerInv
<1>5. ASSUME NEW c \in Browsers \ excused'
      PROVE  Known(c)'
  BY <1>1, <1>2, <1>3 DEF KnownInv, Known
<1> QED
  BY <1>4, <1>5 DEF KnownInv

\* A request that is answered, and perhaps the vote it leaves.
LEMMA KnownAnswer ==
    ASSUME TypeInv, KnownInv, NEW r \in Requests, NEW status \in Statuses, Answer(r, status),
           pc[r] \in {"limit", "vote"}, UNCHANGED <<cookie, req, excused>>,
           votes' \in {votes, votes \cup {[voter |-> req[r].voter, browser |-> req[r].browser]}}
    PROVE  KnownInv'
<1>1. Asked(r) /\ Asked(r)'
  BY DEF Answer, TypeInv, TypeOK, SentInv, Asked
<1>2. \A q \in Requests \ {r} : pc'[q] = pc[q] /\ resp'[q] = resp[q]
  BY DEF Answer, TypeInv, TypeOK
<1>3. resp'[r].setCookie = IF req[r].cookie = None THEN req[r].voter ELSE None
  BY DEF Answer, TypeInv, TypeOK
<1>4. \A q \in Requests : Asked(q)' <=> Asked(q)
  BY <1>1, <1>2 DEF Asked
<1>5. AnswerInv'
  BY <1>2, <1>3, <1>4 DEF KnownInv, AnswerInv
<1>6. ASSUME NEW b \in Browsers \ excused'
      PROVE  Known(b)'
  BY <1>1, <1>4 DEF KnownInv, Known
<1> QED
  BY <1>5, <1>6 DEF KnownInv

LEMMA KnownOver ==
    ASSUME TypeInv, KnownInv, NEW r \in Requests, Deliver(r) \/ Lose(r)
    PROVE  KnownInv'
<1> DEFINE b == req[r].browser
           k == resp[r].setCookie
<1>1. /\ pc[r] = "answered" /\ pc'[r] = "done" /\ b \in Browsers
      /\ UNCHANGED <<req, votes>>
  BY DEF Deliver, Lose, Over, TypeInv, TypeOK, SentInv, Ballots
<1>2. \A q \in Requests \ {r} : /\ Asked(q)' <=> Asked(q)
                               /\ pc'[q] = pc[q] /\ resp'[q] = resp[q]
  BY DEF Deliver, Lose, Over, TypeInv, TypeOK, Asked
<1>3. ~Asked(r)'
  BY <1>1 DEF Asked
<1>4. k = IF req[r].cookie = None THEN req[r].voter ELSE None
  BY <1>1 DEF KnownInv, AnswerInv
<1>5. k # None => Asked(r) /\ k = req[r].voter
  BY <1>1, <1>4 DEF Asked
<1>6. Asked(r) /\ cookie[b] = None => k # None
  BY <1>4 DEF KnownInv, AnswerInv, Asked
<1>7. /\ \A c \in Browsers \ {b} : cookie'[c] = cookie[c]
      /\ cookie'[b] = cookie[b] \/ (k # None /\ cookie'[b] = k)
  BY <1>1 DEF Deliver, Lose, TypeInv, TypeOK
<1>8. AnswerInv'
  BY <1>1, <1>2, <1>3, <1>7 DEF KnownInv, AnswerInv, TypeInv, TypeOK, SentInv, Ballots, Asked
<1>9. ASSUME NEW c \in Browsers \ excused', c # b
      PROVE  Known(c)'
  <2>1. Known(c)
    BY <1>9 DEF KnownInv, Deliver, Lose
  <2> QED
    BY <1>1, <1>2, <1>3, <1>7, <1>9, <2>1 DEF Known
<1>10. ASSUME b \notin excused'
       PROVE  Known(b)'
  <2>1. Known(b)
    BY <1>1, <1>10 DEF KnownInv, Deliver, Lose
  <2>2. CASE k = None
    <3>1. cookie'[b] = cookie[b]
      BY <1>7, <2>2
    <3>2. cookie[b] = None => ~Asked(r)
      BY <1>6, <2>2
    <3> QED
      BY <1>1, <1>2, <1>3, <2>1, <3>1, <3>2 DEF Known
  <2>3. CASE k # None
    <3>1. cookie'[b] = k
      BY <1>1, <1>10, <2>3 DEF Deliver, Lose, TypeInv, TypeOK
    <3>2. Asked(r) /\ k = req[r].voter
      BY <1>5, <2>3
    <3>3. \A q \in Requests \ {r} : Asked(q) /\ req[q].browser = b => req[q].voter = k
      BY <2>1, <3>2 DEF Known
    <3>4. \A v \in votes : v.browser = b => v.voter = k
      BY <2>1, <3>2 DEF Known
    <3> QED
      BY <1>1, <1>2, <1>3, <2>3, <3>1, <3>3, <3>4 DEF Known
  <2> QED
    BY <2>2, <2>3
<1>11. ASSUME NEW c \in Browsers \ excused'
       PROVE  Known(c)'
  <2>1. CASE c = b
    <3>1. b \notin excused'
      BY <2>1, <1>11
    <3>2. Known(b)'
      BY <3>1, <1>10
    <3>3. cookie'[b] = cookie'[c] /\ req'[r].browser = c
      BY <1>1, <2>1
    <3> QED
      BY <2>1, <3>2, <3>3 DEF Known
  <2> QED
    BY <1>9, <1>11, <2>1
<1> QED
  BY <1>8, <1>11 DEF KnownInv

LEMMA KnownNext == TypeInv /\ KnownInv /\ [Next]_vars => KnownInv'
<1> SUFFICES ASSUME TypeInv, KnownInv, [Next]_vars PROVE KnownInv'
  OBVIOUS
<1>1. CASE UNCHANGED vars \/ Tick \/ \E a \in Addresses : LoseWindow(a)
  <2>1. UNCHANGED <<cookie, votes, req, resp, excused, pc>>
    BY <1>1 DEF vars, Tick, LoseWindow
  <2> QED
    BY <2>1, KnownStays DEF Asked
<1>2. ASSUME NEW r \in Requests, Pass(r), pc[r] = "limit",
             UNCHANGED <<cookie, votes, req, excused>>
      PROVE  KnownInv'
  <2>1. \A q \in Requests : /\ Asked(q)' <=> Asked(q)
                            /\ pc'[q] = "answered" => pc[q] = "answered"
    BY <1>2 DEF Pass, Asked, TypeInv, TypeOK
  <2> QED
    BY <1>2, <2>1, KnownStays DEF Pass
<1>3. ASSUME NEW r \in Requests, CheckRateLimit(r)
      PROVE  KnownInv'
  <2>1. CASE Pass(r)
    BY <1>2, <1>3, <2>1 DEF CheckRateLimit
  <2>2. CASE Answer(r, "tooMany")
    BY <1>3, <2>2, KnownAnswer DEF CheckRateLimit, Statuses
  <2> QED
    BY <1>3, <2>1, <2>2 DEF CheckRateLimit
<1>4. ASSUME NEW r \in Requests, CheckNobody(r) \/ CheckFails(r)
      PROVE  KnownInv'
  BY <1>2, <1>4 DEF CheckNobody, CheckFails
<1>5. ASSUME NEW r \in Requests, Vote(r)
      PROVE  KnownInv'
  <2>1. PICK status \in Statuses : Answer(r, status)
    BY <1>5 DEF Vote, Statuses
  <2>2. votes' \in {votes, votes \cup {[voter |-> req[r].voter, browser |-> req[r].browser]}}
    BY <1>5 DEF Vote
  <2> QED
    BY <1>5, <2>1, <2>2, KnownAnswer DEF Vote
<1> QED
  BY <1>1, <1>3, <1>4, <1>5, KnownSend, KnownMalformed, KnownOver DEF Next, Handle

\* A browser that never sent two votes before it had a cookie, and got the answer that
\* carried it, has one ballot at most.
THEOREM KnownBrowsersDoVoteOnce == Spec => []KnownBrowsersVoteOnce
<1>1. Init => KnownInv
  BY DEF Init, KnownInv, AnswerInv, Known, Asked
<1>2. TypeInv /\ KnownInv => KnownBrowsersVoteOnce
  <2> SUFFICES ASSUME TypeInv, KnownInv, NEW b \in Browsers \ excused,
                      NEW v \in votes, NEW w \in votes, v.browser = b, w.browser = b
               PROVE  v = w
    BY DEF KnownBrowsersVoteOnce
  <2>1. v.voter = w.voter
    BY DEF KnownInv, Known
  <2> QED
    BY <2>1 DEF TypeInv, TypeOK
<1> QED
  BY <1>1, <1>2, TypesHold, KnownNext, PTL DEF Spec
=============================================================================
