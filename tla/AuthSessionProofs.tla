------------------------- MODULE AuthSessionProofs -------------------------
(***************************************************************************)
(* Theorems about Accounts and AuthSession, for any number of accounts,    *)
(* tabs, requests, reloads and losses: one account per address, tokens     *)
(* that expire, and tabs that show the session their calls act for.        *)
(***************************************************************************)
EXTENDS AuthSession, TLAPS

USE TTLAssumption, AccountBounds, MarkersAssumption, SessionBounds

----------------------------------------------------------------------------
(* The accounts                                                            *)

\* Addresses are stored in one spelling and once, an ID is drawn once, and nobody is
\* told of an account that is not there.
AccountsInv ==
    /\ \A u \in users : /\ u.email.spelling = "canonical" /\ u.email.address \in Addresses
                        /\ u.id <= created
    /\ \A u, v \in users : u.email.address = v.email.address => u = v
    /\ welcomed \subseteq users
    /\ \A i \in IDs : proved[i] <= now

\* A token lasts no longer than a TTL from when p says that the password of its account
\* was given.
Fresh(token, p) == token.exp <= p[token.sub] + TokenTTL

\* A session that a form is answered with.
IssuedWell(answer, p) ==
    answer.status = "ok" =>
        /\ answer.token \in Token /\ Fresh(answer.token, p)
        /\ answer.user = answer.token.sub

\* Giving a password prolongs what its account has.
ProvedGrows == \A i \in IDs : proved[i] <= proved'[i]

LEMMA InitAccounts == AccountsInit => AccountsTypeOK /\ AccountsInv
  BY DEF AccountsInit, AccountsTypeOK, AccountsInv, IDs

LEMMA FreshStays ==
    ASSUME AccountsTypeOK, AccountsTypeOK', ProvedGrows, NEW token \in Token, Fresh(token, proved)
    PROVE  Fresh(token, proved')
<1>1. /\ token.sub \in IDs /\ token.exp \in Nat
      /\ proved[token.sub] \in Nat /\ proved'[token.sub] \in Nat
  BY DEF Token, AccountsTypeOK
<1> QED BY <1>1 DEF Fresh, ProvedGrows

LEMMA IssuedToken ==
    ASSUME AccountsTypeOK, NEW u, u.id \in IDs
    PROVE  IssueToken(u) \in Token /\ IssueToken(u).sub = u.id
           /\ IssueToken(u).exp = now + TokenTTL
<1>1. now + TokenTTL \in 0 .. MaxNow + TokenTTL
  BY DEF AccountsTypeOK
<1> QED BY <1>1 DEF IssueToken, Token

\* What is stored is in one spelling, so the index on the address finds every account.
LEMMA InsertKeeps ==
    ASSUME AccountsTypeOK, AccountsInv, NEW email \in Emails, NEW password,
           ValidCredentials(email, password),
           NEW u, u = [id |-> created + 1, email |-> NormalizeEmail(email), password |-> password],
           Insert(u), created' = created + 1
    PROVE  /\ u \in User /\ u.id = created + 1 /\ created' \in 0 .. MaxAccounts
           /\ users' \subseteq User /\ users \subseteq users' /\ u \in users'
           /\ \A v \in users' : /\ v.email.spelling = "canonical"
                                /\ v.email.address \in Addresses /\ v.id <= created'
           /\ \A v, w \in users' : v.email.address = w.email.address => v = w
<1>1. /\ created \in Nat /\ created < MaxAccounts /\ users' = users \cup {u}
      /\ FindByEmail(u.email) = {} /\ users \subseteq User
  BY DEF Insert, AccountsTypeOK
<1>2. /\ u.id = created + 1 /\ u.password = password /\ u.email = NormalizeEmail(email)
      /\ created + 1 \in IDs
  BY <1>1 DEF IDs
<1>3. /\ u.email = [address |-> email.address, spelling |-> "canonical"]
      /\ u.email \in Emails /\ email.address \in Addresses /\ password \in Passwords
  BY <1>2 DEF NormalizeEmail, Emails, Spellings, ValidCredentials
<1>4. u \in User
  BY <1>2, <1>3 DEF User
<1>5. ASSUME NEW v \in users PROVE v.email.address # u.email.address
  <2>1. v.email \in Emails /\ v.email.spelling = "canonical" /\ v.email # u.email
    BY <1>1 DEF User, AccountsInv, FindByEmail
  <2> QED BY <1>3, <2>1 DEF Emails
<1>6. \A v \in users' : /\ v.email.spelling = "canonical"
                        /\ v.email.address \in Addresses /\ v.id <= created'
  BY <1>1, <1>2, <1>3 DEF AccountsInv, User, IDs
<1>7. \A v, w \in users' : v.email.address = w.email.address => v = w
  BY <1>1, <1>5 DEF AccountsInv
<1> QED BY <1>1, <1>2, <1>4, <1>6, <1>7

LEMMA ProvedNow ==
    ASSUME AccountsTypeOK, AccountsInv, NEW i \in IDs, now' = now,
           proved' = [proved EXCEPT ![i] = now]
    PROVE  /\ proved' \in [IDs -> 0 .. MaxNow] /\ ProvedGrows
           /\ \A j \in IDs : proved'[j] <= now'
           /\ proved'[i] = now
<1>1. now \in 0 .. MaxNow /\ proved \in [IDs -> 0 .. MaxNow]
  BY DEF AccountsTypeOK
<1> QED BY <1>1 DEF AccountsInv, ProvedGrows

LEMMA SignupKeeps ==
    ASSUME AccountsTypeOK, AccountsInv, NEW email \in Emails, NEW password, NEW answer,
           Signup(email, password, answer)
    PROVE  AccountsTypeOK' /\ AccountsInv' /\ ProvedGrows /\ IssuedWell(answer, proved')
<1> DEFINE u == [id |-> created + 1, email |-> NormalizeEmail(email), password |-> password]
<1>1. CASE UNCHANGED accountVars /\ answer \in {Answer("invalid", None, None), Answer("conflict", None, None)}
  <2>1. ProvedGrows
    BY <1>1 DEF ProvedGrows, accountVars, AccountsTypeOK
  <2> QED BY <1>1, <2>1 DEF AccountsTypeOK, AccountsInv, accountVars, IssuedWell, Answer
<1>2. CASE /\ ValidCredentials(email, password) /\ Insert(u) /\ created' = created + 1
           /\ answer = Answer("ok", IssueToken(u), u.id)
           /\ welcomed' = welcomed \cup {u} /\ proved' = [proved EXCEPT ![u.id] = now]
           /\ UNCHANGED <<now, dbFaults, removals>>
  <2> HIDE DEF u
  <2>0. u = [id |-> created + 1, email |-> NormalizeEmail(email), password |-> password]
    BY DEF u
  <2>1. /\ u \in User /\ created' \in 0 .. MaxAccounts
        /\ users' \subseteq User /\ users \subseteq users' /\ u \in users'
        /\ \A v \in users' : /\ v.email.spelling = "canonical"
                             /\ v.email.address \in Addresses /\ v.id <= created'
        /\ \A v, w \in users' : v.email.address = w.email.address => v = w
    BY <1>2, <2>0, InsertKeeps
  <2>2. u.id \in IDs
    BY <2>1 DEF User
  <2>3. /\ proved' \in [IDs -> 0 .. MaxNow] /\ ProvedGrows
        /\ \A j \in IDs : proved'[j] <= now' /\ proved'[u.id] = now
    BY <1>2, <2>2, ProvedNow
  <2>4. AccountsTypeOK' /\ AccountsInv'
    BY <1>2, <2>1, <2>3 DEF AccountsTypeOK, AccountsInv
  <2>5. IssuedWell(answer, proved')
    <3>1. answer.status = "ok" /\ answer.token = IssueToken(u) /\ answer.user = u.id
      BY <1>2 DEF Answer
    <3>2. /\ answer.token \in Token /\ answer.token.sub = u.id
          /\ answer.token.exp = now + TokenTTL
      BY <2>2, <3>1, IssuedToken
    <3>3. now \in Nat
      BY DEF AccountsTypeOK
    <3> QED BY <2>2, <2>3, <3>1, <3>2, <3>3 DEF IssuedWell, Fresh
  <2> QED BY <2>3, <2>4, <2>5
<1>3. CASE /\ ValidCredentials(email, password) /\ DBFault
           /\ (Insert(u) /\ created' = created + 1) \/ UNCHANGED <<users, created>>
           /\ answer = Answer("internal", None, None)
           /\ UNCHANGED <<now, removals, welcomed, proved>>
  <2> HIDE DEF u
  <2>0. u = [id |-> created + 1, email |-> NormalizeEmail(email), password |-> password]
    BY DEF u
  <2>1. /\ created' \in 0 .. MaxAccounts /\ users' \subseteq User /\ users \subseteq users'
        /\ \A v \in users' : /\ v.email.spelling = "canonical"
                             /\ v.email.address \in Addresses /\ v.id <= created'
        /\ \A v, w \in users' : v.email.address = w.email.address => v = w
    <3>1. CASE Insert(u) /\ created' = created + 1
      BY <1>3, <2>0, <3>1, InsertKeeps
    <3>2. CASE UNCHANGED <<users, created>>
      BY <3>2 DEF AccountsTypeOK, AccountsInv
    <3> QED BY <1>3, <3>1, <3>2
  <2>2. dbFaults' \in 0 .. MaxDBFaults
    BY <1>3 DEF DBFault, AccountsTypeOK
  <2>3. ProvedGrows
    BY <1>3 DEF ProvedGrows, AccountsTypeOK
  <2>4. IssuedWell(answer, proved')
    BY <1>3 DEF IssuedWell, Answer
  <2> QED BY <1>3, <2>1, <2>2, <2>3, <2>4 DEF AccountsTypeOK, AccountsInv
<1> QED BY <1>1, <1>2, <1>3 DEF Signup

LEMMA LoginKeeps ==
    ASSUME AccountsTypeOK, AccountsInv, NEW email \in Emails, NEW password, NEW answer,
           Login(email, password, answer)
    PROVE  AccountsTypeOK' /\ AccountsInv' /\ ProvedGrows /\ IssuedWell(answer, proved')
<1>1. CASE UNCHANGED accountVars /\ answer = Answer("unauthorized", None, None)
  <2>1. ProvedGrows
    BY <1>1 DEF ProvedGrows, accountVars, AccountsTypeOK
  <2> QED BY <1>1, <2>1 DEF AccountsTypeOK, AccountsInv, accountVars, IssuedWell, Answer
<1>2. CASE /\ \E u \in Claimed(email, password) :
                 /\ answer = Answer("ok", IssueToken(u), u.id)
                 /\ proved' = [proved EXCEPT ![u.id] = now]
           /\ UNCHANGED <<users, created, now, dbFaults, removals, welcomed>>
  <2>1. PICK u \in Claimed(email, password) :
           /\ answer = Answer("ok", IssueToken(u), u.id)
           /\ proved' = [proved EXCEPT ![u.id] = now]
    BY <1>2
  <2>2. u.id \in IDs
    BY DEF Claimed, FindByEmail, AccountsTypeOK, User
  <2>3. /\ proved' \in [IDs -> 0 .. MaxNow] /\ ProvedGrows
        /\ \A j \in IDs : proved'[j] <= now' /\ proved'[u.id] = now
    BY <1>2, <2>1, <2>2, ProvedNow
  <2>4. AccountsTypeOK' /\ AccountsInv'
    BY <1>2, <2>3 DEF AccountsTypeOK, AccountsInv
  <2>5. IssuedWell(answer, proved')
    <3>1. answer.status = "ok" /\ answer.token = IssueToken(u) /\ answer.user = u.id
      BY <2>1 DEF Answer
    <3>2. /\ answer.token \in Token /\ answer.token.sub = u.id
          /\ answer.token.exp = now + TokenTTL
      BY <2>2, <3>1, IssuedToken
    <3>3. now \in Nat
      BY DEF AccountsTypeOK
    <3> QED BY <2>2, <2>3, <3>1, <3>2, <3>3 DEF IssuedWell, Fresh
  <2> QED BY <2>3, <2>4, <2>5
<1>3. CASE /\ DBFault /\ answer = Answer("internal", None, None)
           /\ UNCHANGED <<users, created, now, removals, welcomed, proved>>
  <2>1. dbFaults' \in 0 .. MaxDBFaults /\ ProvedGrows
    BY <1>3 DEF DBFault, AccountsTypeOK, ProvedGrows
  <2> QED BY <1>3, <2>1 DEF AccountsTypeOK, AccountsInv, IssuedWell, Answer
<1> QED BY <1>1, <1>2, <1>3 DEF Login

\* The other operations change no account.
LEMMA MeKeeps ==
    ASSUME AccountsTypeOK, AccountsInv, NEW token, NEW answer, Me(token, answer)
    PROVE  /\ AccountsTypeOK' /\ AccountsInv' /\ ProvedGrows
           /\ answer.status = "ok" => /\ ParseToken(token)
                                      /\ answer.user = token.sub /\ answer.user \in IDs
<1>1. CASE UNCHANGED accountVars /\ answer = Answer("unauthorized", None, None)
  <2>1. ProvedGrows
    BY <1>1 DEF ProvedGrows, accountVars, AccountsTypeOK
  <2> QED BY <1>1, <2>1 DEF AccountsTypeOK, AccountsInv, accountVars, Answer
<1>2. CASE /\ ParseToken(token) /\ UNCHANGED accountVars
           /\ \E u \in users : u.id = token.sub /\ answer = Answer("ok", None, u.id)
  <2>1. ProvedGrows
    BY <1>2 DEF ProvedGrows, accountVars, AccountsTypeOK
  <2> QED BY <1>2, <2>1 DEF AccountsTypeOK, AccountsInv, accountVars, Answer, User
<1>3. CASE /\ DBFault /\ answer = Answer("internal", None, None)
           /\ UNCHANGED <<users, created, now, removals, welcomed, proved>>
  <2>1. dbFaults' \in 0 .. MaxDBFaults /\ ProvedGrows
    BY <1>3 DEF DBFault, AccountsTypeOK, ProvedGrows
  <2> QED BY <1>3, <2>1 DEF AccountsTypeOK, AccountsInv, Answer
<1> QED BY <1>1, <1>2, <1>3 DEF Me

LEMMA ElapseKeeps ==
    ASSUME AccountsTypeOK, AccountsInv, Elapse
    PROVE  AccountsTypeOK' /\ AccountsInv' /\ ProvedGrows
<1>1. CASE Tick
  <2>1. now' \in 0 .. MaxNow /\ now <= now' /\ \A i \in IDs : proved'[i] <= now'
    BY <1>1 DEF Tick, AccountsTypeOK, AccountsInv
  <2>2. ProvedGrows
    BY <1>1 DEF Tick, AccountsTypeOK, ProvedGrows
  <2> QED BY <1>1, <2>1, <2>2 DEF Tick, AccountsTypeOK, AccountsInv
<1>2. ASSUME NEW u \in users, Remove(u) PROVE AccountsTypeOK' /\ AccountsInv' /\ ProvedGrows
  <2>1. removals' \in 0 .. MaxRemovals /\ ProvedGrows
    BY <1>2 DEF Remove, AccountsTypeOK, ProvedGrows
  <2> QED BY <1>2, <2>1 DEF Remove, AccountsTypeOK, AccountsInv
<1> QED BY <1>1, <1>2 DEF Elapse

LEMMA OneAccount ==
    ASSUME AccountsTypeOK, AccountsInv
    PROVE  OneAccountPerAddress
<1>1. ASSUME NEW u \in welcomed, NEW s \in Spellings
      PROVE  LET email == [u.email EXCEPT !.spelling = s]
             IN /\ ValidCredentials(email, u.password)
                /\ \A p \in Passwords : Claimed(email, p) = IF p = u.password THEN {u} ELSE {}
  <2> DEFINE email == [u.email EXCEPT !.spelling = s]
  <2>1. /\ u \in users /\ u \in User /\ u.email \in Emails /\ u.password \in Passwords
        /\ u.email.spelling = "canonical" /\ u.email.address \in Addresses
    BY DEF AccountsInv, AccountsTypeOK, User
  <2>2. NormalizeEmail(email) = u.email /\ email.address = u.email.address
    BY <2>1 DEF NormalizeEmail, Emails
  <2>3. FindByEmail(u.email) = {u}
    BY <2>1 DEF FindByEmail, AccountsInv
  <2> QED BY <2>1, <2>2, <2>3 DEF ValidCredentials, Claimed
<1> QED BY <1>1 DEF OneAccountPerAddress, AccountsInv

----------------------------------------------------------------------------
(* The tabs                                                                *)

OpsOf(k) == CASE k = "boot" -> {"me"} [] k = "form" -> {"login", "signup"} [] k = "page" -> {"api"}

\* A good answer to the check of a token is about its account; one to a form brings a
\* token of the account it names.
AnswerFits(k, call, p) ==
    call.answer.status = "ok" =>
        /\ k = "boot" => call.answer.user \in IDs /\ call.answer.user = call.token.sub
        /\ k = "form" => IssuedWell(call.answer, p)

CallFits(k, call, p) ==
    /\ call.op \in OpsOf(k)
    /\ call.token \in Token \cup {None} /\ (call.token # None => Fresh(call.token, p))
    /\ k = "boot" => call.token # None
    /\ \/ call.phase = "sent" /\ (k = "form" => call.email \in Emails)
       \/ call.phase = "answered" /\ AnswerFits(k, call, p)

\* Every token there is, in storage, in a tab and on its way, lasts no longer than a TTL
\* from when the password of its account was given.
CallsInv ==
    /\ calls = [t \in Tabs |-> [k \in Kinds |-> calls[t][k]]]
    /\ \A t \in Tabs, k \in Kinds : calls[t][k] = NoCall \/ CallFits(k, calls[t][k], proved)
    /\ stored \in Token => Fresh(stored, proved)
    /\ \A t \in Tabs : tab[t].token # None => Fresh(tab[t].token, proved)

\* A tab shows what its calls do.  While the check of a stored token is out, and no form
\* was answered before it, the tab waits for it and its protected pages ask for nothing.
ShowsOf(t) ==
    /\ tab[t].status = "authenticated" /\ t \notin overtaken =>
          tab[t].token # None /\ tab[t].user = tab[t].token.sub
    /\ tab[t].status = "anonymous" => tab[t].token = None /\ tab[t].user = None
    /\ tab[t].status = "loading" =>
          calls[t]["boot"] # NoCall /\ calls[t]["boot"].token = tab[t].token
    /\ calls[t]["boot"] # NoCall /\ t \notin overtaken =>
          tab[t].status = "loading" /\ calls[t]["page"] = NoCall

Inv ==
    /\ TypeOK /\ AccountsInv /\ CallsInv
    /\ \A t \in Tabs : ShowsOf(t)
    /\ SignedOutStaysSignedOut

\* Nothing the server does makes a token last longer than it should.
LEMMA CallStays ==
    ASSUME AccountsTypeOK, AccountsTypeOK', ProvedGrows, NEW k \in Kinds, NEW call,
           CallFits(k, call, proved)
    PROVE  CallFits(k, call, proved')
  BY FreshStays DEF CallFits, AnswerFits, IssuedWell

\* A step that changes one call.
OnlyCall(t, k, call) ==
    /\ calls' = [s \in Tabs |-> [l \in Kinds |-> calls'[s][l]]]
    /\ \A s \in Tabs, l \in Kinds :
          calls'[s][l] = IF s = t /\ l = k THEN call ELSE calls[s][l]

LEMMA PutCall ==
    ASSUME CallsInv, NEW t \in Tabs, NEW k \in Kinds, NEW call,
           calls' = [calls EXCEPT ![t][k] = call]
    PROVE  OnlyCall(t, k, call)
<1>1. /\ DOMAIN calls = Tabs
      /\ \A s \in Tabs : DOMAIN calls[s] = Kinds /\ calls[s] = [l \in Kinds |-> calls[s][l]]
  BY DEF CallsInv
<1>2. \A s \in Tabs : calls'[s] = IF s = t THEN [calls[t] EXCEPT ![k] = call] ELSE calls[s]
  BY <1>1
<1>3. \A s \in Tabs, l \in Kinds :
          calls'[s][l] = IF s = t /\ l = k THEN call ELSE calls[s][l]
  BY <1>1, <1>2
<1>4. \A s \in Tabs : calls'[s] = [l \in Kinds |-> calls'[s][l]]
  BY <1>1, <1>2
<1>5. calls' = [s \in Tabs |-> calls'[s]]
  BY <1>1
<1> QED BY <1>3, <1>4, <1>5 DEF OnlyCall

\* A call in flight is one that fits.
LEMMA InFlight ==
    ASSUME CallsInv, NEW t \in Tabs, NEW k \in Kinds, calls[t][k].phase # "none"
    PROVE  calls[t][k] # NoCall /\ CallFits(k, calls[t][k], proved)
  BY DEF CallsInv, NoCall

LEMMA CallsKept ==
    ASSUME Inv, TypeOK', ProvedGrows,
           calls' = [s \in Tabs |-> [l \in Kinds |-> calls'[s][l]]],
           \A s \in Tabs, l \in Kinds :
               \/ calls'[s][l] = calls[s][l] \/ calls'[s][l] = NoCall
               \/ CallFits(l, calls'[s][l], proved'),
           stored' = stored \/ (stored' \in Token => Fresh(stored', proved')),
           \A s \in Tabs : \/ tab'[s].token = tab[s].token
                           \/ tab'[s].token # None => Fresh(tab'[s].token, proved')
    PROVE  CallsInv'
<1>1. AccountsTypeOK /\ AccountsTypeOK'
  BY DEF Inv, TypeOK
<1>2. ASSUME NEW s \in Tabs, NEW l \in Kinds
      PROVE  calls'[s][l] = NoCall \/ CallFits(l, calls'[s][l], proved')
  BY <1>1, CallStays DEF Inv, CallsInv
<1>3. stored' \in Token => Fresh(stored', proved')
  BY <1>1, FreshStays DEF Inv, CallsInv
<1>4. ASSUME NEW s \in Tabs, tab'[s].token # None PROVE Fresh(tab'[s].token, proved')
  BY <1>1, <1>4, FreshStays DEF Inv, CallsInv, TypeOK
<1> HIDE DEF NoCall
<1> QED BY <1>2, <1>3, <1>4 DEF CallsInv, CallFits, AnswerFits, IssuedWell, Fresh

\* The server answers a call.
LEMMA HandleKeeps ==
    ASSUME Inv, NEW t \in Tabs, NEW k \in Kinds, Handle(t, k)
    PROVE  Inv'
<1> DEFINE c == calls[t][k]
<1>1. PICK answer \in Answers :
          /\ \/ c.op = "signup" /\ Signup(c.email, c.password, answer)
             \/ c.op = "login" /\ Login(c.email, c.password, answer)
             \/ c.op = "me" /\ Me(c.token, answer)
             \/ c.op = "api" /\ Protected(c.token, answer)
          /\ calls' = [calls EXCEPT ![t][k] =
                [phase |-> "answered", op |-> c.op, token |-> c.token, answer |-> answer]]
  BY DEF Handle
<1> DEFINE d == [phase |-> "answered", op |-> c.op, token |-> c.token, answer |-> answer]
<1>2. /\ AccountsTypeOK /\ AccountsInv /\ TypeOK /\ CallsInv /\ c.phase = "sent"
      /\ UNCHANGED <<stored, tab, sent, reloads, lost, overtaken>>
  BY DEF Handle, Inv, TypeOK
<1>3. c # NoCall /\ CallFits(k, c, proved) /\ c.op \in OpsOf(k)
  BY <1>2, InFlight DEF CallFits
<1>4. /\ AccountsTypeOK' /\ AccountsInv' /\ ProvedGrows
      /\ k = "form" => IssuedWell(answer, proved')
      /\ k = "boot" /\ answer.status = "ok" => answer.user = c.token.sub /\ answer.user \in IDs
  <2>1. CASE k = "form"
    <3>1. c.email \in Emails
      BY <1>2, <1>3, <2>1 DEF CallFits
    <3>2. c.op \in {"signup", "login"}
      BY <1>3, <2>1 DEF OpsOf
    <3> QED BY <1>1, <1>2, <2>1, <3>1, <3>2, SignupKeeps, LoginKeeps
  <2>2. CASE k = "boot"
    <3>1. c.op = "me"
      BY <1>3, <2>2 DEF OpsOf
    <3> QED BY <1>1, <1>2, <2>2, <3>1, MeKeeps
  <2>3. CASE k = "page"
    <3>1. c.op = "api"
      BY <1>3, <2>3 DEF OpsOf
    <3>2. UNCHANGED accountVars
      BY <1>1, <3>1 DEF Protected
    <3> QED BY <1>2, <2>3, <3>2 DEF accountVars, AccountsTypeOK, AccountsInv, ProvedGrows
  <2> QED BY <2>1, <2>2, <2>3 DEF Kinds
<1>5. TypeOK'
  BY <1>2, <1>4 DEF TypeOK
<1>6. CallFits(k, d, proved')
  <2>1. CallFits(k, c, proved')
    BY <1>2, <1>3, <1>4, CallStays
  <2> QED BY <1>4, <2>1 DEF CallFits, AnswerFits
<1>11. calls' = [calls EXCEPT ![t][k] = d]
  BY <1>1
<1> HIDE DEF c, d
<1>7. OnlyCall(t, k, d)
  BY <1>2, <1>11, PutCall
<1>8. CallsInv'
  BY <1>2, <1>4, <1>5, <1>6, <1>7, CallsKept DEF OnlyCall
<1>9. ASSUME NEW s \in Tabs PROVE ShowsOf(s)'
  <2>1. ShowsOf(s)
    BY DEF Inv
  <2>2. d # NoCall /\ d.token = calls[t][k].token /\ calls[t][k] # NoCall
    BY <1>3 DEF d, c, NoCall
  <2> HIDE DEF NoCall
  <2> QED BY <1>2, <1>7, <2>1, <2>2 DEF ShowsOf, Kinds, OnlyCall
<1>10. SignedOutStaysSignedOut'
  BY <1>2 DEF Inv, SignedOutStaysSignedOut
<1> QED BY <1>4, <1>5, <1>8, <1>9, <1>10 DEF Inv

\* What a tab does on its own leaves the accounts and the other tabs as they are.
LEMMA TabStep ==
    ASSUME Inv, NEW t \in Tabs, UNCHANGED accountVars, TypeOK',
           calls' = [s \in Tabs |-> [l \in Kinds |-> calls'[s][l]]],
           \A s \in Tabs \ {t} : calls'[s] = calls[s] /\ tab'[s] = tab[s],
           \A l \in Kinds : \/ calls'[t][l] = calls[t][l] \/ calls'[t][l] = NoCall
                            \/ CallFits(l, calls'[t][l], proved),
           stored' = stored \/ (stored' \in Token => Fresh(stored', proved)),
           \/ tab'[t].token = tab[t].token
           \/ tab'[t].token # None => Fresh(tab'[t].token, proved),
           \A s \in Tabs \ {t} : s \in overtaken' <=> s \in overtaken,
           ShowsOf(t)',
           \/ stored' \in {None, Blocked} \/ tab'[t].status # "anonymous"
           \/ stored' = stored /\ tab[t].status = "anonymous"
    PROVE  Inv'
<1>1. AccountsInv' /\ ProvedGrows /\ proved' = proved
  BY DEF Inv, AccountsInv, accountVars, ProvedGrows, TypeOK, AccountsTypeOK
<1>2. CallsInv'
  BY <1>1, CallsKept
<1>3. ASSUME NEW s \in Tabs \ {t} PROVE ShowsOf(s)'
  <2>1. ShowsOf(s)
    BY DEF Inv
  <2> QED BY <2>1 DEF ShowsOf
<1>4. SignedOutStaysSignedOut'
  <2> SUFFICES ASSUME \A s \in Tabs : tab'[s].status = "anonymous"
               PROVE  stored' \in {None, Blocked}
    BY DEF SignedOutStaysSignedOut
  <2>1. CASE stored' = stored
    <3>1. ASSUME tab[t].status = "anonymous" PROVE \A s \in Tabs : tab[s].status = "anonymous"
      BY <3>1
    <3> QED BY <2>1, <3>1 DEF Inv, SignedOutStaysSignedOut
  <2>2. CASE stored' # stored
    BY <2>2
  <2> QED BY <2>1, <2>2
<1> QED BY <1>1, <1>2, <1>3, <1>4 DEF Inv

\* Sending something carries the token of the tab.
LEMMA SendKeeps ==
    ASSUME Inv, NEW t \in Tabs, UNCHANGED accountVars,
           CallPage(t) \/ \E c \in Credentials : Submit(t, c)
    PROVE  Inv'
<1>1. TypeOK /\ CallsInv /\ ShowsOf(t)
  BY DEF Inv
<1> DEFINE Sends(k, call) ==
          /\ calls[t][k] = NoCall /\ calls' = [calls EXCEPT ![t][k] = call]
          /\ k = "page" => tab[t].status = "authenticated"
          /\ call.op \in OpsOf(k) /\ call.token = tab[t].token /\ call.phase = "sent"
          /\ k = "form" => call.email \in Emails
          /\ sent < MaxRequests /\ sent' = sent + 1
          /\ UNCHANGED <<stored, tab, reloads, lost, overtaken>>
<1>2. PICK k, call : k \in {"form", "page"} /\ Sends(k, call)
  <2>1. CASE CallPage(t)
    <3> DEFINE call == Call("api", tab[t].token)
    <3>1. call.op \in OpsOf("page") /\ call.token = tab[t].token /\ call.phase = "sent"
      BY DEF Call, OpsOf
    <3>2. /\ calls[t]["page"] = NoCall /\ calls' = [calls EXCEPT ![t]["page"] = call]
          /\ tab[t].status = "authenticated" /\ sent < MaxRequests /\ sent' = sent + 1
          /\ UNCHANGED <<stored, tab, reloads, lost, overtaken>>
      BY <2>1 DEF CallPage, Send
    <3>3. Sends("page", call)
      BY <3>1, <3>2
    <3> HIDE DEF call, Sends
    <3> QED BY <3>3
  <2>2. ASSUME NEW c \in Credentials, Submit(t, c)
        PROVE  \E k \in {"form", "page"} : \E call : Sends(k, call)
    <3> DEFINE call == FormCall(c, tab[t].token)
    <3>1. /\ call.op \in OpsOf("form") /\ call.token = tab[t].token /\ call.phase = "sent"
          /\ call.email \in Emails
      BY DEF FormCall, OpsOf, Credentials
    <3>2. /\ calls[t]["form"] = NoCall /\ calls' = [calls EXCEPT ![t]["form"] = call]
          /\ sent < MaxRequests /\ sent' = sent + 1
          /\ UNCHANGED <<stored, tab, reloads, lost, overtaken>>
      BY <2>2 DEF Submit, Send
    <3>3. Sends("form", call)
      BY <3>1, <3>2
    <3> QED BY <3>3
  <2> HIDE DEF Sends
  <2> QED BY <2>1, <2>2
<1>3. TypeOK'
  BY <1>1, <1>2 DEF TypeOK, AccountsTypeOK, accountVars
<1>4. CallFits(k, call, proved)
  BY <1>1, <1>2 DEF CallFits, CallsInv, TypeOK
<1>5. OnlyCall(t, k, call)
  BY <1>1, <1>2, PutCall DEF Kinds
<1>6. ShowsOf(t)'
  <2>1. k = "page" => calls[t]["boot"] = NoCall \/ t \in overtaken
    BY <1>1, <1>2 DEF ShowsOf
  <2> HIDE DEF NoCall
  <2> QED BY <1>1, <1>2, <1>5, <2>1 DEF ShowsOf, Kinds, OnlyCall
<1>7. \A s \in Tabs \ {t} : calls'[s] = calls[s]
  BY <1>1, <1>5 DEF CallsInv, OnlyCall
<1> QED BY <1>2, <1>3, <1>4, <1>5, <1>6, <1>7, TabStep DEF OnlyCall

LEMMA SignOutShows ==
    ASSUME TypeOK, NEW t \in Tabs, SignOut(t)
    PROVE  /\ tab' = [tab EXCEPT ![t] = NewTab] /\ tab'[t] = NewTab
           /\ stored' \in {None, Blocked}
           /\ NewTab.token = None /\ NewTab.status = "anonymous" /\ NewTab.user = None
           /\ NewTab \in [token  : Token \cup {None},
                          status : {"loading", "anonymous", "authenticated"},
                          user   : IDs \cup {None}]
  BY DEF SignOut, WriteStoredToken, TypeOK, NewTab

\* A page that loads waits for the check of the stored token, or shows that nobody is
\* signed in.
LEMMA LoadKeeps ==
    ASSUME Inv, NEW t \in Tabs, UNCHANGED accountVars, Load(t)
    PROVE  Inv'
<1> DEFINE fresh == [k \in Kinds |-> NoCall]
<1>1. /\ TypeOK /\ CallsInv /\ reloads' \in 0 .. MaxReloads
      /\ overtaken' = overtaken \ {t} /\ UNCHANGED <<stored, sent, lost>>
  BY DEF Inv, Load, TypeOK
<1>2. CASE /\ ReadStoredToken = None
           /\ tab' = [tab EXCEPT ![t] = NewTab] /\ calls' = [calls EXCEPT ![t] = fresh]
  <2>1. stored \in {None, Blocked}
    BY <1>2 DEF ReadStoredToken
  <2>2. /\ tab'[t] = NewTab /\ NewTab.token = None /\ NewTab.status = "anonymous"
        /\ NewTab.user = None
        /\ NewTab \in [token  : Token \cup {None},
                       status : {"loading", "anonymous", "authenticated"},
                       user   : IDs \cup {None}]
    BY <1>1, <1>2 DEF NewTab, TypeOK
  <2>3. TypeOK'
    BY <1>1, <1>2, <2>2 DEF TypeOK, AccountsTypeOK, accountVars
  <2>4. /\ calls' = [s \in Tabs |-> [l \in Kinds |-> calls'[s][l]]]
        /\ \A l \in Kinds : calls'[t][l] = NoCall
        /\ \A s \in Tabs \ {t} : calls'[s] = calls[s] /\ tab'[s] = tab[s]
    BY <1>1, <1>2 DEF CallsInv, TypeOK
  <2>5. ShowsOf(t)'
    BY <2>2, <2>4 DEF ShowsOf, Kinds
  <2> QED BY <1>1, <1>2, <2>1, <2>2, <2>3, <2>4, <2>5, TabStep
<1>3. CASE /\ ReadStoredToken # None
           /\ tab' = [tab EXCEPT ![t] =
                [NewTab EXCEPT !.token = ReadStoredToken, !.status = "loading"]]
           /\ calls' = [calls EXCEPT ![t] = [fresh EXCEPT !["boot"] = Call("me", ReadStoredToken)]]
  <2>1. ReadStoredToken = stored /\ stored \in Token
    BY <1>1, <1>3 DEF ReadStoredToken, TypeOK
  <2>2. tab'[t] = [token |-> stored, status |-> "loading", user |-> None]
    BY <1>1, <1>3, <2>1 DEF NewTab, TypeOK
  <2>3. TypeOK'
    BY <1>1, <1>3, <2>1, <2>2 DEF TypeOK, AccountsTypeOK, accountVars, NewTab
  <2> DEFINE check == Call("me", stored)
  <2>4. check.op = "me" /\ check.token = stored /\ check.phase = "sent" /\ check # NoCall
    BY DEF Call, NoCall
  <2>5. CallFits("boot", check, proved)
    BY <1>1, <2>1, <2>4 DEF CallFits, OpsOf, CallsInv
  <2>6. /\ calls' = [s \in Tabs |-> [l \in Kinds |-> calls'[s][l]]]
        /\ \A l \in Kinds : calls'[t][l] = IF l = "boot" THEN check ELSE NoCall
        /\ \A s \in Tabs \ {t} : calls'[s] = calls[s] /\ tab'[s] = tab[s]
    <3>1. calls'[t] = [fresh EXCEPT !["boot"] = check]
      BY <1>1, <1>3, <2>1 DEF CallsInv
    <3>2. \A l \in Kinds : calls'[t][l] = IF l = "boot" THEN check ELSE NoCall
      BY <3>1
    <3>3. calls'[t] = [l \in Kinds |-> calls'[t][l]]
      BY <3>1
    <3>4. \A s \in Tabs \ {t} : calls'[s] = calls[s] /\ tab'[s] = tab[s]
      BY <1>1, <1>3 DEF CallsInv, TypeOK
    <3>5. calls' = [s \in Tabs |-> calls'[s]]
      BY <1>1, <1>3 DEF CallsInv
    <3>6. \A s \in Tabs : calls[s] = [l \in Kinds |-> calls[s][l]]
      BY <1>1 DEF CallsInv
    <3>7. \A s \in Tabs : calls'[s] = [l \in Kinds |-> calls'[s][l]]
      BY <3>3, <3>4, <3>6
    <3>8. calls' = [s \in Tabs |-> [l \in Kinds |-> calls'[s][l]]]
      BY <3>5, <3>7
    <3> QED BY <3>2, <3>4, <3>8
  <2> HIDE DEF check, NoCall
  <2>7. ShowsOf(t)'
    BY <2>2, <2>4, <2>6 DEF ShowsOf, Kinds
  <2>8. tab'[t].token # None => Fresh(tab'[t].token, proved)
    BY <1>1, <2>1, <2>2 DEF CallsInv
  <2> QED BY <1>1, <2>2, <2>3, <2>5, <2>6, <2>7, <2>8, TabStep
<1> QED BY <1>2, <1>3 DEF Load

LEMMA ClickKeeps ==
    ASSUME Inv, NEW t \in Tabs, UNCHANGED accountVars, ClickSignOut(t)
    PROVE  Inv'
<1>1. /\ TypeOK /\ CallsInv /\ ShowsOf(t) /\ SignOut(t)
      /\ tab[t].status = "authenticated"
      /\ UNCHANGED <<calls, sent, reloads, lost, overtaken>>
  BY DEF Inv, ClickSignOut
<1>2. TypeOK'
  BY <1>1, SignOutShows DEF TypeOK, AccountsTypeOK, accountVars
<1>3. ShowsOf(t)'
  BY <1>1, SignOutShows DEF ShowsOf
<1>4. \A s \in Tabs \ {t} : calls'[s] = calls[s] /\ tab'[s] = tab[s]
  BY <1>1, SignOutShows DEF TypeOK
<1>5. tab'[t].token = None /\ stored' \in {None, Blocked}
  BY <1>1, SignOutShows
<1>6. calls' = [s \in Tabs |-> [l \in Kinds |-> calls'[s][l]]]
  BY <1>1 DEF CallsInv
<1> QED BY <1>1, <1>2, <1>3, <1>4, <1>5, <1>6, TabStep

\* The end of a call, whatever the tab makes of it.
LEMMA OverKeeps ==
    ASSUME Inv, NEW t \in Tabs, NEW k \in Kinds, UNCHANGED accountVars,
           calls[t][k] # NoCall, Over(t, k), lost' \in 0 .. MaxLost,
           overtaken' \in {overtaken, overtaken \cup {t}},
           \/ SignOut(t) /\ (k = "form" /\ calls[t]["boot"] # NoCall => t \in overtaken')
           \/ k # "boot" /\ UNCHANGED <<stored, tab>>
    PROVE  Inv'
<1>1. /\ TypeOK /\ CallsInv /\ ShowsOf(t) /\ OnlyCall(t, k, NoCall)
      /\ UNCHANGED <<sent, reloads>>
  BY PutCall DEF Inv, Over
<1>2. overtaken' \subseteq Tabs /\ \A s \in Tabs \ {t} : s \in overtaken' <=> s \in overtaken
  BY <1>1 DEF TypeOK
<1>3. \A s \in Tabs \ {t} : calls'[s] = calls[s]
  BY <1>1 DEF OnlyCall, CallsInv
<1> HIDE DEF NoCall
<1>4. CASE SignOut(t) /\ (k = "form" /\ calls[t]["boot"] # NoCall => t \in overtaken')
  <2>1. TypeOK'
    BY <1>1, <1>2, <1>4, SignOutShows DEF TypeOK, AccountsTypeOK, accountVars
  <2>2. calls'[t]["boot"] # NoCall => t \in overtaken'
    BY <1>1, <1>4 DEF ShowsOf, OnlyCall, Kinds
  <2>3. ShowsOf(t)'
    BY <1>1, <1>4, <2>2, SignOutShows DEF ShowsOf
  <2>4. /\ \A s \in Tabs \ {t} : tab'[s] = tab[s]
        /\ tab'[t].token = None /\ stored' \in {None, Blocked}
    BY <1>1, <1>4, SignOutShows DEF TypeOK
  <2> QED BY <1>1, <1>2, <1>3, <2>1, <2>3, <2>4, TabStep DEF OnlyCall
<1>5. CASE k # "boot" /\ UNCHANGED <<stored, tab>>
  <2>1. TypeOK'
    BY <1>1, <1>2, <1>5 DEF TypeOK, AccountsTypeOK, accountVars
  <2>2. ShowsOf(t)'
    BY <1>1, <1>2, <1>5 DEF ShowsOf, OnlyCall, Kinds
  <2> QED BY <1>1, <1>2, <1>3, <1>5, <2>1, <2>2, TabStep DEF OnlyCall
<1> QED BY <1>4, <1>5

LEMMA DeliverKeeps ==
    ASSUME Inv, NEW t \in Tabs, NEW k \in Kinds, UNCHANGED accountVars, Deliver(t, k)
    PROVE  Inv'
<1> DEFINE c == calls[t][k]
<1>1. /\ TypeOK /\ CallsInv /\ ShowsOf(t) /\ c.phase = "answered"
      /\ overtaken' = IF k = "form" /\ calls[t]["boot"] # NoCall THEN overtaken \cup {t}
                      ELSE overtaken
      /\ Over(t, k) /\ lost' = lost
  BY DEF Inv, Deliver
<1>2. c # NoCall /\ CallFits(k, c, proved) /\ AnswerFits(k, c, proved)
  BY <1>1, InFlight DEF CallFits
<1>3. OnlyCall(t, k, NoCall) /\ UNCHANGED <<sent, reloads>>
  BY <1>1, PutCall DEF Over
<1>4. overtaken' \subseteq Tabs /\ \A s \in Tabs \ {t} : s \in overtaken' <=> s \in overtaken
  BY <1>1 DEF TypeOK
<1>5. \A s \in Tabs \ {t} : calls'[s] = calls[s]
  BY <1>1, <1>3 DEF OnlyCall, CallsInv
<1> HIDE DEF NoCall
<1>6. CASE BootOK(t, k)
  <2>1. /\ k = "boot" /\ c.answer.user \in IDs /\ c.answer.user = c.token.sub
        /\ c.token # None /\ stored' = stored /\ overtaken' = overtaken
        /\ tab' = [tab EXCEPT ![t].user = c.answer.user, ![t].status = "authenticated"]
    BY <1>1, <1>2, <1>6 DEF BootOK, AnswerFits, CallFits
  <2>2. /\ tab'[t] = [tab[t] EXCEPT !.user = c.answer.user, !.status = "authenticated"]
        /\ \A s \in Tabs \ {t} : tab'[s] = tab[s]
    BY <1>1, <2>1 DEF TypeOK
  <2>3. /\ tab'[t].user = c.answer.user /\ tab'[t].status = "authenticated"
        /\ tab'[t].token = tab[t].token
    BY <1>1, <2>2 DEF TypeOK
  <2>4. TypeOK'
    <3> DEFINE Tab == [token  : Token \cup {None},
                       status : {"loading", "anonymous", "authenticated"},
                       user   : IDs \cup {None}]
               known == [tab[t] EXCEPT !.user = c.answer.user]
    <3>1. known \in Tab
      BY <1>1, <2>1 DEF TypeOK
    <3>2. [known EXCEPT !.status = "authenticated"] \in Tab
      BY <3>1
    <3>3. tab'[t] \in Tab
      BY <2>2, <3>2
    <3>4. tab' \in [Tabs -> Tab]
      <4> HIDE DEF Tab
      <4>1. tab \in [Tabs -> Tab]
        BY <1>1 DEF TypeOK, Tab
      <4> QED BY <2>1, <3>3, <4>1
    <3> QED BY <1>1, <1>3, <1>4, <2>1, <3>4 DEF TypeOK, AccountsTypeOK, accountVars
  <2>5. ShowsOf(t)'
    <3>1. t \notin overtaken =>
            tab'[t].token # None /\ tab'[t].user = tab'[t].token.sub
      BY <1>1, <1>2, <2>1, <2>3 DEF ShowsOf
    <3> QED BY <1>3, <2>1, <2>3, <3>1 DEF ShowsOf, OnlyCall, Kinds
  <2> QED BY <1>3, <1>4, <1>5, <2>1, <2>2, <2>3, <2>4, <2>5, TabStep DEF OnlyCall
<1>7. CASE FormOK(t, k)
  <2>1. /\ k = "form" /\ IssuedWell(c.answer, proved) /\ c.answer.status = "ok"
        /\ ApplySession(t, c.answer)
    BY <1>2, <1>7 DEF FormOK, AnswerFits
  <2>2. /\ c.answer.token \in Token /\ c.answer.token # None /\ Fresh(c.answer.token, proved)
        /\ c.answer.user = c.answer.token.sub /\ c.answer.user \in IDs
    BY <2>1 DEF IssuedWell, Token
  <2>3. /\ tab' = [tab EXCEPT ![t] = [token |-> c.answer.token, status |-> "authenticated",
                                      user |-> c.answer.user]]
        /\ stored' \in {Blocked, c.answer.token}
    BY <2>1 DEF ApplySession, WriteStoredToken
  <2>4. /\ tab'[t].token = c.answer.token /\ tab'[t].status = "authenticated"
        /\ tab'[t].user = c.answer.user
        /\ \A s \in Tabs \ {t} : tab'[s] = tab[s]
    BY <1>1, <2>3 DEF TypeOK
  <2>5. TypeOK'
    BY <1>1, <1>3, <1>4, <2>2, <2>3 DEF TypeOK, AccountsTypeOK, accountVars
  <2>6. ShowsOf(t)'
    BY <1>1, <1>3, <2>1, <2>2, <2>4 DEF ShowsOf, OnlyCall, Kinds
  <2>7. stored' \in Token => Fresh(stored', proved)
    BY <2>2, <2>3
  <2> QED BY <1>3, <1>4, <1>5, <2>2, <2>4, <2>5, <2>6, <2>7, TabStep DEF OnlyCall
<1>8. CASE NotOK(t, k)
  <2>1. SignOut(t) \/ (k # "boot" /\ UNCHANGED <<stored, tab>>)
    BY <1>8 DEF NotOK
  <2>2. lost' \in 0 .. MaxLost
    BY <1>1 DEF TypeOK
  <2> HIDE DEF c
  <2>3. calls[t][k] # NoCall
    BY <1>2 DEF c
  <2> QED BY <1>1, <2>1, <2>2, <2>3, OverKeeps
<1> QED BY <1>6, <1>7, <1>8 DEF Deliver

LEMMA LoseKeeps ==
    ASSUME Inv, NEW t \in Tabs, NEW k \in Kinds, UNCHANGED accountVars, Lose(t, k)
    PROVE  Inv'
<1>1. /\ calls[t][k] # NoCall /\ Over(t, k) /\ overtaken' = overtaken
      /\ (k = "boot" /\ SignOut(t)) \/ (k # "boot" /\ UNCHANGED <<stored, tab>>)
  BY DEF Lose
<1>2. lost' \in 0 .. MaxLost
  BY DEF Lose, Inv, TypeOK
<1> QED BY <1>1, <1>2, OverKeeps

LEMMA InitInv == Init => Inv
<1> SUFFICES ASSUME Init PROVE Inv
  OBVIOUS
<1>1. AccountsTypeOK /\ AccountsInv /\ SessionInit
  BY InitAccounts DEF Init
<1>2. /\ stored \in {None, Blocked} /\ overtaken = {}
      /\ tab = [t \in Tabs |-> NewTab] /\ calls = [t \in Tabs |-> [k \in Kinds |-> NoCall]]
      /\ sent = 0 /\ reloads = 0 /\ lost = 0
  BY <1>1 DEF SessionInit
<1>3. TypeOK
  BY <1>1, <1>2 DEF TypeOK, NewTab
<1>4. CallsInv
  BY <1>2 DEF CallsInv, NewTab
<1>5. \A t \in Tabs : ShowsOf(t)
  BY <1>2 DEF ShowsOf, NewTab, Kinds
<1> QED BY <1>1, <1>2, <1>3, <1>4, <1>5 DEF Inv, SignedOutStaysSignedOut

LEMMA NextInv ==
    ASSUME Inv, [Next]_vars
    PROVE  Inv'
<1>1. ASSUME NEW t \in Tabs, Browse(t), UNCHANGED accountVars PROVE Inv'
  BY <1>1, LoadKeeps, SendKeeps, ClickKeeps, DeliverKeeps, LoseKeeps DEF Browse
<1>2. ASSUME NEW t \in Tabs, NEW k \in Kinds, Handle(t, k) PROVE Inv'
  BY <1>2, HandleKeeps
<1>3. CASE Elapse /\ UNCHANGED tabVars
  <2>1. AccountsTypeOK' /\ AccountsInv' /\ ProvedGrows
    BY <1>3, ElapseKeeps DEF Inv, TypeOK
  <2>2. TypeOK'
    BY <1>3, <2>1 DEF Inv, TypeOK, tabVars
  <2>3. CallsInv'
    BY <1>3, <2>1, <2>2, CallsKept DEF Inv, CallsInv, tabVars
  <2> QED BY <1>3, <2>1, <2>2, <2>3 DEF Inv, ShowsOf, SignedOutStaysSignedOut, tabVars
<1>4. CASE UNCHANGED vars
  BY <1>4 DEF Inv, TypeOK, AccountsTypeOK, AccountsInv, CallsInv, ShowsOf,
              SignedOutStaysSignedOut, vars, accountVars, tabVars
<1> QED BY <1>1, <1>2, <1>3, <1>4 DEF Next

LEMMA InvHolds == Spec => []Inv
<1>1. Inv /\ [Next]_vars => Inv'
  BY NextInv
<1> QED BY InitInv, <1>1, PTL DEF Spec

\* Every address has one account that everybody who was told of it can sign in to, for
\* any number of signups at once, failing inserts and removals (services/auth.go:62).
THEOREM AddressesHaveOneAccount == Spec => []OneAccountPerAddress
<1>1. Inv => OneAccountPerAddress
  BY OneAccount DEF Inv, TypeOK
<1> QED BY InvHolds, <1>1, PTL

\* A tab shows the session that its calls act for, in whatever order the answers to the
\* check, the form and the page come, late or not at all (AuthContext.jsx, client.js).
THEOREM TabsAreTruthful == Spec => []TabsShowTheirSession
<1>1. Inv => TabsShowTheirSession
  <2> SUFFICES ASSUME Inv, NEW t \in Tabs
               PROVE  CASE tab[t].status = "authenticated" ->
                             t \notin overtaken => tab[t].token # None /\ tab[t].user = tab[t].token.sub
                        [] tab[t].status = "anonymous" -> tab[t].token = None /\ tab[t].user = None
                        [] tab[t].status = "loading" ->
                             calls[t]["boot"] # NoCall /\ calls[t]["boot"].token = tab[t].token
    BY DEF Inv, TabsShowTheirSession
  <2>1. tab[t].status \in {"loading", "anonymous", "authenticated"} /\ ShowsOf(t)
    BY DEF Inv, TypeOK
  <2> HIDE DEF NoCall
  <2> QED BY <2>1 DEF ShowsOf
<1> QED BY InvHolds, <1>1, PTL

\* With every tab signed out no token is left in storage, whichever tab signed out, was
\* refused or lost its check last (AuthContext.jsx signOut).
THEOREM SignedOutForGood == Spec => []SignedOutStaysSignedOut
<1>1. Inv => SignedOutStaysSignedOut
  BY DEF Inv
<1> QED BY InvHolds, <1>1, PTL

\* Only the server answers.
LEMMA BrowseAnswersNothing ==
    ASSUME CallsInv, NEW s \in Tabs, Browse(s), NEW t \in Tabs, NEW k \in Kinds
    PROVE  calls'[t][k] = calls[t][k] \/ calls'[t][k].phase \in {"none", "sent"}
<1>1. ASSUME NEW l \in Kinds, NEW call, calls' = [calls EXCEPT ![s][l] = call],
             call.phase \in {"none", "sent"}
      PROVE  calls'[t][k] = calls[t][k] \/ calls'[t][k].phase \in {"none", "sent"}
  BY <1>1, PutCall DEF OnlyCall
<1>2. CASE Load(s)
  <2> DEFINE fresh == [l \in Kinds |-> NoCall]
             check == Call("me", ReadStoredToken)
  <2>1. \/ calls' = [calls EXCEPT ![s] = fresh]
        \/ calls' = [calls EXCEPT ![s] = [fresh EXCEPT !["boot"] = check]]
    BY <1>2 DEF Load
  <2>2. NoCall.phase = "none" /\ check.phase = "sent"
    BY DEF NoCall, Call
  <2> HIDE DEF check, NoCall
  <2>3. DOMAIN calls = Tabs
    BY DEF CallsInv
  <2>4. calls'[t] \in {calls[t], fresh, [fresh EXCEPT !["boot"] = check]}
    BY <2>1, <2>3
  <2>5. calls'[t][k] \in {calls[t][k], NoCall, check}
    BY <2>4
  <2> QED BY <2>2, <2>5
<1>3. CASE CallPage(s)
  <2>1. Call("api", tab[s].token).phase = "sent" /\ "page" \in Kinds
    BY DEF Call, Kinds
  <2>2. calls' = [calls EXCEPT ![s]["page"] = Call("api", tab[s].token)]
    BY <1>3 DEF CallPage, Send
  <2> QED BY <1>1, <2>1, <2>2
<1>4. ASSUME NEW c \in Credentials, Submit(s, c)
      PROVE  calls'[t][k] = calls[t][k] \/ calls'[t][k].phase \in {"none", "sent"}
  <2>1. FormCall(c, tab[s].token).phase = "sent" /\ "form" \in Kinds
    BY DEF FormCall, Kinds
  <2>2. calls' = [calls EXCEPT ![s]["form"] = FormCall(c, tab[s].token)]
    BY <1>4 DEF Submit, Send
  <2> QED BY <1>1, <2>1, <2>2
<1>5. CASE ClickSignOut(s)
  BY <1>5 DEF ClickSignOut
<1>6. ASSUME NEW l \in Kinds, Deliver(s, l) \/ Lose(s, l)
      PROVE  calls'[t][k] = calls[t][k] \/ calls'[t][k].phase \in {"none", "sent"}
  <2>1. calls' = [calls EXCEPT ![s][l] = NoCall] /\ NoCall.phase = "none"
    BY <1>6 DEF Deliver, Lose, Over, NoCall
  <2> QED BY <1>1, <2>1
<1> QED BY <1>2, <1>3, <1>4, <1>5, <1>6 DEF Browse

\* Behind RequireAuth a good answer takes a token that has not expired.
LEMMA GoodAnswer ==
    ASSUME Inv, NEW t \in Tabs, NEW k \in {"boot", "page"}, calls[t][k].phase = "sent",
           calls'[t][k].phase = "answered", calls'[t][k].answer.status = "ok",
           NEW s \in Tabs, NEW l \in Kinds, Handle(s, l)
    PROVE  ParseToken(calls[t][k].token)
<1> DEFINE c == calls[s][l]
<1>1. PICK answer \in Answers :
          /\ \/ c.op = "signup" /\ Signup(c.email, c.password, answer)
             \/ c.op = "login" /\ Login(c.email, c.password, answer)
             \/ c.op = "me" /\ Me(c.token, answer)
             \/ c.op = "api" /\ Protected(c.token, answer)
          /\ calls' = [calls EXCEPT ![s][l] =
                [phase |-> "answered", op |-> c.op, token |-> c.token, answer |-> answer]]
  BY DEF Handle
<1> DEFINE d == [phase |-> "answered", op |-> c.op, token |-> c.token, answer |-> answer]
<1>2. calls' = [calls EXCEPT ![s][l] = d] /\ d.answer = answer
  BY <1>1
<1>3. CallsInv /\ AccountsTypeOK /\ AccountsInv /\ k \in Kinds
  BY DEF Inv, TypeOK, Kinds
<1> HIDE DEF d
<1>4. OnlyCall(s, l, d)
  BY <1>2, <1>3, PutCall
<1>5. s = t /\ l = k /\ answer.status = "ok"
  BY <1>2, <1>3, <1>4 DEF OnlyCall
<1>6. c.op \in {"me", "api"}
  BY <1>3, <1>5, InFlight DEF CallFits, OpsOf
<1>7. CASE c.op = "me"
  BY <1>1, <1>3, <1>5, <1>7, MeKeeps
<1>8. CASE c.op = "api"
  BY <1>1, <1>5, <1>8 DEF Protected, Answer
<1> QED BY <1>6, <1>7, <1>8

\* No chain of reloads, answers and clock ticks makes a token outlast a TTL from when the
\* password was given (services/auth.go issueToken, ParseToken).
THEOREM SessionsDoExpire == Spec => SessionsExpire
<1> DEFINE Expires ==
        \A t \in Tabs, k \in {"boot", "page"} :
          /\ calls[t][k].phase = "sent" /\ calls'[t][k].phase = "answered"
          /\ calls'[t][k].answer.status = "ok"
          => now < proved[calls[t][k].token.sub] + TokenTTL
<1>1. ASSUME Inv, [Next]_vars PROVE [Expires]_vars
  <2> SUFFICES ASSUME NEW t \in Tabs, NEW k \in {"boot", "page"},
                      calls[t][k].phase = "sent", calls'[t][k].phase = "answered",
                      calls'[t][k].answer.status = "ok"
               PROVE  now < proved[calls[t][k].token.sub] + TokenTTL
    OBVIOUS
  <2> DEFINE c == calls[t][k]
  <2>1. k \in Kinds /\ c # NoCall /\ CallFits(k, c, proved)
    BY <1>1, InFlight DEF Inv, Kinds
  <2>2. PICK s \in Tabs, l \in Kinds : Handle(s, l)
    <3>1. ASSUME NEW s \in Tabs, Browse(s) PROVE FALSE
      BY <1>1, <2>1, <3>1, BrowseAnswersNothing DEF Inv
    <3>2. ~UNCHANGED calls
      OBVIOUS
    <3> QED BY <1>1, <3>1, <3>2 DEF Next, vars, tabVars
  <2>4. ParseToken(c.token)
    BY <1>1, <2>1, <2>2, GoodAnswer DEF Inv
  <2>3. c.token \in Token /\ Fresh(c.token, proved)
    BY <2>1, <2>4 DEF CallFits, ParseToken
  <2>5. /\ c.token.exp \in Nat /\ c.token.sub \in IDs /\ now \in Nat
        /\ proved[c.token.sub] \in Nat
    BY <1>1, <2>3 DEF Token, Inv, TypeOK, AccountsTypeOK
  <2> QED BY <2>3, <2>4, <2>5 DEF ParseToken, Fresh
<1> QED BY InvHolds, <1>1, PTL DEF Spec, SessionsExpire
=============================================================================
