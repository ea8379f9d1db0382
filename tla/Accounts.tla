------------------------------ MODULE Accounts ------------------------------
(***************************************************************************)
(* The accounts of the server and the tokens it issues: services/auth.go,  *)
(* db/users.go and the RequireAuth middleware.                             *)
(*                                                                         *)
(* Each operation is one step, as it makes one call to the database; it is *)
(* a relation between the request, the answer and the change of the state. *)
(* An address is written in one of two spellings, which differ in case or  *)
(* in the space around it.  A password is stored as its bcrypt hash, which *)
(* is good for comparing and for nothing else: here, as the password.  The *)
(* signature of a token cannot be forged, so a token is what it claims.    *)
(***************************************************************************)
EXTENDS Integers, FiniteSetsExt

CONSTANTS
    Addresses,
    NotAddresses,   \* texts ValidateCredentials does not take for an address
    Passwords,
    NotPasswords,   \* passwords shorter than 8 bytes, or longer than bcrypt takes
    TokenTTL,       \* JWT_TTL, in ticks
    MaxAccounts, MaxNow, MaxDBFaults, MaxRemovals,
    None

\* config.Load refuses a JWT_TTL that is not positive.
ASSUME TTLAssumption == TokenTTL \in Nat \ {0}
ASSUME AccountBounds ==
    MaxAccounts \in Nat /\ MaxNow \in Nat /\ MaxDBFaults \in Nat /\ MaxRemovals \in Nat

VARIABLES
    users,      \* the documents of the users collection
    created,    \* how many IDs were drawn: bson.NewObjectID never repeats
    now,
    dbFaults, removals,
    welcomed,   \* history: the signups that were answered "created"
    proved      \* history: when an account's password was last given

accountVars == <<users, created, now, dbFaults, removals, welcomed, proved>>

IDs == 1 .. MaxAccounts

Spellings == {"canonical", "variant"}

Emails == [address : Addresses \cup NotAddresses, spelling : Spellings]

User == [id : IDs, email : Emails, password : Passwords]

Token == [sub : IDs, exp : 0 .. MaxNow + TokenTTL]

Answer(status, token, user) == [status |-> status, token |-> token, user |-> user]

Answers == {Answer(s, None, None) : s \in {"invalid", "unauthorized", "conflict", "internal"}}
             \cup {Answer("ok", t, t.sub) : t \in Token}
             \cup {Answer("ok", None, i) : i \in IDs} \cup {Answer("ok", None, None)}

AccountsInit ==
    /\ users = {} /\ created = 0 /\ now = 0
    /\ dbFaults = 0 /\ removals = 0
    /\ welcomed = {}
    /\ proved = [i \in IDs |-> 0]

-----------------------------------------------------------------------------
(* Credentials and tokens                                                  *)

\* NormalizeEmail: trimmed, in lower case.
NormalizeEmail(email) == [email EXCEPT !.spelling = "canonical"]

\* ValidateCredentials: the address and the length of the password.
ValidCredentials(email, password) == email.address \in Addresses /\ password \in Passwords

FindByEmail(email) == {u \in users : u.email = email}

\* A deviation: the token lasts for ever.
TokenWithoutExpiry(u) == [sub |-> u.id, exp |-> MaxNow + TokenTTL]

\* issueToken
IssueToken(u) == [sub |-> u.id, exp |-> now + TokenTTL]

\* bearerToken and ParseToken: a token is good until the instant it expires.
ParseToken(token) == token # None /\ now < token.exp

-----------------------------------------------------------------------------
(* Operations                                                              *)

DBFault == dbFaults < MaxDBFaults /\ dbFaults' = dbFaults + 1

\* A deviation: no unique index on the address.
InsertAlways(u) == created < MaxAccounts /\ users' = users \cup {u}

\* UserRepo.Create: the unique index on the address decides.
Insert(u) ==
    /\ created < MaxAccounts
    /\ FindByEmail(u.email) = {}
    /\ users' = users \cup {u}

\* AuthService.Signup: validate, hash, insert, issue.  A failing insert may be applied.
Signup(email, password, answer) ==
    LET u == [id |-> created + 1, email |-> NormalizeEmail(email), password |-> password]
    IN \/ /\ ~ValidCredentials(email, password)
          /\ answer = Answer("invalid", None, None)
          /\ UNCHANGED accountVars
       \/ /\ ValidCredentials(email, password)
          /\ FindByEmail(NormalizeEmail(email)) # {}
          /\ answer = Answer("conflict", None, None)
          /\ UNCHANGED accountVars
       \/ /\ ValidCredentials(email, password)
          /\ Insert(u)
          /\ created' = created + 1
          /\ answer = Answer("ok", IssueToken(u), u.id)
          /\ welcomed' = welcomed \cup {u}
          /\ proved' = [proved EXCEPT ![u.id] = now]
          /\ UNCHANGED <<now, dbFaults, removals>>
       \/ /\ ValidCredentials(email, password)
          /\ DBFault
          /\ \/ Insert(u) /\ created' = created + 1
             \/ UNCHANGED <<users, created>>
          /\ answer = Answer("internal", None, None)
          /\ UNCHANGED <<now, removals, welcomed, proved>>

\* The account that Login compares with.
Claimed(email, password) ==
    {u \in FindByEmail(NormalizeEmail(email)) : u.password = password}

\* AuthService.Login: every refusal is the same 401.
Login(email, password, answer) ==
    \/ /\ ~ValidCredentials(email, password) \/ Claimed(email, password) = {}
       /\ answer = Answer("unauthorized", None, None)
       /\ UNCHANGED accountVars
    \/ /\ ValidCredentials(email, password)
       /\ \E u \in Claimed(email, password) :
            /\ answer = Answer("ok", IssueToken(u), u.id)
            /\ proved' = [proved EXCEPT ![u.id] = now]
       /\ UNCHANGED <<users, created, now, dbFaults, removals, welcomed>>
    \/ /\ ValidCredentials(email, password)
       /\ DBFault
       /\ answer = Answer("internal", None, None)
       /\ UNCHANGED <<users, created, now, removals, welcomed, proved>>

\* RequireAuth, then UserByID of the subject.
Me(token, answer) ==
    \/ /\ ~ParseToken(token) \/ \A u \in users : u.id # token.sub
       /\ answer = Answer("unauthorized", None, None)
       /\ UNCHANGED accountVars
    \/ /\ ParseToken(token)
       /\ \E u \in users : u.id = token.sub /\ answer = Answer("ok", None, u.id)
       /\ UNCHANGED accountVars
    \/ /\ ParseToken(token)
       /\ DBFault
       /\ answer = Answer("internal", None, None)
       /\ UNCHANGED <<users, created, now, removals, welcomed, proved>>

\* Any other route behind RequireAuth: the middleware does not look for the account.
Protected(token, answer) ==
    /\ answer = Answer(IF ParseToken(token) THEN "ok" ELSE "unauthorized", None, None)
    /\ UNCHANGED accountVars

Tick ==
    /\ now < MaxNow /\ now' = now + 1
    /\ UNCHANGED <<users, created, dbFaults, removals, welcomed, proved>>

\* Nothing in the program removes an account; an operator may.
Remove(u) ==
    /\ removals < MaxRemovals /\ removals' = removals + 1
    /\ users' = users \ {u}
    /\ welcomed' = welcomed \ {u}
    /\ UNCHANGED <<created, now, dbFaults, proved>>

Elapse == Tick \/ \E u \in users : Remove(u)

-----------------------------------------------------------------------------
(* Properties                                                              *)

AccountsTypeOK ==
    /\ users \subseteq User /\ created \in 0 .. MaxAccounts
    /\ now \in 0 .. MaxNow /\ dbFaults \in 0 .. MaxDBFaults /\ removals \in 0 .. MaxRemovals
    /\ welcomed \subseteq User
    /\ proved \in [IDs -> 0 .. MaxNow]

\* services/auth.go:62: one address has one account, whatever its spelling and however
\* many people sign up with it at once.  Whoever was told that the account exists can sign
\* in to it, and to no other one, with any spelling of the address and no other password.
OneAccountPerAddress ==
    /\ \A u, v \in users : u.email.address = v.email.address => u = v
    /\ \A u \in welcomed, s \in Spellings :
         LET email == [u.email EXCEPT !.spelling = s]
         IN /\ ValidCredentials(email, u.password)
            /\ \A p \in Passwords : Claimed(email, p) = IF p = u.password THEN {u} ELSE {}
=============================================================================
