---------------------------- MODULE AuthSession ----------------------------
(***************************************************************************)
(* Sessions in a browser: the AuthProvider of each tab (AuthContext.jsx),  *)
(* the token the API client keeps (api/client.js), the token in            *)
(* localStorage that all tabs share, and the login and signup forms, with  *)
(* the server of Accounts behind them.                                     *)
(*                                                                         *)
(* A tab has up to three requests in flight: the check of a stored token   *)
(* when the page loads, a form, and a call of a protected page.  Answers   *)
(* come in any order, late, or not at all.                                 *)
(***************************************************************************)
EXTENDS Accounts

CONSTANTS
    Tabs,
    Blocked,       \* localStorage throws: private mode, blocked site data
    MaxRequests,   \* bound on requests sent by all tabs
    MaxReloads,
    MaxLost        \* bound on requests and answers that get lost

\* null, and a localStorage that throws, are no tokens and no IDs.
ASSUME MarkersAssumption ==
    /\ None \notin Token \cup IDs
    /\ Blocked \notin Token \cup {None}
ASSUME SessionBounds == MaxRequests \in Nat /\ MaxReloads \in Nat /\ MaxLost \in Nat

VARIABLES
    stored,    \* localStorage: a token, None, or Blocked
    tab,       \* of each tab: accessToken, status and user
    calls,     \* the requests in flight of each tab
    sent, reloads, lost,
    overtaken  \* history: tabs where a form was answered before the check on loading

tabVars == <<stored, tab, calls, sent, reloads, lost, overtaken>>
vars == <<accountVars, tabVars>>

Kinds == {"boot", "form", "page"}

NoCall == [phase |-> "none"]

Credentials == [op : {"login", "signup"}, email : Emails, password : Passwords \cup NotPasswords]

\* What a call sends: what it asks for, and the token it carries.
Call(op, token) == [phase |-> "sent", op |-> op, token |-> token]

FormCall(c, token) == [phase |-> "sent", op |-> c.op, token |-> token,
                       email |-> c.email, password |-> c.password]

NewTab == [token |-> None, status |-> "anonymous", user |-> None]

SessionInit ==
    /\ stored \in {None, Blocked}
    /\ tab = [t \in Tabs |-> NewTab]
    /\ calls = [t \in Tabs |-> [k \in Kinds |-> NoCall]]
    /\ sent = 0 /\ reloads = 0 /\ lost = 0
    /\ overtaken = {}

Init == AccountsInit /\ SessionInit

-----------------------------------------------------------------------------
(* AuthContext                                                             *)

ReadStoredToken == IF stored = Blocked THEN None ELSE stored

WriteStoredToken(token) == stored' = IF stored = Blocked THEN Blocked ELSE token

\* A deviation: localStorage is not cleared.
SignOutKeepsStorage(t) == tab' = [tab EXCEPT ![t] = NewTab] /\ UNCHANGED stored

\* signOut
SignOut(t) == tab' = [tab EXCEPT ![t] = NewTab] /\ WriteStoredToken(None)

\* applySession
ApplySession(t, answer) ==
    /\ tab' = [tab EXCEPT ![t] =
          [token |-> answer.token, status |-> "authenticated", user |-> answer.user]]
    /\ WriteStoredToken(answer.token)

-----------------------------------------------------------------------------
(* What the tab does                                                       *)

Send(t, k, call) ==
    /\ calls[t][k] = NoCall
    /\ sent < MaxRequests /\ sent' = sent + 1
    /\ calls' = [calls EXCEPT ![t][k] = call]

\* The page loads: a stored token is checked before anyone counts as signed in.
\* Answers to the calls of the page before are not heard.
Load(t) ==
    /\ reloads < MaxReloads /\ reloads' = reloads + 1
    /\ LET token == ReadStoredToken
           fresh == [k \in Kinds |-> NoCall]
       IN IF token = None
          THEN /\ tab' = [tab EXCEPT ![t] = NewTab]
               /\ calls' = [calls EXCEPT ![t] = fresh]
          ELSE /\ tab' = [tab EXCEPT ![t] = [NewTab EXCEPT !.token = token, !.status = "loading"]]
               /\ calls' = [calls EXCEPT ![t] = [fresh EXCEPT !["boot"] = Call("me", token)]]
    /\ overtaken' = overtaken \ {t}
    /\ UNCHANGED <<stored, sent, lost>>

\* LoginPage and SignupPage are open in every state of the session.
Submit(t, c) ==
    /\ Send(t, "form", FormCall(c, tab[t].token))
    /\ UNCHANGED <<stored, tab, reloads, lost, overtaken>>

\* A page behind ProtectedRoute asks for something.
CallPage(t) ==
    /\ tab[t].status = "authenticated"
    /\ Send(t, "page", Call("api", tab[t].token))
    /\ UNCHANGED <<stored, tab, reloads, lost, overtaken>>

\* The button in the header.
ClickSignOut(t) ==
    /\ tab[t].status = "authenticated"
    /\ SignOut(t)
    /\ UNCHANGED <<calls, sent, reloads, lost, overtaken>>

-----------------------------------------------------------------------------
(* The server                                                              *)

Handle(t, k) ==
    /\ calls[t][k].phase = "sent"
    /\ LET c == calls[t][k]
       IN \E answer \in Answers :
            /\ \/ c.op = "signup" /\ Signup(c.email, c.password, answer)
               \/ c.op = "login" /\ Login(c.email, c.password, answer)
               \/ c.op = "me" /\ Me(c.token, answer)
               \/ c.op = "api" /\ Protected(c.token, answer)
            /\ calls' = [calls EXCEPT ![t][k] =
                  [phase |-> "answered", op |-> c.op, token |-> c.token, answer |-> answer]]
    /\ UNCHANGED <<stored, tab, sent, reloads, lost, overtaken>>

-----------------------------------------------------------------------------
(* The answer                                                              *)

Over(t, k) ==
    /\ calls' = [calls EXCEPT ![t][k] = NoCall]
    /\ UNCHANGED <<sent, reloads>>

\* request: a 401 to a call that carried a token signs out, whatever token that was.
Denied(call) == call.answer.status = "unauthorized" /\ call.token # None

\* The .then of the check.
BootOK(t, k) ==
    /\ k = "boot" /\ calls[t][k].answer.status = "ok"
    /\ tab' = [tab EXCEPT ![t].user = calls[t][k].answer.user, ![t].status = "authenticated"]
    /\ UNCHANGED stored

FormOK(t, k) ==
    /\ k = "form" /\ calls[t][k].answer.status = "ok"
    /\ ApplySession(t, calls[t][k].answer)

\* A deviation: only a 401 ends the check.
NotOKUnlessDenied(t, k) ==
    /\ k = "page" \/ calls[t][k].answer.status # "ok"
    /\ IF Denied(calls[t][k]) THEN SignOut(t) ELSE UNCHANGED <<stored, tab>>

\* The .catch of the check signs out whatever went wrong; any other failure is shown.
NotOK(t, k) ==
    /\ k = "page" \/ calls[t][k].answer.status # "ok"
    /\ IF k = "boot" \/ Denied(calls[t][k]) THEN SignOut(t) ELSE UNCHANGED <<stored, tab>>

Deliver(t, k) ==
    /\ calls[t][k].phase = "answered"
    /\ BootOK(t, k) \/ FormOK(t, k) \/ NotOK(t, k)
    /\ overtaken' = IF k = "form" /\ calls[t]["boot"] # NoCall THEN overtaken \cup {t} ELSE overtaken
    /\ Over(t, k)
    /\ UNCHANGED lost

\* fetch rejects: the request or its answer was lost.
Lose(t, k) ==
    /\ calls[t][k] # NoCall
    /\ lost < MaxLost /\ lost' = lost + 1
    /\ IF k = "boot" THEN SignOut(t) ELSE UNCHANGED <<stored, tab>>
    /\ Over(t, k)
    /\ UNCHANGED overtaken

Browse(t) ==
    \/ Load(t) \/ CallPage(t) \/ ClickSignOut(t)
    \/ \E c \in Credentials : Submit(t, c)
    \/ \E k \in Kinds : Deliver(t, k) \/ Lose(t, k)

Next ==
    \/ Elapse /\ UNCHANGED tabVars
    \/ \E t \in Tabs : (Browse(t) /\ UNCHANGED accountVars) \/ \E k \in Kinds : Handle(t, k)

Spec == Init /\ [][Next]_vars

-----------------------------------------------------------------------------
(* Properties                                                              *)

\* The accounts, the tabs and the storage have their types.
TypeOK ==
    /\ AccountsTypeOK
    /\ stored \in Token \cup {None, Blocked}
    /\ tab \in [Tabs -> [token  : Token \cup {None},
                        status : {"loading", "anonymous", "authenticated"},
                        user   : IDs \cup {None}]]
    /\ sent \in 0 .. MaxRequests /\ reloads \in 0 .. MaxReloads /\ lost \in 0 .. MaxLost
    /\ overtaken \subseteq Tabs

\* Once every tab is signed out, nothing is left in storage for a reload to sign in with.
SignedOutStaysSignedOut ==
    (\A t \in Tabs : tab[t].status = "anonymous") => stored \in {None, Blocked}

\* What a tab shows is what its calls do.  A signed-in tab shows the account that its
\* calls act for, unless a form was answered before the check of the token that was
\* stored when the page loaded; a tab that says that nobody is signed in sends no token,
\* so that nothing in it acts for whoever was there before; and a tab that does not know
\* yet is waiting for the check, and not for ever.
TabsShowTheirSession ==
    /\ TypeOK
    /\ \A t \in Tabs :
         CASE tab[t].status = "authenticated" ->
                t \notin overtaken => tab[t].token # None /\ tab[t].user = tab[t].token.sub
           [] tab[t].status = "anonymous" -> tab[t].token = None /\ tab[t].user = None
           [] tab[t].status = "loading" ->
                calls[t]["boot"] # NoCall /\ calls[t]["boot"].token = tab[t].token

\* No call succeeds once the password of its account was last given a TTL ago: nothing
\* but the password prolongs a session.
SessionsExpire ==
    [][\A t \in Tabs, k \in {"boot", "page"} :
         /\ calls[t][k].phase = "sent" /\ calls'[t][k].phase = "answered"
         /\ calls'[t][k].answer.status = "ok"
         => now < proved[calls[t][k].token.sub] + TokenTTL]_vars

\* client.js:115-117: a 401 from the login form "just means the password was wrong",
\* and leaves the session as it is.
WrongPasswordKeepsTheSession ==
    [][\A t \in Tabs :
         /\ calls[t]["form"].phase = "answered"
         /\ calls[t]["form"].op = "login" /\ calls[t]["form"].answer.status = "unauthorized"
         /\ calls'[t]["form"] = NoCall /\ UNCHANGED reloads
         => UNCHANGED <<tab[t], stored>>]_vars

\* client.js:53-55: no tab looks signed in while its calls are refused.
SignedInTabsHaveAToken ==
    \A t \in Tabs : tab[t].status = "authenticated" => tab[t].token # None
=============================================================================
