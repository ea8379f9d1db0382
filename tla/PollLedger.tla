---------------------------- MODULE PollLedger -----------------------------
(***************************************************************************)
(* What a poll promises, without saying how: ballots are recorded once per *)
(* voter, by requests admitted while the poll was open; the total is always *)
(* the tally of ballots that are recorded; an acknowledgement is only given *)
(* for a recorded ballot.  There are no stores, no caches, no calls and no  *)
(* failures here; PollServiceLedger shows that PollService implements it.  *)
(***************************************************************************)
EXTENDS Naturals, FiniteSets

CONSTANTS Requests, Voters, Options, Multiple

Ballots == SUBSET Options

Ballot == [id : Requests, voter : Voters, ballot : Ballots]

VARIABLES
    phase,      \* "open", "closed" or "gone"
    admitted,   \* the requests that may still record a ballot
    recorded,   \* the ballots recorded
    counted,    \* the recorded ballots the total shows
    total,      \* the tally
    acked       \* the requests told that their ballot counts

vars == <<phase, admitted, recorded, counted, total, acked>>

TallyOf(D) ==
    [ counts  |-> [o \in Options |-> Cardinality({d \in D : o \in d.ballot})],
      ballots |-> Cardinality(D) ]

Legal(ballot) == ballot # {} /\ (Multiple \/ Cardinality(ballot) = 1)

Init ==
    /\ phase = "open"
    /\ admitted = {} /\ recorded = {} /\ counted = {} /\ acked = {}
    /\ total = TallyOf({})

Admit(r) ==
    /\ phase = "open"
    /\ r \notin admitted
    /\ \A b \in recorded : b.id # r
    /\ admitted' = admitted \cup {r}
    /\ UNCHANGED <<phase, recorded, counted, total, acked>>

\* Turned away, or lost, without a trace.
Withdraw(r) ==
    /\ r \in admitted
    /\ admitted' = admitted \ {r}
    /\ UNCHANGED <<phase, recorded, counted, total, acked>>

Record(b) ==
    /\ b.id \in admitted
    /\ Legal(b.ballot)
    /\ \A c \in recorded : c.voter # b.voter
    /\ recorded' = recorded \cup {b}
    /\ admitted' = admitted \ {b.id}
    /\ UNCHANGED <<phase, counted, total, acked>>

Count(b) ==
    /\ phase # "gone"
    /\ b \in recorded \ counted
    /\ counted' = counted \cup {b}
    /\ total' = TallyOf(counted')
    /\ UNCHANGED <<phase, admitted, recorded, acked>>

Acknowledge(b) ==
    /\ b \in recorded
    /\ b.id \notin acked
    /\ acked' = acked \cup {b.id}
    /\ UNCHANGED <<phase, admitted, recorded, counted, total>>

Close ==
    /\ phase = "open"
    /\ phase' = "closed"
    /\ UNCHANGED <<admitted, recorded, counted, total, acked>>

\* The tally goes with the poll; the ballots stay.
Delete ==
    /\ phase # "gone"
    /\ phase' = "gone"
    /\ total' = TallyOf({})
    /\ UNCHANGED <<admitted, recorded, counted, acked>>

Next ==
    \/ \E r \in Requests : Admit(r) \/ Withdraw(r)
    \/ \E b \in Ballot : Record(b) \/ Count(b) \/ Acknowledge(b)
    \/ Close
    \/ Delete

Spec == Init /\ [][Next]_vars
=============================================================================
