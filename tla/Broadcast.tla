----------------------------- MODULE Broadcast -----------------------------
(***************************************************************************)
(* What the live feed of a poll promises to a browser, without saying how: *)
(* from the moment it joined it receives every event, in order and each    *)
(* once, but those that were lost on the way to its instance; when the     *)
(* instance cannot keep that up it is cut off, and whatever still reaches  *)
(* it is never older than what it has.  It gets the results as they were   *)
(* when it connected at most once.  There are no rooms, subscriptions,     *)
(* buffers or goroutines here; HubBroadcast shows that Hub implements it.  *)
(***************************************************************************)
EXTENDS Naturals

CONSTANTS Clients

VARIABLES
    version,    \* of the tally: how many events were published
    lost,       \* the events that never reach the instance
    phase,      \* of a client: "away", "watching", "cut" or "gone"
    since,      \* the event a client joined after
    got,        \* the events a client has received
    greeted     \* the clients that have received the results they were connected with

vars == <<version, lost, phase, since, got, greeted>>

Init ==
    /\ version = 0 /\ lost = {}
    /\ phase = [c \in Clients |-> "away"]
    /\ since = [c \in Clients |-> 0]
    /\ got = [c \in Clients |-> {}]
    /\ greeted = {}

Publish ==
    /\ version' = version + 1
    /\ lost' \in {lost, lost \cup {version'}}
    /\ UNCHANGED <<phase, since, got, greeted>>

\* The instance may be a few events behind.
Join(c) ==
    /\ phase[c] = "away"
    /\ phase' = [phase EXCEPT ![c] = "watching"]
    /\ \E n \in 0 .. version : since' = [since EXCEPT ![c] = n]
    /\ UNCHANGED <<version, lost, got, greeted>>

Greet(c) ==
    /\ phase[c] \in {"watching", "cut"} /\ c \notin greeted
    /\ greeted' = greeted \cup {c}
    /\ UNCHANGED <<version, lost, phase, since, got>>

\* The next event that was not lost; to a client that was cut off, any newer one.
Receive(c, v) ==
    /\ phase[c] \in {"watching", "cut"}
    /\ v \in since[c] + 1 .. version
    /\ \A u \in got[c] : u < v
    /\ phase[c] = "watching" => since[c] + 1 .. v - 1 \subseteq got[c] \cup lost
    /\ got' = [got EXCEPT ![c] = @ \cup {v}]
    /\ UNCHANGED <<version, lost, phase, since, greeted>>

\* A client is too slow, or all of them go with their instance.
CutOff(C) ==
    /\ C # {} /\ \A c \in C : phase[c] = "watching"
    /\ phase' = [c \in Clients |-> IF c \in C THEN "cut" ELSE phase[c]]
    /\ UNCHANGED <<version, lost, since, got, greeted>>

Leave(c) ==
    /\ phase[c] \in {"watching", "cut"}
    /\ phase' = [phase EXCEPT ![c] = "gone"]
    /\ got' = [got EXCEPT ![c] = {}]
    /\ greeted' = greeted \ {c}
    /\ UNCHANGED <<version, lost, since>>

Next ==
    \/ Publish
    \/ \E c \in Clients : \/ Join(c) \/ Greet(c) \/ Leave(c)
                          \/ \E v \in 1 .. version : Receive(c, v)
    \/ \E C \in SUBSET Clients : CutOff(C)

Spec == Init /\ [][Next]_vars
=============================================================================
