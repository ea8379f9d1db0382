---------------------------- MODULE HubBroadcast ----------------------------
(***************************************************************************)
(* Hub implements Broadcast: what joins, leaves, slow writers, the shut    *)
(* down and Redis do is a step of the broadcast or leaves it alone.        *)
(***************************************************************************)
EXTENDS Hub

\* In the room, and nobody has a reason to close the connection.
Works(c) == c \in room /\ ~closing[c] /\ pc[c] # "leaving" /\ writer[c] # "exited"

\* A client is in the audience from Join's registration until it stops being read.
PhaseOf(c) ==
    CASE pc[c] = "idle" -> "away"
      [] pc[c] \in {"subscribe", "greet", "reading"} -> IF Works(c) THEN "watching" ELSE "cut"
      [] OTHER -> "gone"

phaseBar == [c \in Clients |-> PhaseOf(c)]

Holds(s, v) == \E i \in DOMAIN s : s[i] = v

\* A browser has what it was written.
gotBar == [c \in Clients |-> {v \in Versions : v # Snapshot /\ Holds(delivered[c], v)}]

greetedBar == {c \in Clients : Holds(delivered[c], Snapshot)}

Audience == INSTANCE Broadcast WITH lost <- missed, phase <- phaseBar, got <- gotBar,
                                    greeted <- greetedBar

\* A browser receives the events since it joined, in order and each once, and none is
\* left out but those that never reached its instance, until it is cut off for being
\* slow or for the end of the instance: dispatch, Enqueue, the pumps, Join, Leave and
\* Close together keep the promise of the broadcast.
ImplementsBroadcast == Audience!Spec
=============================================================================
