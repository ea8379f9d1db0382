--------------------------- MODULE MCPollCreation ---------------------------
(***************************************************************************)
(* The texts and the hand-made requests of the runs of PollCreation, and   *)
(* the symmetry of the slugs.                                              *)
(***************************************************************************)
EXTENDS PollCreation

CONSTANTS Yes, No

Symmetry == Permutations(Slugs)

Plain(w) == [word |-> w, spelling |-> "plain"]
Upper(w) == [word |-> w, spelling |-> "upper"]
Spaced(w) == [word |-> w, spelling |-> "spaced"]
NextLine(w) == [word |-> w, spelling |-> "nextline"]
Marked(w) == [word |-> w, spelling |-> "marked"]
Dotted(w) == [word |-> w, spelling |-> "dotted"]
Final(w) == [word |-> w, spelling |-> "final"]

TwoWords == {Yes, No}

Typed == {Upper(Yes), Dotted(Yes), Final(No), NextLine(Blank), Plain(Control)}

Asked == {Plain(Yes), NextLine(Short)}

In(q, opts, m, after) == [question |-> q, options |-> opts, mode |-> m, after |-> after]

Fine == <<Plain(Yes), Spaced(No)>>

\* A good request, and requests that the form would not send.
HandMade ==
    { In(Plain(Yes), Fine, "multiple", 1), In(Plain(Yes), Fine, "", MaxDuration),
      In(Plain(Short), Fine, "single", None), In(Plain(Yes), Fine, "other", None),
      In(Plain(Yes), Fine, "single", 0), In(Plain(Yes), Fine, "single", MaxDuration + 1),
      In(Plain(Yes), <<Plain(Yes)>>, "single", None),
      In(Plain(Yes), <<Plain(Yes), Plain(Blank)>>, "single", None),
      In(Plain(Yes), <<Plain(Yes), Plain(Long)>>, "single", None),
      In(Plain(Yes), <<Spaced(Yes), Plain(Yes)>>, "single", None),
      In(Plain(Yes), <<Plain(Yes), Upper(Yes)>>, "single", None),
      In(Marked(Short), <<Plain(Yes), Final(Yes), Marked(Blank)>>, "single", None),
      In(Plain(Yes), <<Plain(Yes), Plain(No), Plain(Short), Plain(Blank)>>, "single", None) }
=============================================================================
