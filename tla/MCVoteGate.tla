----------------------------- MODULE MCVoteGate -----------------------------
(***************************************************************************)
(* Symmetry for TLC.                                                       *)
(***************************************************************************)
EXTENDS VoteGate, TLC

Symmetry == Permutations(Requests) \cup Permutations(Browsers)
=============================================================================
