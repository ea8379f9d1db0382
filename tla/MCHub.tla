------------------------------- MODULE MCHub -------------------------------
(***************************************************************************)
(* Instances of Hub for TLC.  The safety runs take the connections, which  *)
(* are interchangeable, up to symmetry; a run with fairness does not.          *)
(***************************************************************************)
EXTENDS HubBroadcast, TLC

Symmetry == Permutations(Clients)
=============================================================================
