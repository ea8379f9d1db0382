--------------------------- MODULE MCAuthSession ---------------------------
(***************************************************************************)
(* Symmetry for TLC.                                                       *)
(***************************************************************************)
EXTENDS AuthSession, TLC

Symmetry == Permutations(Tabs) \cup Permutations(Addresses) \cup Permutations(Passwords)
=============================================================================
