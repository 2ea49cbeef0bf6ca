----------------------------- MODULE MCProfile ------------------------------
(***************************************************************************)
(* Small instances of Profile for TLC.                                     *)
(***************************************************************************)
EXTENDS ProfileProps

Symmetry == Permutations(Requests) \cup Permutations(Users) \cup Permutations(Nicknames)
=============================================================================
