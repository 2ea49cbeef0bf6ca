----------------------------- MODULE MCSession -----------------------------
(***************************************************************************)
(* Small instances of Session for TLC.                                     *)
(***************************************************************************)
EXTENDS SessionProps

AllOps     == Operations
AccountOps == {"join", "login", "oauth"}
TokenOps   == {"oauth", "refresh", "use"}

Symmetry == Permutations(Requests) \cup Permutations(Users) \cup Permutations(Passwords)
=============================================================================
