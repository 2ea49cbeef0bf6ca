------------------------------- MODULE MCBlog -------------------------------
(***************************************************************************)
(* Small instances of Blog for TLC.                                        *)
(***************************************************************************)
EXTENDS BlogProps

WriteOps == Operations \ {"list"}
PageOps  == {"create", "patch", "delete", "list"}

RequestSymmetry == Permutations(Requests)   \* where Nameless tells users apart
Symmetry == RequestSymmetry \cup Permutations(Users)
=============================================================================
