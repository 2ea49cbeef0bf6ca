--------------------------- MODULE MCIdempotency ---------------------------
(***************************************************************************)
(* Small instances of Idempotency for TLC.                                 *)
(***************************************************************************)
EXTENDS IdempotencyProps

CONSTANTS u1, k1

Post(u, k, p) ==
  [user |-> u, key |-> k, method |-> "POST", path |-> p, skip |-> FALSE]

\* One key, two endpoints: the contended slot.
OneKey == {Post(u1, k1, "/posts"), Post(u1, k1, "/users/info")}

\* With a safe method beside it, one without a key and one with a bad key.
AllWays == OneKey \cup {[Post(u1, k1, "/posts") EXCEPT !.method = "GET"],
                        Post(u1, NoKey, "/posts"), Post(u1, BadKey, "/posts")}

MCMethods == {"GET", "POST"}
MCPaths   == {"/posts", "/users/info"}

Symmetry == Permutations(Requests) \cup Permutations(Servers)
=============================================================================
