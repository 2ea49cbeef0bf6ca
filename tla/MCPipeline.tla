---------------------------- MODULE MCPipeline ----------------------------
(***************************************************************************)
(* A small instance of Pipeline for TLC: two accounts that write posts and *)
(* one with another role.                                                  *)
(***************************************************************************)
EXTENDS PipelineProps

CONSTANTS u1, u2, k1, p1, nobody, nokey, badkey, noid

MCAuthorOf == p1 :> u1
MCRoleOf   == (u1 :> "USER") @@ (u2 :> "ADMIN")

\* A bookmark from an earlier response.
MCOldIds == {Id("post", p1, "old")}
Fresh(kind, value) == {Id(kind, value, r) : r \in Requests}

Send(u, route, id, k) ==
  [route |-> route, id |-> id, key |-> k, access |-> u, refresh |-> u,
   bodyOk |-> TRUE]

\* Reads that show ids, writes with one key on two resources and with every way
\* round it, and tokens of two accounts in one request.
MCSends ==
  {Send(u1, "getAllPosts", noid, k1),
   Send(u2, "createUserInfo", noid, k1),
   [Send(u1, "createUserInfo", noid, k1) EXCEPT !.access = u2],
   [Send(u1, "createPost", noid, k1) EXCEPT !.bodyOk = FALSE],
   Send(u2, "createPost", noid, k1), Send(u2, "createUserInfo", noid, badkey),
   Send(NoUser, "join", noid, k1)}
  \cup {Send(u1, "patchPost", id, k1) :
          id \in MCOldIds \cup Fresh("post", p1) \cup Fresh("user", u1)}
  \cup {Send(u1, "getPost", id, nokey) :
           id \in Fresh("post", p1) \cup {Id("post", p1, Clear)}}
  \cup {Send(u1, "getUserPosts", id, nokey) : id \in Fresh("user", u1)}

MCCalls   == {CallOf(m, u) : m \in MCSends, u \in Users \cup {NoUser}}
MCMethods == {"GET", "POST", "PATCH", "DELETE"}
MCPaths   == {<<Resource(m.route), m.id>> : m \in MCSends}

PSymmetry == Permutations(Requests)
=============================================================================
