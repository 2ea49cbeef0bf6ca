--------------------------- MODULE SessionProps ----------------------------
(***************************************************************************)
(* What Session is checked for.                                            *)
(***************************************************************************)
EXTENDS Session

\* Every variable has its type.
TypeOK ==
  /\ pc \in [Requests -> InFlight \cup {"idle", "done", "dead"}]
  /\ call \in [Requests -> CallType \cup {NoCall}]
  /\ uid \in [Requests -> Users \cup {NoUser}]
  /\ phase \in [Requests -> {"access", "refresh"}]
  /\ got \in [Requests -> Requests \cup {NoToken}]
  /\ db \in [Users -> Rows \cup {NoRow}]
  /\ cache \in [Users -> Requests \cup {NoToken, Empty}]
  /\ reply \in [Requests -> Replies \cup {NoReply}]
  /\ faults \in 0..MaxFaults
  /\ current \in [Requests -> BOOLEAN]
  /\ stored \subseteq Requests

\* The account is the one of the client that was told it joined: whoever else
\* joined or came through Google at the same time, the row has that client's
\* password and keeps it (INV-1, one account per uid; INV-12, a Google login
\* leaves an account alone).
JoinedAccountIsMine ==
  \A r \in Requests :
    reply[r] = "TOKENS" /\ call[r].op = "join" =>
      db[call[r].user] # NoRow /\ db[call[r].user].password = call[r].password

\* The cache never knows more than the database: an entry is a refresh token
\* that has been in the row of that very user, so a rotation that failed is not
\* accepted from the cache.
CacheHoldsOnlyStored ==
  \A u \in Users : cache[u] \in Requests =>
    cache[u] \in stored /\ uid[cache[u]] = u

\* When nothing failed and no request of a user is under way, some client holds
\* the token in the row: two rotations at once do not lock everybody out.
SomebodyHoldsTheSession ==
  faults = 0 => \A u \in Users :
    /\ db[u] # NoRow
    /\ \A r \in Requests : pc[r] \in InFlight => uid[r] # u
    => db[u].refreshToken \in Delivered

\* If the requests of a user do not overlap, an entry is the row, whatever fails
\* in the middle: removing it before the UPDATE is enough.
CacheIsCurrent ==
  \A u \in Users : cache[u] # Empty => db[u] # NoRow /\ cache[u] = db[u].refreshToken

\* Accepted: passed by the guard, or rotated by refresh.
Accepted(r) ==
  \/ reply[r] = "PASS"
  \/ call[r] # NoCall /\ call[r].op = "refresh" /\ pc[r] \in {"remove", "update", "respond"}
  \/ call[r] # NoCall /\ call[r].op = "refresh" /\ reply[r] = "TOKENS"

\* A replaced refresh token is dead: what is accepted was in the row when the
\* request came, and not only in the cache.  (docs/problem/use-cases.md:161, the
\* previous refresh token is void at once; INV-10, domain-spec.md:26.)
OldTokenDies == \A r \in Requests : Accepted(r) => current[r]

\* The token in the row works: nobody who presents it, with an access token, is
\* refused unless the database failed.  (docs/problem/use-cases.md:92, after the
\* answer the client can call the protected endpoints.)
NewTokenWorks ==
  faults = 0 => \A r \in Requests :
    /\ reply[r] \in {"AUTH_UNAUTHORIZED", "AUTH_INVALID_REFRESH_TOKEN"}
    /\ call[r].refresh # BadToken
    /\ call[r].op = "use" => call[r].access # BadToken
    => db[uid[r]].refreshToken # call[r].refresh

\* The refinement mapping: the session row is the one of the database; the cache,
\* the places in the program and the readers' copies are left out.
IssuedView == {<<t, uid[t]>> : t \in stored}

Contract == INSTANCE SessionContract WITH
  Fresh <- ~Overlap \/ ~CacheEnabled, Serial <- ~Overlap,
  asked <- call, row <- db, issued <- IssuedView, told <- reply, failures <- faults

\* Whatever overlaps, fails or crashes, every answer is one that an atomic session
\* row gives at that moment, and every new token replaces the old one by right; a
\* cache may make the comparison stale, never the row or the reason of a refusal
\* of an account (use-cases.md:61-92; INV-1, INV-10 and INV-11 together).
ImplementsSessionContract == Contract!CSpec

\* A join that failed leaves no account behind: one whose INSERT was acknowledged, and
\* which is refused at the UPDATE of its token rotation, takes the row back.  (Says
\* docs/problem/use-cases.md:61.)
FailedJoinLeavesNoAccount ==
  [][\A r \in Requests :
       /\ pc[r] = "update" /\ call[r].op = "join"
       /\ pc'[r] = "done" /\ reply'[r] # "TOKENS"
       => db'[uid[r]] = NoRow]_vars
=============================================================================
