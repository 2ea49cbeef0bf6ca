---------------------------- MODULE ProfileProps ----------------------------
(***************************************************************************)
(* What Profile is checked for.                                            *)
(***************************************************************************)
EXTENDS Profile

\* Every variable has its type.
TypeOK ==
  /\ pc \in [Requests -> InFlight \cup {"idle", "done", "dead"}]
  /\ call \in [Requests -> CallType \cup {NoCall}]
  /\ got \in [Requests -> Rows \cup {Absent, Empty}]
  /\ db \in [Users -> Rows \cup {Absent}]
  /\ cache \in [Users -> Rows \cup {Absent, Empty}]
  /\ reply \in [Requests -> Codes \cup {NoReply}]
  /\ faults \in 0..MaxFaults
  /\ overlapped \subseteq Users

\* The requests for the profile of u that may have reached the table.
Reached(op, u) ==
  {r \in Requests : pc[r] = "dead" \/ reply[r] \in {"SUCCESS", "COMMON_INTERNAL_ERROR"}}
  \cap {r \in Requests : call[r] # NoCall /\ call[r].op = op /\ call[r].user = u}

Created(u) == {r \in Reached("create", u) : reply[r] = "SUCCESS"}

\* One profile per user, told by the answers: a creation that was accepted is in
\* the table until a deletion, and a second one is accepted only after a deletion,
\* though both saw no profile before.  What is in the table after a lone creation
\* is what that client sent.  And no two users share a nickname (INV-2).
ProfilesMatchAnswers ==
  /\ \A u \in Users :
       /\ Cardinality(Created(u)) <= Cardinality(Reached("delete", u)) + 1
       /\ Created(u) # {} /\ Reached("delete", u) = {} => db[u] # Absent
       /\ \A r \in Created(u) :
            Reached("delete", u) \cup Reached("patch", u) = {} =>
              db[u] = [nickname |-> call[r].nickname, text |-> r]
  /\ Unique(db)

\* That there is no profile is remembered only as long as a reader who will take
\* it back is under way: if no command failed and no server died, a profile that is
\* created is not hidden for 24 hours by a read that came before it.
AbsenceIsTransient ==
  faults = 0 =>
    \A u \in Users : cache[u] = Absent =>
      \E r \in Requests : pc[r] = "drop" /\ Uid(r) = u

\* As long as no two requests for a user's profile overlap, a read shows the row as
\* it is, whatever failed before it; only that there is none may be a memory, of a
\* removal that failed.
ReadShowsTheRow ==
  [][\A r \in Requests :
       pc[r] \in InFlight /\ call[r].op = "read" /\ Uid(r) \notin overlapped =>
         /\ reply'[r] = "SUCCESS" => got'[r] = db[Uid(r)]
         /\ reply'[r] = "USER_INFO_NOT_FOUND" => db[Uid(r)] = Absent \/ faults > 0]_vars
=============================================================================
