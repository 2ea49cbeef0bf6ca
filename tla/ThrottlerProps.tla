--------------------------- MODULE ThrottlerProps ---------------------------
(***************************************************************************)
(* What Throttler is checked for.                                          *)
(***************************************************************************)
EXTENDS Throttler

\* Every variable has its type.
TypeOK ==
  /\ now \in Time
  /\ counter \in [Trackers -> Counters \cup {NoKey}]
  /\ block \in [Trackers -> Nat \cup {NoKey}]
  /\ answer \in [Trackers -> Answers \cup {NoAnswer}]
  /\ requests \in 0..MaxRequests
  /\ passed \subseteq [caller : Callers, at : Time, nr : 0..MaxRequests]

\* The callers the limit is meant to count together: one user wherever it comes
\* from, or all the anonymous clients of an address (security.md, section 5.2).
SameClient(c) ==
  {d \in Callers : d.uid = c.uid /\ (c.uid = NoUser => d.ip = c.ip)}

Passed(C) == Cardinality({p \in passed : p.caller \in C})

\* A client gets at most 2*Limit - 1 requests through in any Ttl milliseconds, both
\* ends included: two windows may meet in it, but not with the first request of
\* the earlier one (the burst of redis-throttler.storage.ts:22).
BurstBound ==
  \A c \in Callers : Passed(SameClient(c)) <= 2 * Limit - 1

\* X-RateLimit-Remaining and X-RateLimit-Reset are kept: the next request of the
\* tracker is let through and takes at most one of the remaining ones, and all of
\* them are back after the reset.
HeadersAreKept ==
  [][\A c \in Callers :
       LET said == answer[Tracker(c)]
           says == answer'[Tracker(c)]
       IN  Request(c) /\ said # NoAnswer /\ ~said.blocked =>
             /\ said.remaining > 0 => ~says.blocked /\ says.remaining >= said.remaining - 1
             /\ now > said.until => says.remaining = Limit - 1]_vars

\* Who waits for Retry-After is let through: a refusal is never followed by one
\* after the time it names, although the counter key expires on its own.
RetryAfterIsEnough ==
  [][\A c \in Callers :
       LET said == answer[Tracker(c)]
       IN  Request(c) /\ said # NoAnswer /\ said.blocked /\ now > said.until
           => ~answer'[Tracker(c)].blocked]_vars
=============================================================================
