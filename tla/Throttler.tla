----------------------------- MODULE Throttler -----------------------------
(***************************************************************************)
(* Rate limiting of one endpoint: src/src/throttler and the order of the   *)
(* global guards in src/src/app.module.ts.                                 *)
(*                                                                         *)
(* The increment script runs in Redis as one step, for all the servers.    *)
(* Time is Redis' millisecond clock.  A key lives through the millisecond  *)
(* it expires in: PTTL is then 0 and INCR still finds the value.           *)
(***************************************************************************)
EXTENDS Integers, FiniteSets

CONSTANTS
  Callers,       \* clients, as [uid, ip, claims]: the user AuthGuard verified (none on
                 \* a public route), their address, the authenticatedUser header they
                 \* send if any
  NoUser,        \* no user
  Ttl, Limit,    \* THROTTLE_DEFAULT_TTL and THROTTLE_DEFAULT_LIMIT
  Second,        \* milliseconds in a second of the headers
  MaxTime,       \* bound: the clock
  MaxRequests,   \* bound: requests, and runs of the script whose answer is lost
  NoKey, NoAnswer  \* model values

ASSUME LimitsAssumption ==
  Ttl \in Nat \ {0} /\ Limit \in Nat \ {0} /\ Second \in Nat \ {0}
ASSUME BoundsAssumption == MaxTime \in Nat /\ MaxRequests \in Nat

Counters == [hits : Nat \ {0}, end : Nat]
Answers  == [blocked : BOOLEAN, remaining : 0..Limit, until : Nat]

ASSUME ModelValuesAssumption ==
  NoKey \notin Nat /\ NoKey \notin Counters /\ NoAnswer \notin Answers

BlockDuration == Ttl   \* the guard's default when a throttler has none

VARIABLES
  now,       \* the clock
  counter,   \* the counter key of each tracker: [hits, end], or NoKey
  block,     \* the block key of each tracker: its end, or NoKey
  answer,    \* the last answer of each tracker
  requests,  \* runs of the script so far
  passed     \* history: the requests the script let through in the last Ttl ms

vars == <<now, counter, block, answer, requests, passed>>

\* AuthGuard, which runs first, drops the header a client sends and sets its own.
TrackerForged(c) ==   \* mutant: the client's header survives
  IF c.uid # NoUser THEN <<"user", c.uid>>
  ELSE IF c.claims # NoUser THEN <<"user", c.claims>> ELSE <<"ip", c.ip>>
Tracker(c) ==
  IF c.uid # NoUser THEN <<"user", c.uid>> ELSE <<"ip", c.ip>>
Trackers == {Tracker(c) : c \in Callers}

Time == 0..MaxTime

Init ==
  /\ now = 0
  /\ counter = [k \in Trackers |-> NoKey]
  /\ block   = [k \in Trackers |-> NoKey]
  /\ answer  = [k \in Trackers |-> NoAnswer]
  /\ requests = 0
  /\ passed = {}

-----------------------------------------------------------------------------
\* The script.

Blocked(k) == block[k] # NoKey /\ block[k] > now
Running(k) == counter[k] # NoKey /\ counter[k].end > now   \* PTTL is positive

Hits(k) == 1 + IF counter[k] # NoKey THEN counter[k].hits ELSE 0
End(k)  == IF Running(k) THEN counter[k].end ELSE now + Ttl
Count(k) == counter' = [counter EXCEPT ![k] = [hits |-> Hits(k), end |-> End(k)]]
OverLimitLate(k) == Hits(k) > Limit + 1   \* mutant: one more
OverLimitAtLimit(k) == Hits(k) >= Limit   \* mutant: the last request of the limit
OverLimit(k) == Hits(k) > Limit

\* Mutant: the hit is counted before the block is looked at.
EvalCountsFirst(k) ==
  /\ Count(k)
  /\ block' = IF ~Blocked(k) /\ OverLimit(k)
              THEN [block EXCEPT ![k] = now + BlockDuration] ELSE block

Eval(k) ==
  \/ Blocked(k) /\ UNCHANGED <<counter, block>>
  \/ /\ ~Blocked(k)
     /\ Count(k)
     /\ block' = IF OverLimit(k) THEN [block EXCEPT ![k] = now + BlockDuration] ELSE block

\* msToSeconds, as the instant a client is told.
FromNow(ms) == now + ((ms + Second - 1) \div Second) * Second

\* The guard's headers: Retry-After if blocked, else X-RateLimit-Remaining and -Reset.
Refusal(ms)      == [blocked |-> TRUE, remaining |-> 0, until |-> FromNow(ms)]
Permission(n, ms) == [blocked |-> FALSE, remaining |-> n, until |-> FromNow(ms)]

Reply(k) ==
  IF Blocked(k) THEN Refusal(block[k] - now)
  ELSE IF OverLimit(k) THEN Refusal(BlockDuration)
  ELSE Permission(Limit - Hits(k), End(k) - now)

-----------------------------------------------------------------------------
Pass(c) == [caller |-> c, at |-> now, nr |-> requests]

Run(c) ==
  LET k == Tracker(c) IN
  /\ requests < MaxRequests
  /\ requests' = requests + 1
  /\ Eval(k)
  /\ passed' = IF Reply(k).blocked THEN passed ELSE passed \cup {Pass(c)}
  /\ UNCHANGED now

Request(c) ==
  Run(c) /\ answer' = [answer EXCEPT ![Tracker(c)] = Reply(Tracker(c))]

\* The script ran and its answer is lost: the client is told COMMON_INTERNAL_ERROR,
\* or ioredis sends the script again, which is another Request.  A script that did
\* not run changes nothing.
LoseAnswer(c) ==
  Run(c) /\ answer' = [answer EXCEPT ![Tracker(c)] = NoAnswer]

\* A millisecond passes, and Redis drops the keys whose end it is past.
Tick ==
  /\ now < MaxTime
  /\ now' = now + 1
  /\ counter' = [k \in Trackers |->
       IF counter[k] # NoKey /\ counter[k].end = now THEN NoKey ELSE counter[k]]
  /\ block' = [k \in Trackers |-> IF block[k] = now THEN NoKey ELSE block[k]]
  /\ passed' = {p \in passed : p.at >= now' - Ttl}
  /\ UNCHANGED <<answer, requests>>

Next == Tick \/ \E c \in Callers : Request(c) \/ LoseAnswer(c)

Spec == Init /\ [][Next]_vars
=============================================================================
