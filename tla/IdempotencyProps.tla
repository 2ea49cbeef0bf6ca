------------------------- MODULE IdempotencyProps --------------------------
(***************************************************************************)
(* What Idempotency is checked for.                                        *)
(***************************************************************************)
EXTENDS Idempotency

\* Every variable has its type.
TypeOK ==
  /\ pc \in [Requests -> InFlight \cup {"idle", "done", "dead"}]
  /\ call \in [Requests -> Calls \cup {NoCall}]
  /\ server \in [Requests -> Servers \cup {NoServer}]
  /\ outcome \in [Requests -> Outcomes \cup {NoOutcome}]
  /\ reply \in [Requests -> Bodies \cup {NoReply}]
  /\ redis \in [Slots -> Records \cup {NoRecord}]
  /\ up \in [Servers -> {"up", "draining", "down"}]
  /\ faults \in 0..MaxFaults
  /\ life \in [Slots -> 1..MaxLife]
  /\ born \in [Requests -> 0..MaxLife]
  /\ seen \in [Requests -> 0..MaxLife]

\* Same user, key, method and path.
SameCall(r, p) == call[r] = call[p]

Ran(r) == born[r] # 0

\* While Redis remembers a key, at most one request with it enters its handler,
\* on whatever server, whatever is retried, lost or crashes in between (DT-1 R2:
\* the SET NX is the only way to next.handle() for a request with a key).
AtMostOncePerLife ==
  \A r, p \in Requests :
    r # p /\ Ran(r) /\ born[r] = born[p] => SlotOf(r) # SlotOf(p)

\* A replay (R3) gives the client what a handler run of the same user, with the
\* same key, method and path answered or was about to answer, never another
\* user's or another endpoint's body: same code, from that very run.
ReplayHasARun ==
  \A p \in Requests : seen[p] # 0 =>
    \E r \in Requests :
      /\ Ran(r) /\ SameCall(r, p) /\ outcome[r] # NoOutcome
      /\ reply[p].run = {r}
      /\ reply[p].code = LiveBody(outcome[r], r).code

\* The same, and the run is the one of that life of the key: all the answers
\* given for a key before it expires agree, however the requests interleave
\* (docs/implementation/flows/idempotency-key-handle.md 3.3, "the same key gives
\* the same result").
ReplaysTheRunOfItsLife ==
  \A p \in Requests : seen[p] # 0 =>
    \E r \in Requests :
      /\ born[r] = seen[p] /\ SameCall(r, p) /\ outcome[r] # NoOutcome
      /\ reply[p].run = {r}
      /\ reply[p].code = LiveBody(outcome[r], r).code

\* Once the client has its answer, a retry finds it: the answer is stored before
\* it is sent, and stays until it expires.  Only a Redis failure breaks this.
AnsweredIsStored ==
  \A r \in Requests :
    /\ faults = 0 /\ pc[r] = "done" /\ Ran(r) /\ born[r] = life[SlotOf(r)]
    => /\ redis[SlotOf(r)] = Completed(r)

\* Without a failure no key stays locked by nobody: a pending record has a
\* request that is still on its way to replace it, even when its handler throws.
PendingIsOwned ==
  faults = 0 =>
    \A k \in Slots : redis[k] # NoRecord /\ redis[k].state = "pending" =>
      \E r \in Requests : HoldsLock(r, k)

\* absent -> pending -> completed -> absent: a step never takes a completed
\* record back to pending or gives it another answer; it only expires
\* (idempotency.service.ts:31, and the property test's one-way transitions).
CompletedIsFinal ==
  [][\A k \in Slots :
       redis[k] # NoRecord /\ redis[k].state = "completed" =>
         redis'[k] \in {redis[k], NoRecord}]_vars

\* A request is answered, or dies with its server: no Redis failure leaves its
\* client without an answer.
EveryRequestEnds ==
  \A r \in Requests : pc[r] \in InFlight ~> pc[r] \in {"done", "dead"}

\* No lock is for ever: whatever crashed while it held it, the record goes.
LocksEnd ==
  \A k \in Slots :
    redis[k] # NoRecord /\ redis[k].state = "pending" ~>
      redis[k] = NoRecord \/ redis[k].state = "completed"

\* The refinement mapping: a slot is owned by the run born in its life until the
\* record names a run itself; the text of an answer is left out.
SlotView ==
  [k \in Slots |->
     IF redis[k] = NoRecord THEN [owner |-> {}, state |-> "free", code |-> NoReply]
     ELSE IF redis[k].state = "pending"
     THEN [owner |-> {r \in Requests : Ran(r) /\ SlotOf(r) = k /\ born[r] = life[k]},
           state |-> "open", code |-> NoReply]
     ELSE [owner |-> redis[k].answer.run, state |-> "settled",
           code |-> redis[k].answer.code]]
RanView == {r \in Requests : Ran(r) \/ outcome[r] # NoOutcome}
HeardView ==
  [r \in Requests |-> IF reply[r] = NoReply THEN NoReply
                      ELSE [code |-> reply[r].code, run |-> reply[r].run]]

Contract == INSTANCE IdempotencyContract WITH
  Codes    <- {"SUCCESS", "DOMAIN", "COMMON_INTERNAL_ERROR"}
                \cup {MapToErrorCode(s) : s \in HttpStatuses},
  Refusals <- {"COMMON_BAD_REQUEST", "COMMON_INTERNAL_ERROR",
               "IDEMPOTENCY_IN_PROGRESS"},
  slot <- SlotView, ran <- RanView, heard <- HeardView

\* Every behaviour of the interceptor, Redis and the servers is one the promise
\* allows, as long as no handler outlives its lock.
ImplementsContract == Contract!CSpec

\* A server that was asked to stop and has served its last request has left no
\* key pending: the answers of its requests were stored
\* (docs/solution/common/security.md:487).
ShutdownStoresAnswers ==
  \A s \in Servers :
    up[s] = "draining" /\ ServedBy(s) = {} /\ faults = 1 =>
      \A r \in Requests :
        server[r] = s /\ Ran(r) /\ born[r] = life[SlotOf(r)] =>
          redis[SlotOf(r)].state = "completed"
=============================================================================
