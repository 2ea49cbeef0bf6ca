---------------------------- MODULE Idempotency ----------------------------
(***************************************************************************)
(* Idempotency-Key handling of write requests: the global interceptor      *)
(* (src/src/interceptor/idempotency-key.interceptor.ts), the Redis records *)
(* it keeps (src/src/idempotency/idempotency.service.ts) and the exception *)
(* filters that turn a failure into the body the client sees.              *)
(*                                                                         *)
(* A request is a process.  Every await of the interceptor is the end of a *)
(* step, so that requests with the same key interleave, on one server or   *)
(* on several, between the GET, the SET NX, the handler, the SET and the   *)
(* reply.  Redis commands fail, are applied with their answer lost, servers*)
(* crash or shut down, and the 24h TTL runs out.                           *)
(***************************************************************************)
EXTENDS Integers, FiniteSets, TLC

CONSTANTS
  Requests,       \* HTTP requests; each is sent once, a retry is another one
  Servers,        \* server processes behind the load balancer
  Users, Keys,    \* values of authenticatedUser and of a valid Idempotency-Key
  NoUser,         \* no authenticatedUser header: a @Public route
  NoKey, BadKey,  \* no Idempotency-Key header; one that is no UUID v4
  Methods, Paths, \* request.method and request.path
  Calls,          \* what clients may send
  HttpStatuses,   \* statuses of the HttpExceptions the handlers may throw
  MaxLife,        \* bound: lives of a key, so MaxLife - 1 expiries
  MaxFaults,      \* bound: Redis failures, crashes and shutdowns
  PromptHandlers, \* does every handler end within the 24h TTL of its lock?
  NoCall, NoRecord, NoOutcome, NoReply, NoServer  \* model values

SAFE_METHODS == {"GET", "HEAD", "OPTIONS", "TRACE"}

\* skip is the @SkipIdempotency metadata of the route.
CallType ==
  [user : Users \cup {NoUser}, key : Keys \cup {NoKey, BadKey},
   method : Methods, path : Paths, skip : BOOLEAN]

ASSUME CallsAssumption ==
  /\ Calls \subseteq CallType
  /\ NoUser \notin Users
  /\ NoKey \notin Keys /\ BadKey \notin Keys
  /\ NoCall \notin Calls
ASSUME BoundsAssumption ==
  /\ MaxLife \in Nat \ {0} /\ MaxFaults \in Nat
  /\ HttpStatuses \subseteq Nat
  /\ PromptHandlers \in BOOLEAN
\* buildKey: one Redis key per user and Idempotency-Key.
Slots == Users \X Keys
SlotOfKeyOnly(c) == <<CHOOSE u \in Users : TRUE, c.key>>  \* mutant: user left out
Slot(c) == <<c.user, c.key>>

-----------------------------------------------------------------------------
\* What a handler may do, and the body the client gets for it.

\* What next.handle() emits: a body, or one of the three kinds of throw.
Outcomes ==
  [type : {"success", "BaseException", "Error"}, status : {0}]
    \cup [type : {"HttpException"}, status : HttpStatuses]

HTTP_STATUS_TO_ERROR_CODE ==
  [s \in {400, 401, 404, 406, 409, 429, 500, 503} |->
     CASE s = 400 -> "COMMON_BAD_REQUEST"     [] s = 401 -> "COMMON_UNAUTHORIZED"
       [] s = 404 -> "COMMON_NOT_FOUND"       [] s = 406 -> "COMMON_NOT_ACCEPTABLE"
       [] s = 409 -> "COMMON_CONFLICT"        [] s = 429 -> "COMMON_TOO_MANY_REQUESTS"
       [] s = 500 -> "COMMON_INTERNAL_ERROR"
       [] OTHER   -> "COMMON_SERVICE_UNAVAILABLE"]

MapToErrorCode(status) ==
  IF status \in DOMAIN HTTP_STATUS_TO_ERROR_CODE
  THEN HTTP_STATUS_TO_ERROR_CODE[status] ELSE "COMMON_INTERNAL_ERROR"

\* A response body: its code, its text ("own" stands for the body or message of
\* the handler itself) and the request whose handler run produced it.
Body(code, text, run) == [code |-> code, text |-> text, run |-> run]

\* The exception filters: what the request that ran the handler answers.
LiveBody(o, r) ==
  CASE o.type = "success"       -> Body("SUCCESS", "own", {r})
    [] o.type = "BaseException" -> Body("DOMAIN", "own", {r})
    [] o.type = "HttpException" -> Body(MapToErrorCode(o.status), "own", {r})
    [] OTHER -> Body("COMMON_INTERNAL_ERROR", "Internal Server Error!", {r})

\* Mutant: toFailure without the status table it shares with the filter.
SnapshotNoTable(o, r) ==
  CASE o.type = "success"       -> Body("SUCCESS", "own", {r})
    [] o.type = "BaseException" -> Body("DOMAIN", "own", {r})
    [] OTHER -> Body("COMMON_INTERNAL_ERROR", "Internal server error", {r})

\* setCompleted's body or toFailure's snapshot: what a replay answers.
Snapshot(o, r) ==
  CASE o.type = "success"       -> Body("SUCCESS", "own", {r})
    [] o.type = "BaseException" -> Body("DOMAIN", "own", {r})
    [] o.type = "HttpException" -> Body(MapToErrorCode(o.status), "own", {r})
    [] OTHER -> Body("COMMON_INTERNAL_ERROR", "Internal server error", {r})

\* Answers that no handler run produced.
Refusal(code) == Body(code, "refusal", {})
BadRequest    == Refusal("COMMON_BAD_REQUEST")
InProgress    == Refusal("IDEMPOTENCY_IN_PROGRESS")
RedisFailure  == Body("COMMON_INTERNAL_ERROR", "Internal Server Error!", {})

Bodies ==
  [code : {"SUCCESS", "DOMAIN"} \cup {MapToErrorCode(s) : s \in HttpStatuses}
            \cup {"COMMON_BAD_REQUEST", "COMMON_INTERNAL_ERROR",
                  "IDEMPOTENCY_IN_PROGRESS"},
   text : {"own", "refusal", "Internal Server Error!", "Internal server error"},
   run : SUBSET Requests]

\* IdempotencyRecord; the answer stands for statusCode and responseBody, or for
\* failed, errorCode and message.
Records ==
  [state : {"pending", "completed"}, method : Methods, path : Paths,
   answer : Bodies \cup {NoReply}]

ASSUME ModelValuesAssumption ==
  /\ NoRecord \notin Records /\ NoOutcome \notin Outcomes
  /\ NoReply \notin Bodies /\ NoServer \notin Servers

-----------------------------------------------------------------------------
VARIABLES
  pc,       \* where each request is
  call,     \* what it asks
  server,   \* the process that serves it
  outcome,  \* what its handler did
  reply,    \* the body sent to its client
  redis,    \* the record of each slot
  up,       \* each server: up, draining (Redis client quit) or down
  faults,   \* faults so far
  life,     \* history: which life each slot is in
  born,     \* history: the life in which a request took the lock, or 0
  seen      \* history: the life in which a request was given a replay, or 0

vars == <<pc, call, server, outcome, reply, redis, up, faults, life, born, seen>>

History == <<life, born, seen>>

\* Waiting for Redis or for the handler, with a client still to be answered.
InFlight == {"direct", "get", "lock", "handle", "save", "respond"}

Init ==
  /\ pc      = [r \in Requests |-> "idle"]
  /\ call    = [r \in Requests |-> NoCall]
  /\ server  = [r \in Requests |-> NoServer]
  /\ outcome = [r \in Requests |-> NoOutcome]
  /\ reply   = [r \in Requests |-> NoReply]
  /\ redis   = [k \in Slots |-> NoRecord]
  /\ up      = [s \in Servers |-> "up"]
  /\ faults  = 0
  /\ life    = [k \in Slots |-> 1]
  /\ born    = [r \in Requests |-> 0]
  /\ seen    = [r \in Requests |-> 0]

Go(r, to) == pc' = [pc EXCEPT ![r] = to]
Answer(r, body) == Go(r, "done") /\ reply' = [reply EXCEPT ![r] = body]
SlotOf(r) == Slot(call[r])

\* A Redis command of r's server can be answered until its client has quit;
\* afterwards every command is rejected.  A rejection while the client is open
\* is a fault of the network or of Redis, and is counted.
RedisAnswers(r) == up[server[r]] = "up" /\ UNCHANGED faults
RedisRejectsWhenUp(r) ==   \* mutant: after quit, commands wait in a queue
  up[server[r]] = "up" /\ faults < MaxFaults /\ faults' = faults + 1
RedisRejects(r) ==
  \/ up[server[r]] = "draining" /\ UNCHANGED faults
  \/ up[server[r]] = "up" /\ faults < MaxFaults /\ faults' = faults + 1

-----------------------------------------------------------------------------
\* The synchronous part of intercept: no key, no user, a safe method or a
\* skipped route goes straight to the handler (R1), a malformed key is refused.
BypassesKey(c) ==
  \/ c.skip
  \/ c.method \in SAFE_METHODS
  \/ c.key = NoKey
  \/ c.key # BadKey /\ c.user = NoUser

Intercept(r, c, s) ==
  /\ pc[r] = "idle" /\ up[s] # "down"
  /\ call' = [call EXCEPT ![r] = c]
  /\ server' = [server EXCEPT ![r] = s]
  /\ \/ BypassesKey(c) /\ Go(r, "direct") /\ UNCHANGED reply
     \/ ~BypassesKey(c) /\ c.key = BadKey /\ Answer(r, BadRequest)
     \/ ~BypassesKey(c) /\ c.key # BadKey /\ Go(r, "get") /\ UNCHANGED reply
  /\ UNCHANGED <<outcome, redis, up, faults, History>>

\* R1: the handler runs and no record is read or written.
HandleDirect(r, o) ==
  /\ pc[r] = "direct"
  /\ outcome' = [outcome EXCEPT ![r] = o]
  /\ Answer(r, LiveBody(o, r))
  /\ UNCHANGED <<call, server, redis, up, faults, History>>

ConflictsByMethod(record, c) == record.method # c.method  \* mutant: path left out
Conflicts(record, c) == record.method # c.method \/ record.path # c.path

\* The GET: conflict, in progress (R4), replay (R3), or a miss (R2).
Get(r) ==
  LET k == SlotOf(r)
      record == redis[k]
      miss == record = NoRecord
      conflict == Conflicts(record, call[r])
  IN
  /\ pc[r] = "get" /\ RedisAnswers(r)
  /\ \/ miss /\ Go(r, "lock") /\ UNCHANGED <<reply, seen>>
     \/ ~miss /\ conflict /\ Answer(r, BadRequest) /\ UNCHANGED seen
     \/ /\ ~miss /\ ~conflict /\ record.state = "pending"
        /\ Answer(r, InProgress) /\ UNCHANGED seen
     \/ /\ ~miss /\ ~conflict /\ record.state = "completed"
        /\ Answer(r, record.answer)
        /\ seen' = [seen EXCEPT ![r] = life[k]]
  /\ UNCHANGED <<call, server, outcome, redis, up, life, born>>

PendingMisspelt(r) ==   \* mutant: a state the readers do not know
  [state |-> "processing", method |-> call[r].method, path |-> call[r].path,
   answer |-> NoReply]
Pending(r) ==
  [state |-> "pending", method |-> call[r].method, path |-> call[r].path,
   answer |-> NoReply]
Completed(r) ==
  [state |-> "completed", method |-> call[r].method, path |-> call[r].path,
   answer |-> Snapshot(outcome[r], r)]

\* Mutant: SET EX, the GET before it being taken for enough.
SetPendingWithoutNX(r) ==
  LET k == SlotOf(r) IN
  /\ pc[r] = "lock" /\ RedisAnswers(r)
  /\ redis' = [redis EXCEPT ![k] = Pending(r)]
  /\ born' = [born EXCEPT ![r] = life[k]]
  /\ Go(r, "handle")
  /\ UNCHANGED <<call, server, outcome, reply, up, life, seen>>

\* setPending: SET NX EX in one script.  The loser of the race is told the
\* request is in progress, whatever the winner's endpoint and state.
SetPending(r) ==
  LET k == SlotOf(r) IN
  /\ pc[r] = "lock" /\ RedisAnswers(r)
  /\ \/ /\ redis[k] = NoRecord
        /\ redis' = [redis EXCEPT ![k] = Pending(r)]
        /\ born' = [born EXCEPT ![r] = life[k]]
        /\ Go(r, "handle") /\ UNCHANGED reply
     \/ /\ redis[k] # NoRecord
        /\ Answer(r, InProgress) /\ UNCHANGED <<redis, born>>
  /\ UNCHANGED <<call, server, outcome, up, life, seen>>

\* The GET or the SET NX is rejected: fail closed, the handler is not reached.
LookupFails(r) ==
  /\ pc[r] \in {"get", "lock"} /\ RedisRejects(r)
  /\ Answer(r, RedisFailure)
  /\ UNCHANGED <<call, server, outcome, redis, up, History>>

\* The SET NX took the lock and its answer never came.  The command is either
\* rejected, or sent again on the new connection, where it finds the record it
\* left itself: the key is pending and nobody works on it.
LockReplyLost(r) ==
  LET k == SlotOf(r) IN
  /\ pc[r] = "lock" /\ up[server[r]] = "up"
  /\ faults < MaxFaults /\ faults' = faults + 1
  /\ redis[k] = NoRecord
  /\ redis' = [redis EXCEPT ![k] = Pending(r)]
  /\ \E body \in {RedisFailure, InProgress} : Answer(r, body)
  /\ UNCHANGED <<call, server, outcome, up, History>>

\* Mutant: a handler that throws goes past the cache (no catchError).
HandleSkipsFailures(r, o) ==
  /\ pc[r] = "handle"
  /\ outcome' = [outcome EXCEPT ![r] = o]
  /\ Go(r, IF o.type = "success" THEN "save" ELSE "respond")
  /\ UNCHANGED <<call, server, reply, redis, up, faults, History>>

\* next.handle(): pipes, controller and service.
Handle(r, o) ==
  /\ pc[r] = "handle"
  /\ outcome' = [outcome EXCEPT ![r] = o]
  /\ Go(r, "save")
  /\ UNCHANGED <<call, server, reply, redis, up, faults, History>>

\* Mutant: the SET keeps the NX of setPending.
SaveIfAbsent(r) ==
  /\ pc[r] = "save" /\ RedisAnswers(r)
  /\ redis' = IF redis[SlotOf(r)] # NoRecord THEN redis
              ELSE [redis EXCEPT ![SlotOf(r)] = Completed(r)]
  /\ Go(r, "respond")
  /\ UNCHANGED <<call, server, outcome, reply, up, History>>

\* setCompleted or setCompletedFailure: an unconditional SET EX.
Save(r) ==
  /\ pc[r] = "save" /\ RedisAnswers(r)
  /\ redis' = [redis EXCEPT ![SlotOf(r)] = Completed(r)]
  /\ Go(r, "respond")
  /\ UNCHANGED <<call, server, outcome, reply, up, History>>

\* Mutant: without the inner catchError a failed setCompleted reaches the outer
\* one, which stores a failure for a handler that succeeded.
SaveFailsAsFailure(r) ==
  /\ pc[r] = "save" /\ up[server[r]] = "up" /\ RedisRejects(r)
  /\ redis' = [redis EXCEPT ![SlotOf(r)] =
       [Completed(r) EXCEPT !.answer =
          Snapshot([type |-> "Error", status |-> 0], r)]]
  /\ Go(r, "respond")
  /\ UNCHANGED <<call, server, outcome, reply, up, History>>

\* Both catchError(() => of(null)): the failure of the SET is swallowed.  The
\* SET may have been applied all the same.
SaveFails(r) ==
  /\ pc[r] = "save"
  /\ \/ RedisRejects(r) /\ UNCHANGED redis
     \/ /\ up[server[r]] = "up" /\ RedisRejects(r)
        /\ redis' = [redis EXCEPT ![SlotOf(r)] = Completed(r)]
  /\ Go(r, "respond")
  /\ UNCHANGED <<call, server, outcome, reply, up, History>>

\* of(body), or the original error through the exception filters.
Respond(r) ==
  /\ pc[r] = "respond"
  /\ Answer(r, LiveBody(outcome[r], r))
  /\ UNCHANGED <<call, server, outcome, redis, up, faults, History>>

-----------------------------------------------------------------------------
\* Redis and the server processes.

HoldsLock(r, k) ==
  /\ pc[r] \in {"handle", "save"} /\ SlotOf(r) = k /\ born[r] = life[k]

\* Mutant: SET NX without EX, so that a pending record has no TTL.
ExpireCompleted(k) ==
  /\ redis[k] # NoRecord /\ redis[k].state = "completed" /\ life[k] < MaxLife
  /\ redis' = [redis EXCEPT ![k] = NoRecord]
  /\ life' = [life EXCEPT ![k] = @ + 1]
  /\ UNCHANGED <<pc, call, server, outcome, reply, up, faults, born, seen>>

\* The TTL of a record runs out.  With PromptHandlers it does not do so under
\* a handler that is still at work.
Expire(k) ==
  /\ redis[k] # NoRecord /\ life[k] < MaxLife
  /\ PromptHandlers => \A r \in Requests : ~HoldsLock(r, k)
  /\ redis' = [redis EXCEPT ![k] = NoRecord]
  /\ life' = [life EXCEPT ![k] = @ + 1]
  /\ UNCHANGED <<pc, call, server, outcome, reply, up, faults, born, seen>>

ServedBy(s) == {r \in Requests : server[r] = s /\ pc[r] \in InFlight}

Crash(s) ==
  /\ up[s] # "down" /\ faults < MaxFaults
  /\ faults' = faults + 1
  /\ up' = [up EXCEPT ![s] = "down"]
  /\ pc' = [r \in Requests |-> IF r \in ServedBy(s) THEN "dead" ELSE pc[r]]
  /\ UNCHANGED <<call, server, outcome, reply, redis, History>>

\* SIGTERM with shutdown hooks: RedisModule.onModuleDestroy quits the client
\* before the HTTP server stops, so the requests in flight go on without Redis.
BeginShutdown(s) ==
  /\ up[s] = "up" /\ faults < MaxFaults
  /\ faults' = faults + 1
  /\ up' = [up EXCEPT ![s] = "draining"]
  /\ UNCHANGED <<pc, call, server, outcome, reply, redis, History>>

Exit(s) ==
  /\ up[s] = "draining" /\ ServedBy(s) = {}
  /\ up' = [up EXCEPT ![s] = "down"]
  /\ UNCHANGED <<pc, call, server, outcome, reply, redis, faults, History>>

Start(s) ==
  /\ up[s] = "down"
  /\ up' = [up EXCEPT ![s] = "up"]
  /\ UNCHANGED <<pc, call, server, outcome, reply, redis, faults, History>>

Serve(r) ==
  \/ \E o \in Outcomes : HandleDirect(r, o)
  \/ Get(r)
  \/ SetPending(r)
  \/ LookupFails(r)
  \/ LockReplyLost(r)
  \/ \E o \in Outcomes : Handle(r, o)
  \/ Save(r)
  \/ SaveFails(r)
  \/ Respond(r)

Next ==
  \/ \E r \in Requests, c \in Calls, s \in Servers : Intercept(r, c, s)
  \/ \E r \in Requests : Serve(r)
  \/ \E k \in Slots : Expire(k)
  \/ \E s \in Servers : Crash(s) \/ BeginShutdown(s) \/ Exit(s) \/ Start(s)

Spec == Init /\ [][Next]_vars

\* The event loop runs every continuation, handlers end, Redis expires keys.
Fairness ==
  /\ \A r \in Requests : WF_vars(Serve(r))
  /\ \A k \in Slots : WF_vars(Expire(k))

FairSpec == Spec /\ Fairness
=============================================================================
