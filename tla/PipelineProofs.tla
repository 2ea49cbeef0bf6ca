--------------------------- MODULE PipelineProofs ---------------------------
(***************************************************************************)
(* Theorems about Pipeline, for any requests, servers, accounts, posts,    *)
(* routes and keys: it only makes steps of Idempotency, so that what holds *)
(* of the interceptor holds of the application, and what the guard hands   *)
(* on turns that into promises about what clients send.                    *)
(***************************************************************************)
EXTENDS PipelineProps, IdempotencyRefinement

USE CallsAssumption, BoundsAssumption, ModelValuesAssumption, SendsAssumption

-----------------------------------------------------------------------------
\* The inductive invariant.

\* A request past AuthGuard has what it was sent with, and the header of its
\* account; one that reached the interceptor is there with that call.
GuardInv ==
  \A r \in Requests :
    /\ stage[r] # "new" => sent[r] \in Sends /\ at[r] \in Servers
    /\ stage[r] \in {"throttle", "in"} =>
         /\ header[r] = HeaderOf(sent[r])
         /\ sent[r].route \notin Public => sent[r].refresh \in Users
    /\ IF pc[r] = "idle"
       THEN /\ stage[r] # "in" /\ acted[r] = NoHandler /\ outcome[r] = NoOutcome
            /\ reply[r] = NoReply
       ELSE stage[r] = "in" /\ call[r] = CallOf(sent[r], header[r])

\* What a handler was called with is what its request asks for; without a call
\* the pipes refused the request.
HandlerInv ==
  \A r \in Requests :
    /\ Acted(r) => /\ acted[r] = Arguments(sent[r], header[r])
                   /\ PipeRefusals(sent[r], header[r]) = {}
    /\ outcome[r] # NoOutcome /\ ~Acted(r) =>
         outcome[r] \in PipeRefusals(sent[r], header[r])

\* A request that goes round the key has no lock, any other one takes it before
\* its handler is called.
KeyInv ==
  \A r \in Requests :
    /\ pc[r] = "direct" => BypassesKey(call[r])
    /\ Acted(r) /\ ~BypassesKey(call[r]) => born[r] # 0
    /\ Acted(r) => pc[r] \notin {"direct", "get", "lock", "handle"}

PInv == PTypeOK /\ GuardInv /\ HandlerInv /\ KeyInv

\* The header of a request is an account, or missing.
LEMMA HeaderType ==
  ASSUME NEW m \in Sends
  PROVE  /\ HeaderOf(m) \in Users \cup {NoUser}
         /\ CallOf(m, HeaderOf(m)) \in Calls
BY DEF HeaderOf, SendType

\* What a handler is called with.
LEMMA HandlerType ==
  ASSUME NEW m \in Sends, NEW u \in Users \cup {NoUser}
  PROVE  Arguments(m, u) \in Handlers
<1>1. m.id # NoId => m.id \in Ids
  BY DEF SendType
<1>2. m.id # NoId => m.id.value \in Posts \cup Users
  BY <1>1 DEF Ids
<1>3. m.route \in Routes
  BY DEF SendType
<1>4. QED BY <1>2, <1>3 DEF Arguments, Handlers

\* The refusals of the pipes are outcomes, and none is a success.
LEMMA RefusalOutcome ==
  ASSUME NEW m, NEW u, NEW o \in PipeRefusals(m, u)
  PROVE  o \in Outcomes /\ o.type # "success"
BY DEF PipeRefusals, Exception, BadArgument, Outcomes

-----------------------------------------------------------------------------
\* Every step of the pipeline is a step of Idempotency, or none.
LEMMA StepComposes ==
  ASSUME PInv, [PNext]_<<vars, pvars>>
  PROVE  [Next]_vars
<1>1. ASSUME NEW r \in Requests, NEW m \in Sends, NEW s \in Servers, AuthGuard(r, m, s)
      PROVE  UNCHANGED vars
  BY <1>1 DEF AuthGuard
<1>2. ASSUME NEW r \in Requests, ThrottlerGuard(r)
      PROVE  [Next]_vars
  <2>1. sent[r] \in Sends /\ at[r] \in Servers /\ CallOf(sent[r], header[r]) \in Calls
    BY <1>2, HeaderType DEF ThrottlerGuard, PInv, GuardInv
  <2>2. QED BY <1>2, <2>1 DEF ThrottlerGuard, Next
<1>3. ASSUME NEW r \in Requests, NEW o \in Outcomes, RunHandler(r, o)
      PROVE  Next
  BY <1>3 DEF RunHandler, Next, Serve
<1>4. ASSUME NEW r \in Requests, Interceptor(r)
      PROVE  Next
  BY <1>4 DEF Interceptor, Next, Serve
<1>5. ASSUME NEW s \in Servers, CrashAll(s) \/ Operate(s)
      PROVE  Next
  BY <1>5 DEF CrashAll, Operate, Next
<1>6. ASSUME NEW k \in Slots, Expire(k)
      PROVE  Next
  BY <1>6 DEF Next
<1>7. QED BY <1>1, <1>2, <1>3, <1>4, <1>5, <1>6 DEF PNext

-----------------------------------------------------------------------------
LEMMA PInvInit == PInit => PInv
BY DEF PInit, Init, PInv, PTypeOK, GuardInv, HandlerInv, KeyInv, Acted

LEMMA AuthGuardStep ==
  ASSUME PInv, IInv, NEW r \in Requests, NEW m \in Sends, NEW s \in Servers,
         AuthGuard(r, m, s)
  PROVE  PInv'
<1> USE DEF PInv, PTypeOK
<1>1. pc[r] = "idle" /\ acted[r] = NoHandler /\ outcome[r] = NoOutcome
  BY DEF AuthGuard, GuardInv
<1>2. PTypeOK'
  BY HeaderType DEF AuthGuard
<1>3. GuardInv'
  BY <1>1 DEF AuthGuard, GuardInv, SendType, vars
<1>4. HandlerInv' /\ KeyInv'
  BY <1>1 DEF AuthGuard, HandlerInv, KeyInv, Acted, vars
<1>5. QED BY <1>2, <1>3, <1>4

LEMMA ThrottlerGuardStep ==
  ASSUME PInv, IInv, NEW r \in Requests, ThrottlerGuard(r)
  PROVE  PInv'
<1> USE DEF PInv, PTypeOK
<1>1. pc[r] = "idle" /\ acted[r] = NoHandler /\ outcome[r] = NoOutcome
  BY DEF ThrottlerGuard, GuardInv
<1>2. PTypeOK'
  BY DEF ThrottlerGuard
<1>3. CASE stage' = [stage EXCEPT ![r] = "refused"] /\ UNCHANGED vars
  BY <1>1, <1>2, <1>3 DEF ThrottlerGuard, GuardInv, HandlerInv, KeyInv, Acted, vars
<1>4. CASE /\ stage' = [stage EXCEPT ![r] = "in"]
           /\ Intercept(r, CallOf(sent[r], header[r]), at[r])
  <2> USE DEF IInv, TypeOK, Go, Answer
  <2>1. GuardInv'
    BY <1>1, <1>4 DEF ThrottlerGuard, GuardInv, Intercept
  <2>2. HandlerInv'
    BY <1>1, <1>4 DEF ThrottlerGuard, HandlerInv, Intercept, Acted
  <2>3. KeyInv'
    BY <1>1, <1>4 DEF ThrottlerGuard, KeyInv, Intercept, Acted, History
  <2>4. QED BY <1>2, <2>1, <2>2, <2>3
<1>5. QED BY <1>3, <1>4 DEF ThrottlerGuard

LEMMA RunHandlerStep ==
  ASSUME PInv, IInv, NEW r \in Requests, NEW o \in Outcomes, RunHandler(r, o)
  PROVE  PInv'
<1> USE DEF PInv, PTypeOK
<1>1. /\ pc[r] \in {"handle", "direct"}
      /\ pc[r] = "handle" => born[r] # 0
  BY DEF RunHandler, Handle, HandleDirect, IInv, WorkInv
<1>2. /\ sent[r] \in Sends /\ header[r] \in Users \cup {NoUser}
      /\ Arguments(sent[r], header[r]) \in Handlers
  BY <1>1, HandlerType, HeaderType DEF GuardInv, RunHandler, Handle, HandleDirect
<1>3. PTypeOK'
  BY <1>2 DEF RunHandler
<1>4. /\ outcome' = [outcome EXCEPT ![r] = o] /\ o # NoOutcome
      /\ UNCHANGED <<call, born, stage, sent, at, header>>
  BY DEF RunHandler, Handle, HandleDirect, History
<1>5. /\ pc'[r] \in {"save", "done"}
      /\ \A q \in Requests \ {r} : pc'[q] = pc[q] /\ reply'[q] = reply[q]
  BY DEF RunHandler, Handle, HandleDirect, Go, Answer, IInv, TypeOK
<1>6. GuardInv'
  BY <1>1, <1>4, <1>5 DEF GuardInv, RunHandler, IInv, TypeOK
<1>7. HandlerInv'
  BY <1>2, <1>4, RefusalOutcome DEF HandlerInv, RunHandler, Acted, IInv, TypeOK
<1>8. KeyInv'
  BY <1>1, <1>4, <1>5 DEF KeyInv, RunHandler, Acted, IInv, TypeOK
<1>9. QED BY <1>3, <1>6, <1>7, <1>8

\* The other steps of the interceptor touch neither the pipeline nor outcomes.
LEMMA InterceptorStep ==
  ASSUME PInv, IInv, NEW r \in Requests, Interceptor(r)
  PROVE  PInv'
<1> USE DEF PInv, PTypeOK, Interceptor, pvars
<1>1. PTypeOK'
  OBVIOUS
<1>2. /\ pc[r] \in {"get", "lock", "save", "respond"}
      /\ UNCHANGED <<call, outcome>>
  BY DEF Get, SetPending, LookupFails, LockReplyLost, Save, SaveFails, Respond, History
<1>3. /\ pc'[r] \in {"lock", "handle", "respond", "done"}
      /\ \A q \in Requests \ {r} :
           pc'[q] = pc[q] /\ reply'[q] = reply[q] /\ born'[q] = born[q]
  BY DEF Get, SetPending, LookupFails, LockReplyLost, Save, SaveFails, Respond,
     Go, Answer, IInv, TypeOK, History
<1>4. GuardInv'
  BY <1>2, <1>3 DEF GuardInv
<1>5. HandlerInv'
  BY <1>2 DEF HandlerInv, Acted
<1>6. Acted(r) => born'[r] = born[r] /\ pc'[r] \in {"respond", "done"}
  BY DEF KeyInv, Get, SetPending, LookupFails, LockReplyLost, Save, SaveFails, Respond,
     Go, Answer, IInv, TypeOK, History
<1>7. KeyInv'
  BY <1>2, <1>3, <1>6 DEF KeyInv, Acted
<1>8. QED BY <1>1, <1>4, <1>5, <1>7

LEMMA ServerStep ==
  ASSUME PInv, IInv,
         \/ \E k \in Slots : Expire(k) /\ UNCHANGED pvars
         \/ \E s \in Servers : CrashAll(s) \/ Operate(s)
         \/ UNCHANGED <<vars, pvars>>
  PROVE  PInv'
<1> USE DEF PInv, PTypeOK, pvars
<1>1. ASSUME UNCHANGED <<pc, call, outcome, reply, born, stage, sent, at, header, acted>>
      PROVE  PInv'
  BY <1>1 DEF GuardInv, HandlerInv, KeyInv, Acted
<1>2. ASSUME NEW s \in Servers, CrashAll(s)
      PROVE  PInv'
  <2>1. UNCHANGED <<call, outcome, reply, born, sent, at, header, acted>>
    BY <1>2 DEF CrashAll, Crash, History
  <2>2. /\ \A q \in Requests : pc'[q] = pc[q] \/ (pc[q] # "idle" /\ pc'[q] = "dead")
        /\ \A q \in Requests : stage'[q] = stage[q]
                                 \/ (stage[q] = "throttle" /\ stage'[q] = "dead")
    BY <1>2 DEF CrashAll, Crash, ServedBy, InFlight, InGuards, IInv, TypeOK
  <2>3. PTypeOK'
    BY <1>2, <2>1, <2>2 DEF CrashAll
  <2>4. GuardInv'
    BY <2>1, <2>2 DEF GuardInv
  <2>5. HandlerInv' /\ KeyInv'
    BY <2>1, <2>2 DEF HandlerInv, KeyInv, Acted
  <2>6. QED BY <2>3, <2>4, <2>5
<1>3. QED
  BY <1>1, <1>2 DEF Expire, Operate, BeginShutdown, Start, Exit, vars, History

LEMMA PInvStep ==
  ASSUME PInv, IInv, [PNext]_<<vars, pvars>>
  PROVE  PInv'
BY AuthGuardStep, ThrottlerGuardStep, RunHandlerStep, InterceptorStep, ServerStep
   DEF PNext

-----------------------------------------------------------------------------
\* The application makes only steps of the interceptor's specification: every
\* theorem about Idempotency holds of the requests that come through the guards.
THEOREM Composition == PSpec => Spec /\ []PInv
<1>1. PInit => Init /\ IInv /\ PInv
  BY PInvInit, IInvInit DEF PInit
<1>2. IInv /\ PInv /\ [PNext]_<<vars, pvars>> => [Next]_vars /\ IInv' /\ PInv'
  BY StepComposes, PInvStep, TypeStep, WorkStep, OwnedStep DEF IInv
<1>3. QED BY <1>1, <1>2, PTL DEF PSpec, Spec

\* Every variable of the pipeline keeps its type.
THEOREM PTypeCorrect == PSpec => []PTypeOK
BY Composition, PTL DEF PInv

\* A replay is the answer of a run of the same account, key and endpoint,
\* whatever the routes, their decorators and the headers clients send.
THEOREM PReplaysAreReal == PSpec => []ReplayHasARun
BY Composition, ReplaysAreReal, PTL

\* The promise of the key, for the whole application: guards, throttler, pipes and
\* handlers give the interceptor nothing that breaks it.
THEOREM PImplementation == ASSUME PromptHandlers PROVE PSpec => ImplementsContract
BY Composition, Implementation, PTL

-----------------------------------------------------------------------------
\* What the guard's header makes of the interceptor's promises.

\* A request of an account that wrote with a key goes through the lock of the
\* slot of that account.
LEMMA KeyedSlot ==
  ASSUME PInv, NEW r \in Requests, Acted(r), Keyed(sent[r])
  PROVE  born[r] # 0 /\ SlotOf(r) = <<sent[r].refresh, sent[r].key>>
<1>1. /\ header[r] = sent[r].refresh /\ sent[r].refresh \in Users
      /\ call[r] = CallOf(sent[r], header[r])
  BY DEF PInv, GuardInv, Acted, Keyed, HeaderOf
<1>2. sent[r].route \notin SkipIdempotency /\ sent[r].key \notin {NoKey, BadKey}
  BY DEF Keyed, SkipIdempotency, Public, UserAuthController
<1>3. /\ call[r].key = sent[r].key /\ call[r].user = sent[r].refresh
      /\ call[r].method = HttpMethod(sent[r].route)
  BY <1>1 DEF CallOf
<1>4. ~BypassesKey(call[r])
  <2>1. CallOf(sent[r], header[r]).skip = (sent[r].route \in SkipIdempotency)
    BY Zenon DEF CallOf
  <2>2. ~call[r].skip
    BY <1>1, <1>2, <2>1, Zenon
  <2>3. QED BY <1>1, <1>2, <1>3, <2>2 DEF BypassesKey, Keyed
<1>5. QED BY <1>3, <1>4 DEF PInv, KeyInv, SlotOf, Slot

\* While a key is remembered, at most one of the writes an account sends with it
\* is done, for any routes, servers, crashes and Redis failures.
THEOREM EffectOnce == PSpec => []EffectOncePerKey
<1>1. PInv /\ AtMostOncePerLife => EffectOncePerKey
  BY KeyedSlot DEF EffectOncePerKey, AtMostOncePerLife, Ran
<1>2. QED BY <1>1, Composition, AtMostOnce, PTL

-----------------------------------------------------------------------------
\* Where an answer comes from.

\* An answer is a refusal, what the request's own handler did, or a replay.
ReplyInv ==
  \A r \in Requests : reply[r] # NoReply =>
    /\ pc[r] = "done"
    /\ \/ reply[r].run = {} /\ reply[r].code # "SUCCESS"
       \/ outcome[r] \in Outcomes /\ reply[r] = LiveBody(outcome[r], r)
       \/ seen[r] # 0

LEMMA RefusalIsNoRun ==
  /\ BadRequest.run = {} /\ BadRequest.code # "SUCCESS"
  /\ InProgress.run = {} /\ InProgress.code # "SUCCESS"
  /\ RedisFailure.run = {} /\ RedisFailure.code # "SUCCESS"
BY DEF BadRequest, InProgress, RedisFailure, Refusal, Body

\* A request that is done stays as it is.
LEMMA ReplyFrame ==
  ASSUME IInv, [Next]_vars, NEW r \in Requests, pc[r] = "done"
  PROVE  /\ pc'[r] = "done" /\ reply'[r] = reply[r] /\ outcome'[r] = outcome[r]
         /\ seen'[r] = seen[r]
<1> USE DEF IInv, TypeOK, History, Go, Answer, InFlight
<1>1. ASSUME NEW p \in Requests, NEW c \in Calls, NEW s \in Servers, Intercept(p, c, s)
      PROVE  /\ pc'[r] = "done" /\ reply'[r] = reply[r] /\ outcome'[r] = outcome[r]
             /\ seen'[r] = seen[r]
  BY <1>1 DEF Intercept
<1>2. ASSUME NEW p \in Requests, Serve(p)
      PROVE  /\ pc'[r] = "done" /\ reply'[r] = reply[r] /\ outcome'[r] = outcome[r]
             /\ seen'[r] = seen[r]
  BY <1>2 DEF Serve, HandleDirect, Get, SetPending, LookupFails, LockReplyLost,
     Handle, Save, SaveFails, Respond
<1>3. ASSUME NEW s \in Servers, Crash(s)
      PROVE  /\ pc'[r] = "done" /\ reply'[r] = reply[r] /\ outcome'[r] = outcome[r]
             /\ seen'[r] = seen[r]
  BY <1>3 DEF Crash, ServedBy
<1>4. QED
  BY <1>1, <1>2, <1>3 DEF Next, Expire, BeginShutdown, Exit, Start, vars

LEMMA ReplyStep ==
  ASSUME IInv, ReplyInv, [Next]_vars
  PROVE  ReplyInv'
<1> USE DEF IInv, TypeOK, History, Go, Answer, InFlight
<1> DEFINE Sourced(r) ==
      /\ pc[r] = "done"
      /\ \/ reply[r].run = {} /\ reply[r].code # "SUCCESS"
         \/ outcome[r] \in Outcomes /\ reply[r] = LiveBody(outcome[r], r)
         \/ seen[r] # 0
<1> SUFFICES ASSUME NEW r \in Requests, reply'[r] # NoReply
             PROVE  Sourced(r)'
  BY DEF ReplyInv
<1>1. CASE reply[r] # NoReply
  BY <1>1, ReplyFrame DEF ReplyInv
<1>2. CASE reply[r] = NoReply
  <2>1. ASSUME NEW c \in Calls, NEW s \in Servers, Intercept(r, c, s)
        PROVE  Sourced(r)'
    BY <1>2, <2>1, RefusalIsNoRun DEF Intercept
  <2>2. ASSUME NEW o \in Outcomes, HandleDirect(r, o)
        PROVE  Sourced(r)'
    BY <2>2 DEF HandleDirect
  <2>3. ASSUME Get(r)
        PROVE  Sourced(r)'
    <3>1. life[SlotOf(r)] # 0
      BY <2>3 DEF Get, KeyedInv
    <3>2. QED BY <1>2, <2>3, <3>1, RefusalIsNoRun DEF Get
  <2>4. ASSUME SetPending(r) \/ LookupFails(r) \/ LockReplyLost(r)
        PROVE  Sourced(r)'
    BY <1>2, <2>4, RefusalIsNoRun DEF SetPending, LookupFails, LockReplyLost
  <2>5. ASSUME Respond(r)
        PROVE  Sourced(r)'
    BY <2>5 DEF Respond, WorkInv
  <2>6. ASSUME NEW p \in Requests, p # r,
               Serve(p) \/ (\E c \in Calls, s \in Servers : Intercept(p, c, s))
        PROVE  reply'[r] = reply[r]
    BY <2>6 DEF Serve, Intercept, HandleDirect, Get, SetPending, LookupFails,
       LockReplyLost, Handle, Save, SaveFails, Respond
  <2>7. QED
    BY <1>2, <2>1, <2>2, <2>3, <2>4, <2>5, <2>6 DEF Next, Serve, Handle, Save,
       SaveFails, Expire, Crash, BeginShutdown, Exit, Start, vars
<1>3. QED BY <1>1, <1>2

\* Every answer of the interceptor is a refusal, the answer of the request's own
\* handler, or a replay.
THEOREM RepliesInductive == Spec => []ReplyInv
<1>1. Init => ReplyInv
  BY DEF Init, ReplyInv
<1>2. QED BY <1>1, ReplyStep, Inductive, PTL DEF Spec

LEMMA CallFields ==
  ASSUME NEW m, NEW u
  PROVE  /\ CallOf(m, u).user = u /\ CallOf(m, u).key = m.key
         /\ CallOf(m, u).method = HttpMethod(m.route)
         /\ CallOf(m, u).path = <<Resource(m.route), m.id>>
BY DEF CallOf

\* The account, the route and the id of a request with a key are those of any
\* request that makes the same call.
LEMMA SameCallSameSend ==
  ASSUME PInv, NEW r \in Requests, NEW p \in Requests,
         pc[r] # "idle", pc[p] # "idle", SameCall(r, p), SlotOf(r) \in Slots
  PROVE  /\ sent[r].route \notin Public /\ sent[r].route = sent[p].route
         /\ sent[r].refresh = sent[p].refresh
         /\ sent[r].key = sent[p].key /\ sent[r].id = sent[p].id
         /\ header[r] = header[p] /\ header[r] = sent[r].refresh
<1>1. /\ call[r] = CallOf(sent[r], header[r]) /\ call[p] = CallOf(sent[p], header[p])
      /\ header[r] = HeaderOf(sent[r]) /\ header[p] = HeaderOf(sent[p])
      /\ sent[r].route \in Routes /\ sent[p].route \in Routes
  BY DEF PInv, GuardInv, SendType
<1>2. /\ header[r] = header[p] /\ sent[r].key = sent[p].key /\ sent[r].id = sent[p].id
      /\ HttpMethod(sent[r].route) = HttpMethod(sent[p].route)
      /\ Resource(sent[r].route) = Resource(sent[p].route)
  <2>1. CallOf(sent[r], header[r]) = CallOf(sent[p], header[p])
    BY <1>1 DEF SameCall
  <2>2. <<Resource(sent[r].route), sent[r].id>> = <<Resource(sent[p].route), sent[p].id>>
    BY <2>1, CallFields
  <2>3. QED BY <2>1, <2>2, CallFields
<1>3. header[r] \in Users
  BY <1>1, CallFields DEF SlotOf, Slot, Slots
<1>4. /\ sent[r].route \notin Public /\ sent[p].route \notin Public
      /\ sent[r].refresh = header[r] /\ sent[p].refresh = header[p]
  BY <1>1, <1>2, <1>3 DEF HeaderOf
<1>5. sent[r].route = sent[p].route
  BY <1>1, <1>2, <1>4 DEF HttpMethod, Resource, Routes, PostController,
     PostLikeController, UserInfoController
<1>6. QED BY <1>2, <1>4, <1>5

\* What a handler answered one client reaches another one only as the replay of
\* the same request of the same account; in particular nothing a public route
\* answers is ever replayed.
THEOREM AnswersStayMine == PSpec => []AnswersAreMine
<1>1. ASSUME PInv, IInv, ReplyInv, ReplayInv, NEW r \in Requests, NEW p \in Requests,
             reply[r] # NoReply, reply[r].run = {p}, r # p
      PROVE  /\ sent[r].route \notin Public /\ sent[r].route = sent[p].route
             /\ sent[r].refresh = sent[p].refresh
             /\ sent[r].key = sent[p].key /\ sent[r].id = sent[p].id
  <2>1. outcome[r] \in Outcomes => LiveBody(outcome[r], r).run = {r}
    BY SnapshotKeepsCode DEF LiveBody, Body
  <2>2. seen[r] # 0 /\ pc[r] = "done"
    BY <1>1, <2>1 DEF ReplyInv
  <2>3. PICK q \in Requests :
          /\ born[q] # 0 /\ Finished(q) /\ SameCall(q, r)
          /\ reply[r] = Snapshot(outcome[q], q)
    BY <1>1, <2>2 DEF ReplayInv
  <2>4. q = p
    BY <1>1, <2>3, SnapshotKeepsCode DEF Finished
  <2>5. SlotOf(p) \in Slots /\ pc[p] # "idle"
    BY <1>1, <2>3, <2>4 DEF IInv, KeyedInv, Finished
  <2>6. QED BY <1>1, <2>2, <2>3, <2>4, <2>5, SameCallSameSend
<1>2. PInv /\ IInv /\ ReplyInv /\ ReplayInv => AnswersAreMine
  BY <1>1 DEF AnswersAreMine
<1>3. QED
  BY <1>2, Composition, Inductive, RepliesInductive, AnswersInductive, PTL

\* A live answer is of the handler's own run, and no thrown error is told as a
\* success.
LEMMA SuccessIsSuccess ==
  ASSUME NEW o \in Outcomes, NEW r \in Requests
  PROVE  /\ LiveBody(o, r).code = "SUCCESS" => o.type = "success"
         /\ LiveBody(o, r).run = {r}
<1>1. MapToErrorCode(o.status) # "SUCCESS"
  BY DEF MapToErrorCode, HTTP_STATUS_TO_ERROR_CODE
<1>2. QED BY <1>1 DEF LiveBody, Body, Outcomes

\* A client that hears SUCCESS, from its own handler or in a replay, has what it
\* asked for: a handler was called for its account, its route and its post.
THEOREM SuccessIsDone == PSpec => []SuccessWasDone
<1>1. ASSUME PInv, NEW p \in Requests, outcome[p] \in Outcomes,
             outcome[p].type = "success"
      PROVE  Acted(p) /\ acted[p] = Arguments(sent[p], header[p])
  BY <1>1, RefusalOutcome DEF PInv, HandlerInv
<1>2. ASSUME PInv, IInv, ReplyInv, ReplayInv, NEW r \in Requests,
             reply[r] # NoReply, reply[r].code = "SUCCESS"
      PROVE  \E p \in Requests :
               /\ reply[r].run = {p} /\ Acted(p)
               /\ acted[p] =
                    Arguments(sent[r], IF sent[r].route \in Public THEN NoUser
                                       ELSE sent[r].refresh)
  <2>1. pc[r] = "done"
    BY <1>2 DEF ReplyInv
  <2>2. CASE outcome[r] \in Outcomes /\ reply[r] = LiveBody(outcome[r], r)
    <3>1. outcome[r].type = "success" /\ reply[r].run = {r}
      BY <1>2, <2>2, SuccessIsSuccess
    <3>2. header[r] = HeaderOf(sent[r])
      BY <1>2, <2>1 DEF PInv, GuardInv
    <3>3. QED BY <1>1, <1>2, <2>2, <3>1, <3>2 DEF HeaderOf
  <2>3. CASE seen[r] # 0
    <3>1. PICK q \in Requests :
            /\ born[q] # 0 /\ Finished(q) /\ SameCall(q, r)
            /\ reply[r] = Snapshot(outcome[q], q)
      BY <1>2, <2>3 DEF ReplayInv
    <3>2. outcome[q].type = "success" /\ reply[r].run = {q}
      BY <1>2, <3>1, SuccessIsSuccess, SnapshotKeepsCode DEF Finished
    <3>3. acted[q] = Arguments(sent[q], header[q]) /\ Acted(q)
      BY <1>1, <1>2, <3>1, <3>2 DEF Finished
    <3>4. SlotOf(q) \in Slots /\ pc[q] # "idle"
      BY <1>2, <3>1 DEF IInv, KeyedInv, Finished
    <3>5. /\ sent[q].route \notin Public /\ sent[q].route = sent[r].route
          /\ sent[q].id = sent[r].id /\ header[q] = sent[r].refresh
      BY <1>2, <2>1, <3>1, <3>4, SameCallSameSend
    <3>6. QED BY <3>2, <3>3, <3>5 DEF Arguments
  <2>4. QED BY <1>2, <2>2, <2>3 DEF ReplyInv
<1>3. PInv /\ IInv /\ ReplyInv /\ ReplayInv => SuccessWasDone
  BY <1>2 DEF SuccessWasDone
<1>4. QED
  BY <1>3, Composition, Inductive, RepliesInductive, AnswersInductive, PTL

-----------------------------------------------------------------------------
\* Ids.

\* A handler that takes an id of a post is called with a post.
LEMMA PostArgument ==
  ASSUME PInv, NEW p \in Requests, Acted(p), acted[p].route = "getPost"
  PROVE  acted[p].value \in Posts
<1>1. /\ acted[p] = Arguments(sent[p], header[p]) /\ sent[p] \in Sends
      /\ PipeRefusals(sent[p], header[p]) = {}
  BY DEF PInv, HandlerInv, GuardInv, Acted
<1>2. sent[p].route \in TakesPostId
  BY <1>1 DEF Arguments, TakesPostId
<1>3. Exception \notin PipeRefusals(sent[p], header[p])
        /\ BadArgument \notin PipeRefusals(sent[p], header[p])
  BY <1>1
<1>4. Decrypts(sent[p].id) /\ sent[p].id.kind = "post"
  BY <1>2, <1>3 DEF PipeRefusals
<1>5. sent[p].id \in Ids /\ sent[p].id # NoId
  BY <1>1, <1>4 DEF SendType, Decrypts
<1>6. sent[p].id.value \in Posts
  BY <1>4, <1>5 DEF Ids
<1>7. QED BY <1>1, <1>5, <1>6 DEF Arguments

\* The posts of a response decrypt to the ids that were encrypted.
LEMMA ShownTwice ==
  ASSUME PInv, NEW p \in Requests, NEW id \in ShownTo(p)
  PROVE  /\ Decrypts(id) /\ id # NoId
         /\ \E dto \in Result(acted[p]).top \cup Result(acted[p]).items :
              id.value \in {dto.postId.value, dto.postUid.value}
<1>1. Acted(p)
  BY DEF ShownTo, Acted
<1>2. PICK dto \in Result(acted[p]).top \cup Result(acted[p]).items :
        id \in {EncryptObject(dto, p).postId, EncryptObject(dto, p).postUid}
  BY DEF ShownTo, EncryptResponse
<1>3. PICK q \in Posts : dto = PostDto(q)
  <2>1. CASE acted[p].route = "getPost"
    BY <1>1, <1>2, <2>1, PostArgument DEF Result
  <2>2. CASE acted[p].route # "getPost"
    BY <1>2, <2>2 DEF Result
  <2>3. QED BY <2>1, <2>2
<1>4. id \in {Encrypt(dto.postId, p), Encrypt(dto.postUid, p)}
  BY <1>2, <1>3 DEF EncryptObject, PostDto
<1>5. /\ dto.postId = [kind |-> "post", value |-> q, salt |-> Clear]
      /\ dto.postUid = [kind |-> "user", value |-> AuthorOf[q], salt |-> Clear]
  BY <1>3 DEF PostDto, Id
<1>6. \/ id = [kind |-> "post", value |-> q, salt |-> p]
      \/ id = [kind |-> "user", value |-> AuthorOf[q], salt |-> p]
  BY <1>4, <1>5 DEF Encrypt
<1>7. id \in Ids /\ id.salt # Clear /\ id.value \in {dto.postId.value, dto.postUid.value}
  BY <1>5, <1>6 DEF Ids, Salts
<1>8. QED BY <1>2, <1>7 DEF Decrypts

\* Ids go round: an id out of a response is never refused as undecryptable, and
\* comes back to a handler as what it stood for.
THEOREM IdsComeBack == PSpec => []ShownIdsComeBack
<1>1. ASSUME PInv, NEW r \in Requests, NEW p \in Requests,
             sent[r] # NoSend, sent[r].id \in ShownTo(p)
      PROVE  /\ outcome[r] # NoOutcome /\ ~Acted(r) => outcome[r] = BadArgument
             /\ Acted(r) =>
                  \E dto \in Result(acted[p]).top \cup Result(acted[p]).items :
                    acted[r].value \in {dto.postId.value, dto.postUid.value}
  <2>1. Decrypts(sent[r].id) /\ sent[r].id # NoId
    BY <1>1, ShownTwice
  <2>2. ASSUME outcome[r] # NoOutcome, ~Acted(r)
        PROVE  outcome[r] = BadArgument
    <3>1. outcome[r] \in PipeRefusals(sent[r], header[r])
      BY <1>1, <2>2 DEF PInv, HandlerInv
    <3>2. /\ header[r] = HeaderOf(sent[r])
          /\ sent[r].route \notin Public => sent[r].refresh \in Users
      BY <1>1, <2>2 DEF PInv, GuardInv
    <3>3. sent[r].route \in TakesUser => header[r] # NoUser
      BY <3>2 DEF HeaderOf, TakesUser, PostLikeController, UserInfoController, Public,
         UserAuthController
    <3>4. QED BY <2>1, <3>1, <3>3 DEF PipeRefusals
  <2>3. ASSUME Acted(r)
        PROVE  acted[r].value = sent[r].id.value
    <3>1. acted[r] = Arguments(sent[r], header[r])
      BY <1>1, <2>3 DEF PInv, HandlerInv
    <3>2. QED BY <2>1, <3>1 DEF Arguments
  <2>4. QED BY <1>1, <2>2, <2>3, ShownTwice
<1>2. PInv => ShownIdsComeBack
  BY <1>1 DEF ShownIdsComeBack
<1>3. QED BY <1>2, Composition, PTL
=============================================================================
