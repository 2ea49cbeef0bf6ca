----------------------- MODULE IdempotencyRefinement -----------------------
(***************************************************************************)
(* Idempotency implements IdempotencyContract, when handlers are prompt.   *)
(***************************************************************************)
EXTENDS IdempotencyProofs

Codes == {"SUCCESS", "DOMAIN", "COMMON_INTERNAL_ERROR"}
           \cup {MapToErrorCode(s) : s \in HttpStatuses}

\* A client that has no answer yet has heard nothing, and a request before its
\* handler has done nothing.
SilentInv ==
  \A r \in Requests :
    /\ pc[r] # "done" => reply[r] = NoReply
    /\ pc[r] \in {"idle", "direct", "get", "lock"} => outcome[r] = NoOutcome /\ born[r] = 0
    /\ seen[r] # 0 => outcome[r] = NoOutcome

\* What the refinement needs of a state.
RInv ==
  /\ IInv /\ AtMostOncePerLife /\ PromptInv /\ AnswerInv
  /\ SilentInv

LEMMA SilentStep ==
  ASSUME IInv, SilentInv, [Next]_vars
  PROVE  SilentInv'
<1> USE DEF IInv, TypeOK, WorkInv, SilentInv, History, Go, Answer
<1>1. ASSUME NEW r \in Requests, NEW c \in Calls, NEW s \in Servers, Intercept(r, c, s)
      PROVE  SilentInv'
  BY <1>1 DEF Intercept
<1>2. ASSUME NEW r \in Requests, Serve(r)
      PROVE  SilentInv'
  BY <1>2 DEF Serve, HandleDirect, Get, SetPending, LookupFails, LockReplyLost,
     Handle, Save, SaveFails, Respond
<1>3. ASSUME NEW s \in Servers, Crash(s)
      PROVE  SilentInv'
  BY <1>3 DEF Crash, ServedBy, InFlight
<1>4. ASSUME UNCHANGED <<pc, reply, outcome, born, seen>>
      PROVE  SilentInv'
  BY <1>4
<1>5. QED
  BY <1>1, <1>2, <1>3, <1>4 DEF Next, Expire, BeginShutdown, Exit, Start, vars

\* The initial states map to initial states.
LEMMA InitRefines == Init => Contract!CInit
BY DEF Init, Contract!CInit, Contract!Free, SlotView, RanView, HeardView, Ran

\* What a run answers, live or stored, carries a code the contract knows.
LEMMA CodeType ==
  ASSUME NEW o \in Outcomes, NEW r \in Requests
  PROVE  LiveBody(o, r).code \in Codes /\ LiveBody(o, r).run = {r}
<1>1. o.type \in {"success", "BaseException", "Error", "HttpException"}
        /\ (o.type = "HttpException" => o.status \in HttpStatuses)
  BY DEF Outcomes
<1>2. CASE o.type = "success"
  BY <1>2 DEF LiveBody, Body, Codes
<1>3. CASE o.type = "BaseException"
  BY <1>3 DEF LiveBody, Body, Codes
<1>4. CASE o.type = "Error"
  BY <1>4 DEF LiveBody, Body, Codes
<1>5. CASE o.type = "HttpException"
  BY <1>1, <1>5 DEF LiveBody, Body, Codes
<1>6. QED BY <1>1, <1>2, <1>3, <1>4, <1>5

\* Answering a client is a Tell of the contract.
LEMMA AnswerTells ==
  ASSUME RInv, NEW r \in Requests, pc[r] # "done", NEW body \in Bodies, Answer(r, body)
  PROVE  Contract!Tell(r, body.code, body.run)
<1>1. reply[r] = NoReply /\ reply' = [reply EXCEPT ![r] = body]
  BY DEF RInv, SilentInv, Answer
<1>2. body # NoReply
  BY ModelValuesAssumption
<1>3. HeardView[r] = NoReply
  BY <1>1 DEF HeardView
<1>4. HeardView' = [HeardView EXCEPT ![r] = [code |-> body.code, run |-> body.run]]
  BY <1>1, <1>2 DEF HeardView, RInv, IInv, TypeOK
<1>5. QED BY <1>3, <1>4 DEF Contract!Tell

\* A step that changes neither record nor owner of a slot leaves the view of it.
LEMMA SlotFrame ==
  ASSUME NEW k \in Slots, redis'[k] = redis[k], UNCHANGED <<call, born>>,
         life'[k] = life[k]
  PROVE  SlotView'[k] = SlotView[k]
BY DEF SlotView, Ran, SlotOf

\* A step that changes the view of one slot.
LEMMA SlotUpdate ==
  ASSUME NEW k \in Slots, NEW v, SlotView'[k] = v,
         \A j \in Slots : j # k => SlotView'[j] = SlotView[j]
  PROVE  SlotView' = [SlotView EXCEPT ![k] = v]
<1>1. SlotView = [j \in Slots |-> SlotView[j]] /\ SlotView' = [j \in Slots |-> SlotView'[j]]
  BY DEF SlotView
<1>2. QED BY <1>1

LEMMA SlotsFrame ==
  ASSUME UNCHANGED <<redis, call, born, life>>
  PROVE  UNCHANGED SlotView
BY DEF SlotView, Ran, SlotOf

\* Steps that the contract does not see.
LEMMA QuietSteps ==
  ASSUME RInv, UNCHANGED <<reply, redis, born, life>>,
         \A r \in Requests : born[r] # 0 => call'[r] = call[r],
         \A r \in Requests : outcome'[r] # outcome[r] => born[r] # 0 /\ outcome'[r] # NoOutcome
  PROVE  UNCHANGED Contract!cvars
<1>1. UNCHANGED HeardView
  BY DEF HeardView
<1>2. UNCHANGED RanView
  BY DEF RanView, Ran
<1>3. UNCHANGED SlotView
  BY DEF SlotView, Ran, SlotOf
<1>4. QED BY <1>1, <1>2, <1>3 DEF Contract!cvars

\* A refusal leaves records, locks and outcomes alone.
LEMMA RefusalStep ==
  ASSUME RInv, NEW r \in Requests, pc[r] \in {"idle", "get", "lock"},
         NEW body \in {BadRequest, InProgress, RedisFailure}, Answer(r, body),
         UNCHANGED <<redis, born, life, outcome>>,
         \A p \in Requests : born[p] # 0 => call'[p] = call[p]
  PROVE  Contract!Refuse(r)
<1>1. body \in Bodies /\ body.run = {}
      /\ body.code \in {"COMMON_BAD_REQUEST", "COMMON_INTERNAL_ERROR",
                       "IDEMPOTENCY_IN_PROGRESS"}
  <2>1. body \in Bodies
    BY RefusalType
  <2>2. CASE body = BadRequest
    BY <2>1, <2>2 DEF BadRequest, Refusal, Body
  <2>3. CASE body = InProgress
    BY <2>1, <2>3 DEF InProgress, Refusal, Body
  <2>4. CASE body = RedisFailure
    BY <2>1, <2>4 DEF RedisFailure, Body
  <2>5. QED BY <2>2, <2>3, <2>4
<1>2. Contract!Tell(r, body.code, {})
  BY <1>1, AnswerTells
<1>3. UNCHANGED SlotView
  BY DEF SlotView, Ran, SlotOf
<1>4. UNCHANGED RanView /\ r \notin RanView
  BY DEF RanView, Ran, RInv, SilentInv
<1>5. QED BY <1>1, <1>2, <1>3, <1>4 DEF Contract!Refuse

LEMMA InterceptRefines ==
  ASSUME RInv, NEW r \in Requests, NEW c \in Calls, NEW s \in Servers, Intercept(r, c, s)
  PROVE  Contract!Refuse(r) \/ UNCHANGED Contract!cvars
<1>1. born[r] = 0 /\ pc[r] = "idle"
  BY DEF Intercept, RInv, SilentInv
<1>2. \A p \in Requests : born[p] # 0 => call'[p] = call[p]
  BY <1>1 DEF Intercept, RInv, IInv, TypeOK
<1>3. UNCHANGED <<redis, born, life, outcome>>
  BY DEF Intercept, History
<1>4. CASE Answer(r, BadRequest)
  BY <1>1, <1>2, <1>3, <1>4, RefusalStep
<1>5. CASE UNCHANGED reply
  BY <1>2, <1>3, <1>5, QuietSteps
<1>6. QED BY <1>4, <1>5 DEF Intercept

LEMMA DirectRefines ==
  ASSUME RInv, NEW r \in Requests, NEW o \in Outcomes, HandleDirect(r, o)
  PROVE  Contract!Bypass(r)
<1>1. pc[r] = "direct" /\ born[r] = 0 /\ outcome[r] = NoOutcome /\ Answer(r, LiveBody(o, r))
  BY DEF HandleDirect, RInv, SilentInv
<1>2. LiveBody(o, r).code \in Codes /\ LiveBody(o, r).run = {r}
  BY CodeType
<1>3. Contract!Tell(r, LiveBody(o, r).code, {r})
  BY <1>1, <1>2, BodyType, AnswerTells
<1>4. UNCHANGED SlotView
  BY SlotsFrame DEF HandleDirect, History
<1>5. r \notin RanView
  BY <1>1 DEF RanView, Ran
<1>6. RanView' = RanView \cup {r}
  BY <1>1, ModelValuesAssumption DEF RanView, Ran, HandleDirect, History, RInv, IInv, TypeOK
<1>7. QED BY <1>2, <1>3, <1>4, <1>5, <1>6 DEF Contract!Bypass, Codes

LEMMA GetRefines ==
  ASSUME RInv, NEW r \in Requests, Get(r)
  PROVE  \/ Contract!Refuse(r) \/ UNCHANGED Contract!cvars
         \/ \E k \in Slots : Contract!Replay(r, k)
<1> DEFINE k == SlotOf(r)
<1>1. pc[r] = "get" /\ UNCHANGED <<call, redis, born, life, outcome>>
  BY DEF Get
<1>2. CASE Answer(r, BadRequest) \/ Answer(r, InProgress)
  BY <1>1, <1>2, RefusalStep
<1>3. CASE UNCHANGED reply
  BY <1>1, <1>3, QuietSteps
<1>4. CASE redis[k] # NoRecord /\ redis[k].state = "completed" /\ Answer(r, redis[k].answer)
  <2>1. k \in Slots
    BY <1>1 DEF RInv, IInv, KeyedInv
  <2>2. PICK w \in Requests : Finished(w) /\ redis[k] = Completed(w)
    BY <1>4, <2>1 DEF RInv, AnswerInv
  <2>3. redis[k].answer = Snapshot(outcome[w], w) /\ outcome[w] \in Outcomes
    BY <2>2 DEF Completed, Finished
  <2>4. redis[k].answer \in Bodies /\ redis[k].answer.code \in Codes
    BY <2>3, BodyType, CodeType, SnapshotKeepsCode
  <2>5. Contract!Tell(r, redis[k].answer.code, redis[k].answer.run)
    BY <1>1, <1>4, <2>4, AnswerTells
  <2>6. /\ SlotView[k].owner = redis[k].answer.run
        /\ SlotView[k].state = "settled" /\ SlotView[k].code = redis[k].answer.code
    BY <1>4, <2>1 DEF SlotView
  <2>8. UNCHANGED SlotView
    BY <1>1, SlotsFrame
  <2>9. UNCHANGED RanView
    BY <1>1 DEF RanView, Ran
  <2>10. r \notin RanView
    BY <1>1 DEF RanView, Ran, RInv, SilentInv
  <2>11. Contract!Replay(r, k)
    BY <2>5, <2>6, <2>8, <2>9, <2>10 DEF Contract!Replay
  <2>12. QED BY <2>1, <2>11
<1>5. QED BY <1>2, <1>3, <1>4 DEF Get

LEMMA SetPendingRefines ==
  ASSUME RInv, NEW r \in Requests, SetPending(r)
  PROVE  Contract!Refuse(r) \/ \E k \in Slots : Contract!Claim(r, k)
<1> DEFINE k == SlotOf(r)
<1>1. pc[r] = "lock" /\ UNCHANGED <<call, life, outcome>>
  BY DEF SetPending
<1>2. CASE redis[k] # NoRecord
  <2>1. Answer(r, InProgress) /\ UNCHANGED <<redis, born>>
    BY <1>2 DEF SetPending
  <2>2. QED BY <1>1, <2>1, RefusalStep
<1>3. CASE redis[k] = NoRecord
  <2>1. k \in Slots /\ Pending(r) \in Records /\ Pending(r).state = "pending"
    BY <1>1, RecordType DEF RInv, IInv, KeyedInv, Pending
  <2>2. /\ redis' = [redis EXCEPT ![k] = Pending(r)]
        /\ born' = [born EXCEPT ![r] = life[k]] /\ UNCHANGED reply
    BY <1>3 DEF SetPending
  <2>3. Pending(r) # NoRecord
    BY <2>1, ModelValuesAssumption
  <2>4. \A p \in Requests : born[p] # 0 /\ SlotOf(p) = k => born[p] # life[k]
    BY <1>3 DEF RInv, IInv, OwnedInv
  <2>5. life[k] # 0 /\ born'[r] = life[k]
    BY <2>1, <2>2 DEF RInv, IInv, TypeOK
  <2>6. {p \in Requests : Ran(p)' /\ SlotOf(p)' = k /\ born'[p] = life'[k]} = {r}
    BY <1>1, <2>2, <2>4, <2>5 DEF Ran, SlotOf, RInv, IInv, TypeOK
  <2>7. SlotView'[k] = Contract!Open({r})
    BY <2>1, <2>2, <2>3, <2>6 DEF SlotView, Contract!Open, RInv, IInv, TypeOK
  <2>8. \A j \in Slots : j # k => SlotView'[j] = SlotView[j]
    BY <1>1, <2>2 DEF SlotView, Ran, SlotOf, RInv, IInv, TypeOK, SilentInv
  <2>9. SlotView' = [SlotView EXCEPT ![k] = Contract!Open({r})]
    BY <2>1, <2>7, <2>8, SlotUpdate
  <2>10. SlotView[k] = Contract!Free
    BY <1>3, <2>1 DEF SlotView, Contract!Free
  <2>11. r \notin RanView /\ RanView' = RanView \cup {r}
    BY <1>1, <2>2, <2>5 DEF RanView, Ran, RInv, IInv, TypeOK, SilentInv
  <2>12. UNCHANGED HeardView /\ HeardView[r] = NoReply
    BY <1>1, <2>2 DEF HeardView, RInv, SilentInv
  <2>13. Contract!Claim(r, k)
    BY <2>9, <2>10, <2>11, <2>12 DEF Contract!Claim
  <2>14. QED BY <2>1, <2>13
<1>4. QED BY <1>2, <1>3

LEMMA LockReplyLostRefines ==
  ASSUME RInv, NEW r \in Requests, LockReplyLost(r)
  PROVE  Contract!Refuse(r)
<1> DEFINE k == SlotOf(r)
<1>1. /\ pc[r] = "lock" /\ redis[k] = NoRecord /\ UNCHANGED <<call, life, outcome, born>>
      /\ redis' = [redis EXCEPT ![k] = Pending(r)]
  BY DEF LockReplyLost, History
<1>2. k \in Slots /\ Pending(r) \in Records /\ Pending(r).state = "pending"
  BY <1>1, RecordType DEF RInv, IInv, KeyedInv, Pending
<1>3. Pending(r) # NoRecord
  BY <1>2, ModelValuesAssumption
<1>4. PICK body \in {RedisFailure, InProgress} : Answer(r, body)
  BY DEF LockReplyLost
<1>5. body \in Bodies /\ body.run = {}
      /\ body.code \in {"COMMON_INTERNAL_ERROR", "IDEMPOTENCY_IN_PROGRESS"}
  <2>1. CASE body = RedisFailure
    BY <2>1, RefusalType DEF RedisFailure, Body
  <2>2. CASE body = InProgress
    BY <2>2, RefusalType DEF InProgress, Refusal, Body
  <2>3. QED BY <1>4, <2>1, <2>2
<1>6. Contract!Tell(r, body.code, {})
  BY <1>1, <1>4, <1>5, AnswerTells
<1>7. {p \in Requests : Ran(p)' /\ SlotOf(p)' = k /\ born'[p] = life'[k]} = {}
  BY <1>1 DEF Ran, SlotOf, RInv, IInv, OwnedInv
<1>8. SlotView'[k] = Contract!Open({})
  BY <1>1, <1>2, <1>3, <1>7 DEF SlotView, Contract!Open, RInv, IInv, TypeOK
<1>9. \A j \in Slots : j # k => SlotView'[j] = SlotView[j]
  BY <1>1 DEF SlotView, Ran, SlotOf, RInv, IInv, TypeOK
<1>10. SlotView' = [SlotView EXCEPT ![k] = Contract!Open({})]
  BY <1>2, <1>8, <1>9, SlotUpdate
<1>11. SlotView[k] = Contract!Free
  BY <1>1, <1>2 DEF SlotView, Contract!Free
<1>12. UNCHANGED RanView /\ r \notin RanView
  BY <1>1 DEF RanView, Ran, RInv, SilentInv
<1>13. QED
  BY <1>2, <1>5, <1>6, <1>10, <1>11, <1>12 DEF Contract!Refuse

\* The SET of a run that still holds its lock settles its slot: nobody else can
\* have been born in that life, nor have completed the record.
LEMMA StoreRefines ==
  ASSUME RInv, PromptHandlers, NEW r \in Requests, Save(r) \/ SaveFails(r),
         redis' = [redis EXCEPT ![SlotOf(r)] = Completed(r)]
  PROVE  \E k \in Slots : Contract!Settle(r, k)
<1> DEFINE k == SlotOf(r)
<1>1. /\ pc[r] = "save" /\ UNCHANGED <<call, life, outcome, born, reply>>
  BY DEF Save, SaveFails, History
<1>2. /\ k \in Slots /\ born[r] # 0 /\ born[r] = life[k] /\ outcome[r] \in Outcomes
      /\ redis[k] # NoRecord /\ reply[r] = NoReply
  BY <1>1 DEF RInv, IInv, KeyedInv, WorkInv, OwnedInv, PromptInv, SilentInv
<1>3. Completed(r) \in Records /\ Completed(r) # NoRecord
  BY <1>1, <1>2, RecordType, ModelValuesAssumption DEF RInv, IInv
<1>4. redis[k].state = "pending"
  <2>1. redis[k].state \in {"pending", "completed"}
    BY <1>2 DEF RInv, IInv, TypeOK, Records
  <2>2. ASSUME redis[k].state = "completed" PROVE FALSE
    <3>1. PICK w \in Requests :
            born[w] # 0 /\ Finished(w) /\ SlotOf(w) = k /\ born[w] = life[k]
      BY <1>2, <2>2 DEF RInv, AnswerInv
    <3>2. w # r
      BY <1>1, <3>1 DEF Finished
    <3>3. QED BY <1>2, <3>1, <3>2 DEF RInv, AtMostOncePerLife, Ran
  <2>3. QED BY <2>1, <2>2
<1>5. {p \in Requests : Ran(p) /\ SlotOf(p) = k /\ born[p] = life[k]} = {r}
  BY <1>2 DEF Ran, RInv, AtMostOncePerLife
<1>6. SlotView[k] = Contract!Open({r})
  BY <1>2, <1>4, <1>5 DEF SlotView, Contract!Open
<1>7. /\ Completed(r).state = "completed"
      /\ Completed(r).answer.run = {r} /\ Completed(r).answer.code \in Codes
  BY <1>2, SnapshotKeepsCode, CodeType DEF Completed
<1>8. SlotView'[k] = Contract!Settled(r, Completed(r).answer.code)
  BY <1>2, <1>3, <1>7 DEF SlotView, Contract!Settled, RInv, IInv, TypeOK
<1>9. \A j \in Slots : j # k => SlotView'[j] = SlotView[j]
  BY <1>1 DEF SlotView, Ran, SlotOf, RInv, IInv, TypeOK
<1>10. SlotView' = [SlotView EXCEPT ![k] = Contract!Settled(r, Completed(r).answer.code)]
  BY <1>2, <1>8, <1>9, SlotUpdate
<1>11. UNCHANGED <<RanView, HeardView>> /\ HeardView[r] = NoReply
  BY <1>1, <1>2 DEF RanView, Ran, HeardView
<1>12. Contract!Settle(r, k)
  BY <1>6, <1>7, <1>10, <1>11 DEF Contract!Settle, Codes
<1>13. QED BY <1>2, <1>12

\* The reply of a run has the code it stored, if it stored one.
LEMMA RespondRefines ==
  ASSUME RInv, NEW r \in Requests, Respond(r)
  PROVE  Contract!AnswerOwn(r)
<1> DEFINE body == LiveBody(outcome[r], r)
<1>1. /\ pc[r] = "respond" /\ born[r] # 0 /\ outcome[r] \in Outcomes
      /\ Answer(r, body) /\ UNCHANGED <<call, outcome, redis, life, born>>
  BY DEF Respond, RInv, IInv, WorkInv, History
<1>2. body \in Bodies /\ body.code \in Codes /\ body.run = {r}
  BY <1>1, BodyType, CodeType
<1>3. Contract!Tell(r, body.code, {r})
  <2>1. pc[r] # "done" BY <1>1
  <2>2. Contract!Tell(r, body.code, body.run)
    BY <1>1, <1>2, <2>1, AnswerTells
  <2>3. QED BY <1>2, <2>2
<1>4. ASSUME NEW k \in Slots, SlotView[k].owner = {r}, SlotView[k].state = "settled"
      PROVE  SlotView[k].code = body.code
  <2>1. redis[k] # NoRecord /\ redis[k].state # "pending"
    BY <1>4 DEF SlotView
  <2>2. redis[k].state = "completed"
    BY <2>1 DEF RInv, IInv, TypeOK, Records
  <2>3. PICK w \in Requests : Finished(w) /\ redis[k] = Completed(w)
    BY <2>1, <2>2 DEF RInv, AnswerInv
  <2>4. redis[k].answer = Snapshot(outcome[w], w) /\ outcome[w] \in Outcomes
    BY <2>3 DEF Completed, Finished
  <2>5. SlotView[k].owner = redis[k].answer.run /\ SlotView[k].code = redis[k].answer.code
    BY <2>1 DEF SlotView
  <2>6. Snapshot(outcome[w], w).run = {w}
        /\ Snapshot(outcome[w], w).code = LiveBody(outcome[w], w).code
    BY <2>4, SnapshotKeepsCode
  <2>7. w = r
    BY <1>4, <2>4, <2>5, <2>6
  <2>8. QED BY <2>4, <2>5, <2>6, <2>7
<1>5. r \in RanView
  BY <1>1 DEF RanView, Ran
<1>6. UNCHANGED <<SlotView, RanView>>
  BY <1>1, SlotsFrame DEF RanView, Ran
<1>7. QED BY <1>2, <1>3, <1>4, <1>5, <1>6 DEF Contract!AnswerOwn, Codes

LEMMA ExpireRefines ==
  ASSUME RInv, NEW k \in Slots, Expire(k)
  PROVE  Contract!Forget(k)
<1>1. SlotView'[k] = Contract!Free
  BY DEF Expire, SlotView, Contract!Free, RInv, IInv, TypeOK
<1>2. \A j \in Slots : j # k => SlotView'[j] = SlotView[j]
  BY DEF Expire, SlotView, Ran, SlotOf, RInv, IInv, TypeOK
<1>3. SlotView' = [SlotView EXCEPT ![k] = Contract!Free]
  BY <1>1, <1>2, SlotUpdate
<1>4. UNCHANGED <<RanView, HeardView>>
  BY DEF Expire, RanView, Ran, HeardView
<1>5. QED BY <1>3, <1>4 DEF Contract!Forget

\* Every step maps to a step of the contract or to none.
LEMMA StepRefines ==
  ASSUME RInv, PromptHandlers, [Next]_vars
  PROVE  [Contract!CNext]_(Contract!cvars)
<1> USE DEF Contract!CNext
<1>1. ASSUME NEW r \in Requests, NEW c \in Calls, NEW s \in Servers, Intercept(r, c, s)
      PROVE  [Contract!CNext]_(Contract!cvars)
  BY <1>1, InterceptRefines
<1>2. ASSUME NEW r \in Requests, NEW o \in Outcomes, HandleDirect(r, o)
      PROVE  [Contract!CNext]_(Contract!cvars)
  BY <1>2, DirectRefines
<1>3. ASSUME NEW r \in Requests, Get(r)
      PROVE  [Contract!CNext]_(Contract!cvars)
  BY <1>3, GetRefines
<1>4. ASSUME NEW r \in Requests, SetPending(r)
      PROVE  [Contract!CNext]_(Contract!cvars)
  BY <1>4, SetPendingRefines
<1>5. ASSUME NEW r \in Requests, LookupFails(r)
      PROVE  [Contract!CNext]_(Contract!cvars)
  <2>1. pc[r] \in {"get", "lock"} /\ Answer(r, RedisFailure)
        /\ UNCHANGED <<redis, born, life, outcome, call>>
    BY <1>5 DEF LookupFails, History
  <2>2. Contract!Refuse(r)
    BY <2>1, RefusalStep
  <2>3. QED BY <2>2
<1>6. ASSUME NEW r \in Requests, LockReplyLost(r)
      PROVE  [Contract!CNext]_(Contract!cvars)
  BY <1>6, LockReplyLostRefines
<1>7. ASSUME NEW r \in Requests, NEW o \in Outcomes, Handle(r, o)
      PROVE  [Contract!CNext]_(Contract!cvars)
  <2>1. /\ born[r] # 0 /\ o # NoOutcome /\ outcome' = [outcome EXCEPT ![r] = o]
        /\ UNCHANGED <<reply, redis, born, life, call>>
    BY <1>7, ModelValuesAssumption DEF Handle, History, RInv, IInv, WorkInv
  <2>2. \A p \in Requests :
          outcome'[p] # outcome[p] => born[p] # 0 /\ outcome'[p] # NoOutcome
    BY <2>1 DEF RInv, IInv, TypeOK
  <2>3. QED BY <2>1, <2>2, QuietSteps
<1>8. ASSUME NEW r \in Requests, Save(r) \/ SaveFails(r)
      PROVE  [Contract!CNext]_(Contract!cvars)
  <2>1. CASE redis' = [redis EXCEPT ![SlotOf(r)] = Completed(r)]
    BY <1>8, <2>1, StoreRefines
  <2>2. CASE UNCHANGED redis
    <3>1. UNCHANGED <<reply, redis, born, life, call, outcome>>
      BY <1>8, <2>2 DEF Save, SaveFails, History
    <3>2. QED BY <3>1, QuietSteps
  <2>3. QED BY <1>8, <2>1, <2>2 DEF Save, SaveFails
<1>9. ASSUME NEW r \in Requests, Respond(r)
      PROVE  [Contract!CNext]_(Contract!cvars)
  BY <1>9, RespondRefines
<1>10. ASSUME NEW k \in Slots, Expire(k)
       PROVE  [Contract!CNext]_(Contract!cvars)
  BY <1>10, ExpireRefines
<1>11. ASSUME NEW s \in Servers, Crash(s) \/ BeginShutdown(s) \/ Exit(s) \/ Start(s)
       PROVE  [Contract!CNext]_(Contract!cvars)
  <2>1. UNCHANGED <<reply, redis, born, life, call, outcome>>
    BY <1>11 DEF Crash, BeginShutdown, Exit, Start, History
  <2>2. QED BY <2>1, QuietSteps
<1>12. CASE UNCHANGED vars
  <2>1. UNCHANGED <<reply, redis, born, life, call, outcome>>
    BY <1>12 DEF vars
  <2>2. QED BY <2>1, QuietSteps
<1>13. QED
  BY <1>1, <1>2, <1>3, <1>4, <1>5, <1>6, <1>7, <1>8, <1>9, <1>10, <1>11, <1>12
     DEF Next, Serve

\* The interceptor, over any number of servers that crash and shut down and a
\* Redis that fails, keeps the promise of the contract while no handler outlives
\* the TTL of its lock.
THEOREM Implementation == ASSUME PromptHandlers PROVE Spec => ImplementsContract
<1>1. Init => SilentInv
  BY DEF Init, SilentInv
<1>2. IInv /\ SilentInv /\ [Next]_vars => SilentInv'
  BY SilentStep
<1>3. RInv /\ [Next]_vars => [Contract!CNext]_(Contract!cvars)
  BY StepRefines
<1>4. Spec => []RInv
  BY <1>1, <1>2, Inductive, AtMostOnce, AnswersInductive, PTL DEF Spec, RInv
<1>5. QED
  BY <1>3, <1>4, InitRefines, PTL DEF Spec, ImplementsContract, Contract!CSpec
=============================================================================
