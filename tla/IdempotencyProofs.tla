------------------------- MODULE IdempotencyProofs -------------------------
(***************************************************************************)
(* Theorems about Idempotency, for any requests, servers, users, keys and  *)
(* bounds.                                                                 *)
(***************************************************************************)
EXTENDS IdempotencyProps, TLAPS

USE CallsAssumption, BoundsAssumption, ModelValuesAssumption

-----------------------------------------------------------------------------
\* Bodies and records are well formed.

\* What a filter or a snapshot makes of an outcome is a body.
LEMMA BodyType ==
  ASSUME NEW o \in Outcomes, NEW r \in Requests
  PROVE  LiveBody(o, r) \in Bodies /\ Snapshot(o, r) \in Bodies
<1>1. o.type \in {"success", "BaseException", "Error", "HttpException"}
  BY DEF Outcomes
<1>2. o.type = "HttpException" => o.status \in HttpStatuses
  BY DEF Outcomes
<1>3. CASE o.type = "success"
  BY <1>3 DEF LiveBody, Snapshot, Body, Bodies
<1>4. CASE o.type = "BaseException"
  BY <1>4 DEF LiveBody, Snapshot, Body, Bodies
<1>5. CASE o.type = "Error"
  BY <1>5 DEF LiveBody, Snapshot, Body, Bodies
<1>6. CASE o.type = "HttpException"
  BY <1>2, <1>6 DEF LiveBody, Snapshot, Body, Bodies
<1>7. QED BY <1>1, <1>3, <1>4, <1>5, <1>6

\* The snapshot has the code, and names the run, of the live answer: the filter
\* and toFailure share one status table.
LEMMA SnapshotKeepsCode ==
  ASSUME NEW o \in Outcomes, NEW r \in Requests
  PROVE  /\ Snapshot(o, r).code = LiveBody(o, r).code
         /\ Snapshot(o, r).run = {r}
<1>1. o.type \in {"success", "BaseException", "Error", "HttpException"}
  BY DEF Outcomes
<1>2. CASE o.type = "success"
  BY <1>2 DEF LiveBody, Snapshot, Body
<1>3. CASE o.type = "BaseException"
  BY <1>3 DEF LiveBody, Snapshot, Body
<1>4. CASE o.type = "Error"
  BY <1>4 DEF LiveBody, Snapshot, Body
<1>5. CASE o.type = "HttpException"
  BY <1>5 DEF LiveBody, Snapshot, Body
<1>6. QED BY <1>1, <1>2, <1>3, <1>4, <1>5

\* The answers no run produced are bodies.
LEMMA RefusalType ==
  BadRequest \in Bodies /\ InProgress \in Bodies /\ RedisFailure \in Bodies
BY DEF BadRequest, InProgress, RedisFailure, Refusal, Body, Bodies

-----------------------------------------------------------------------------
\* The inductive invariant.

\* A request that uses a key carries a call with a user and a valid key.
KeyedInv ==
  \A r \in Requests :
    pc[r] \in {"get", "lock", "handle", "save", "respond"} \/ born[r] # 0 \/ seen[r] # 0
      => /\ call[r] \in Calls /\ ~call[r].skip
         /\ SlotOf(r) \in Slots

\* A request past its lock has taken it; one past its handler has an outcome.
WorkInv ==
  \A r \in Requests :
    /\ pc[r] \in {"handle", "save", "respond"} => born[r] # 0
    /\ pc[r] \in {"save", "respond"} => outcome[r] \in Outcomes
    /\ born[r] # 0 => pc[r] \in {"handle", "save", "respond", "done", "dead"}
    /\ seen[r] # 0 => pc[r] = "done"

\* The record of the life a run was born in is there until that life ends: this
\* is what keeps a second request from taking the lock.
OwnedInv ==
  \A r \in Requests : born[r] # 0 =>
    /\ born[r] <= life[SlotOf(r)]
    /\ born[r] = life[SlotOf(r)] => redis[SlotOf(r)] # NoRecord

IInv == TypeOK /\ KeyedInv /\ WorkInv /\ OwnedInv

\* A call that does not bypass its key belongs to a slot.
LEMMA CallHasSlot ==
  ASSUME NEW c \in Calls, ~BypassesKey(c), c.key # BadKey
  PROVE  ~c.skip /\ Slot(c) \in Slots
BY DEF CallType, BypassesKey, Slot, Slots

\* The records that setPending and setCompleted write are records.
LEMMA RecordType ==
  ASSUME TypeOK, KeyedInv, NEW r \in Requests
  PROVE  /\ pc[r] = "lock" => Pending(r) \in Records
         /\ pc[r] = "save" /\ outcome[r] \in Outcomes => Completed(r) \in Records
<1>1. pc[r] \in {"lock", "save"} => call[r].method \in Methods /\ call[r].path \in Paths
  BY DEF KeyedInv, CallType
<1>2. pc[r] = "lock" => Pending(r) \in Records
  BY <1>1 DEF Pending, Records
<1>3. outcome[r] \in Outcomes => Snapshot(outcome[r], r) \in Bodies
  BY BodyType
<1>4. pc[r] = "save" /\ outcome[r] \in Outcomes => Completed(r) \in Records
  BY <1>1, <1>3 DEF Completed, Records
<1>5. QED BY <1>2, <1>4

-----------------------------------------------------------------------------
LEMMA IInvInit == Init => IInv
BY DEF Init, IInv, TypeOK, KeyedInv, WorkInv, OwnedInv, InFlight

\* Each variable keeps its type.
LEMMA TypeStep ==
  ASSUME IInv, [Next]_vars
  PROVE  TypeOK'
<1> USE DEF IInv, TypeOK, History, Go, Answer, InFlight, RedisAnswers
<1>1. ASSUME NEW r \in Requests, NEW c \in Calls, NEW s \in Servers, Intercept(r, c, s)
      PROVE  TypeOK'
  BY <1>1, RefusalType DEF Intercept
<1>2. ASSUME NEW r \in Requests, NEW o \in Outcomes, HandleDirect(r, o)
      PROVE  TypeOK'
  BY <1>2, BodyType DEF HandleDirect
<1>3. ASSUME NEW r \in Requests, Get(r)
      PROVE  TypeOK'
  <2>1. SlotOf(r) \in Slots
    BY <1>3 DEF Get, KeyedInv
  <2>2. redis[SlotOf(r)] # NoRecord => redis[SlotOf(r)].answer \in Bodies \cup {NoReply}
    BY <2>1 DEF Records
  <2>3. reply' \in [Requests -> Bodies \cup {NoReply}]
    BY <1>3, <2>2, RefusalType DEF Get
  <2>4. pc' \in [Requests -> InFlight \cup {"idle", "done", "dead"}]
    BY <1>3 DEF Get
  <2>5. seen' \in [Requests -> 0..MaxLife]
    BY <1>3, <2>1 DEF Get
  <2>6. QED BY <1>3, <2>3, <2>4, <2>5 DEF Get
<1>4. ASSUME NEW r \in Requests, SetPending(r)
      PROVE  TypeOK'
  <2>1. SlotOf(r) \in Slots /\ Pending(r) \in Records
    BY <1>4, RecordType DEF SetPending, KeyedInv
  <2>2. QED BY <1>4, <2>1, RefusalType DEF SetPending
<1>5. ASSUME NEW r \in Requests, LookupFails(r)
      PROVE  TypeOK'
  BY <1>5, RefusalType DEF LookupFails, RedisRejects
<1>6. ASSUME NEW r \in Requests, LockReplyLost(r)
      PROVE  TypeOK'
  <2>1. SlotOf(r) \in Slots /\ Pending(r) \in Records
    BY <1>6, RecordType DEF LockReplyLost, KeyedInv
  <2>2. QED BY <1>6, <2>1, RefusalType DEF LockReplyLost
<1>7. ASSUME NEW r \in Requests, NEW o \in Outcomes, Handle(r, o)
      PROVE  TypeOK'
  BY <1>7 DEF Handle
<1>8. ASSUME NEW r \in Requests, Save(r)
      PROVE  TypeOK'
  <2>1. SlotOf(r) \in Slots /\ Completed(r) \in Records
    BY <1>8, RecordType DEF Save, KeyedInv, WorkInv
  <2>2. QED BY <1>8, <2>1 DEF Save
<1>9. ASSUME NEW r \in Requests, SaveFails(r)
      PROVE  TypeOK'
  <2>1. SlotOf(r) \in Slots /\ Completed(r) \in Records
    BY <1>9, RecordType DEF SaveFails, KeyedInv, WorkInv
  <2>2. QED BY <1>9, <2>1 DEF SaveFails, RedisRejects
<1>10. ASSUME NEW r \in Requests, Respond(r)
       PROVE  TypeOK'
  <2>1. LiveBody(outcome[r], r) \in Bodies
    BY <1>10, BodyType DEF Respond, WorkInv
  <2>2. QED BY <1>10, <2>1 DEF Respond
<1>11. ASSUME NEW k \in Slots, Expire(k)
       PROVE  TypeOK'
  BY <1>11 DEF Expire
<1>12. ASSUME NEW s \in Servers, Crash(s)
       PROVE  TypeOK'
  BY <1>12 DEF Crash
<1>13. ASSUME NEW s \in Servers, BeginShutdown(s) \/ Exit(s) \/ Start(s)
       PROVE  TypeOK'
  BY <1>13 DEF BeginShutdown, Exit, Start
<1>14. CASE UNCHANGED vars
  BY <1>14 DEF vars
<1>15. QED
  BY <1>1, <1>2, <1>3, <1>4, <1>5, <1>6, <1>7, <1>8, <1>9, <1>10, <1>11, <1>12,
     <1>13, <1>14 DEF Next, Serve

\* Requests keep their calls, their locks and their outcomes.
LEMMA WorkStep ==
  ASSUME IInv, [Next]_vars
  PROVE  KeyedInv' /\ WorkInv'
<1> USE DEF IInv, TypeOK, KeyedInv, WorkInv, History, Go, Answer, SlotOf, RedisAnswers
<1>1. ASSUME NEW r \in Requests, NEW c \in Calls, NEW s \in Servers, Intercept(r, c, s)
      PROVE  KeyedInv' /\ WorkInv'
  <2>1. born[r] = 0 /\ seen[r] = 0
    BY <1>1 DEF Intercept
  <2>2. QED BY <1>1, <2>1, CallHasSlot DEF Intercept
<1>2. ASSUME NEW r \in Requests, NEW o \in Outcomes, HandleDirect(r, o)
      PROVE  KeyedInv' /\ WorkInv'
  BY <1>2 DEF HandleDirect
<1>3. ASSUME NEW r \in Requests, Get(r)
      PROVE  KeyedInv' /\ WorkInv'
  BY <1>3 DEF Get
<1>4. ASSUME NEW r \in Requests, SetPending(r)
      PROVE  KeyedInv' /\ WorkInv'
  BY <1>4 DEF SetPending
<1>5. ASSUME NEW r \in Requests, LookupFails(r)
      PROVE  KeyedInv' /\ WorkInv'
  BY <1>5 DEF LookupFails, RedisRejects
<1>6. ASSUME NEW r \in Requests, LockReplyLost(r)
      PROVE  KeyedInv' /\ WorkInv'
  BY <1>6 DEF LockReplyLost
<1>7. ASSUME NEW r \in Requests, NEW o \in Outcomes, Handle(r, o)
      PROVE  KeyedInv' /\ WorkInv'
  BY <1>7 DEF Handle
<1>8. ASSUME NEW r \in Requests, Save(r) \/ SaveFails(r)
      PROVE  KeyedInv' /\ WorkInv'
  BY <1>8 DEF Save, SaveFails
<1>9. ASSUME NEW r \in Requests, Respond(r)
      PROVE  KeyedInv' /\ WorkInv'
  BY <1>9 DEF Respond
<1>10. ASSUME NEW k \in Slots, Expire(k)
       PROVE  KeyedInv' /\ WorkInv'
  BY <1>10 DEF Expire
<1>11. ASSUME NEW s \in Servers, Crash(s)
       PROVE  KeyedInv' /\ WorkInv'
  BY <1>11 DEF Crash, ServedBy, InFlight
<1>12. ASSUME NEW s \in Servers, BeginShutdown(s) \/ Exit(s) \/ Start(s)
       PROVE  KeyedInv' /\ WorkInv'
  BY <1>12 DEF BeginShutdown, Exit, Start
<1>13. CASE UNCHANGED vars
  BY <1>13 DEF vars
<1>14. QED
  BY <1>1, <1>2, <1>3, <1>4, <1>5, <1>6, <1>7, <1>8, <1>9, <1>10, <1>11, <1>12,
     <1>13 DEF Next, Serve

\* The record of a life outlives every run born in it.
LEMMA OwnedStep ==
  ASSUME IInv, [Next]_vars
  PROVE  OwnedInv'
<1> USE DEF IInv, TypeOK, KeyedInv, WorkInv, OwnedInv, History, Go, Answer, SlotOf,
            RedisAnswers
<1>1. ASSUME NEW r \in Requests, NEW c \in Calls, NEW s \in Servers, Intercept(r, c, s)
      PROVE  OwnedInv'
  <2>1. born[r] = 0
    BY <1>1 DEF Intercept
  <2>2. QED BY <1>1, <2>1 DEF Intercept
<1>2. ASSUME NEW r \in Requests, NEW o \in Outcomes, HandleDirect(r, o)
      PROVE  OwnedInv'
  BY <1>2 DEF HandleDirect
<1>3. ASSUME NEW r \in Requests, Get(r)
      PROVE  OwnedInv'
  BY <1>3 DEF Get
<1>4. ASSUME NEW r \in Requests, SetPending(r)
      PROVE  OwnedInv'
  <2>1. Pending(r) # NoRecord
    BY <1>4, RecordType DEF SetPending
  <2>2. QED BY <1>4, <2>1 DEF SetPending
<1>5. ASSUME NEW r \in Requests, LookupFails(r)
      PROVE  OwnedInv'
  BY <1>5 DEF LookupFails
<1>6. ASSUME NEW r \in Requests, LockReplyLost(r)
      PROVE  OwnedInv'
  <2>1. Pending(r) # NoRecord
    BY <1>6, RecordType DEF LockReplyLost
  <2>2. QED BY <1>6, <2>1 DEF LockReplyLost
<1>7. ASSUME NEW r \in Requests, NEW o \in Outcomes, Handle(r, o)
      PROVE  OwnedInv'
  BY <1>7 DEF Handle
<1>8. ASSUME NEW r \in Requests, Save(r) \/ SaveFails(r)
      PROVE  OwnedInv'
  <2>1. Completed(r) # NoRecord
    BY <1>8, RecordType DEF Save, SaveFails
  <2>2. QED BY <1>8, <2>1 DEF Save, SaveFails
<1>9. ASSUME NEW r \in Requests, Respond(r)
      PROVE  OwnedInv'
  BY <1>9 DEF Respond
<1>10. ASSUME NEW k \in Slots, Expire(k)
       PROVE  OwnedInv'
  BY <1>10 DEF Expire
<1>11. ASSUME NEW s \in Servers, Crash(s)
       PROVE  OwnedInv'
  BY <1>11 DEF Crash
<1>12. ASSUME NEW s \in Servers, BeginShutdown(s) \/ Exit(s) \/ Start(s)
       PROVE  OwnedInv'
  BY <1>12 DEF BeginShutdown, Exit, Start
<1>13. CASE UNCHANGED vars
  BY <1>13 DEF vars
<1>14. QED
  BY <1>1, <1>2, <1>3, <1>4, <1>5, <1>6, <1>7, <1>8, <1>9, <1>10, <1>11, <1>12,
     <1>13 DEF Next, Serve

-----------------------------------------------------------------------------
\* At most one run for each life of a key, as an invariant of its own.
LEMMA OnceStep ==
  ASSUME IInv, AtMostOncePerLife, [Next]_vars
  PROVE  AtMostOncePerLife'
<1> USE DEF IInv, TypeOK, KeyedInv, WorkInv, OwnedInv, AtMostOncePerLife, Ran,
            History, Go, Answer, SlotOf, RedisAnswers
<1>1. ASSUME NEW r \in Requests, NEW c \in Calls, NEW s \in Servers, Intercept(r, c, s)
      PROVE  AtMostOncePerLife'
  <2>1. born[r] = 0
    BY <1>1 DEF Intercept
  <2>2. QED BY <1>1, <2>1 DEF Intercept
<1>2. ASSUME NEW r \in Requests, SetPending(r)
      PROVE  AtMostOncePerLife'
  <2>1. CASE redis[SlotOf(r)] # NoRecord
    BY <1>2, <2>1 DEF SetPending
  <2>2. CASE redis[SlotOf(r)] = NoRecord
    <3>1. \A p \in Requests : born[p] # 0 /\ born[p] = life[SlotOf(r)] =>
            SlotOf(p) # SlotOf(r)
      BY <2>2
    <3>2. call' = call /\ born' = [born EXCEPT ![r] = life[SlotOf(r)]]
      BY <1>2, <2>2 DEF SetPending
    <3>3. QED BY <3>1, <3>2
  <2>3. QED BY <2>1, <2>2
<1>3. ASSUME UNCHANGED <<born, call>>
      PROVE  AtMostOncePerLife'
  BY <1>3
<1>4. QED
  BY <1>1, <1>2, <1>3 DEF Next, Serve, HandleDirect, Get, LookupFails, LockReplyLost,
     Handle, Save, SaveFails, Respond, Expire, Crash, BeginShutdown, Exit, Start, vars

-----------------------------------------------------------------------------
\* The inductive invariant holds.
THEOREM Inductive == Spec => []IInv
<1>1. Init => IInv
  BY IInvInit
<1>2. IInv /\ [Next]_vars => IInv'
  BY TypeStep, WorkStep, OwnedStep DEF IInv
<1>3. QED BY <1>1, <1>2, PTL DEF Spec

\* Every variable keeps its type, for any requests, users, keys and bounds.
THEOREM TypeCorrect == Spec => []TypeOK
BY Inductive, PTL DEF IInv

\* While Redis remembers a key, at most one request with it enters its handler.
\* Nothing is assumed of how long handlers take, of crashes or of Redis failures.
THEOREM AtMostOnce == Spec => []AtMostOncePerLife
<1>1. Init => AtMostOncePerLife
  BY DEF Init, AtMostOncePerLife, Ran
<1>2. IInv /\ AtMostOncePerLife /\ [Next]_vars => AtMostOncePerLife'
  BY OnceStep
<1>3. QED BY <1>1, <1>2, Inductive, PTL DEF Spec

-----------------------------------------------------------------------------
\* What is stored and what is replayed.

Finished(r) == pc[r] \in {"respond", "done", "dead"} /\ outcome[r] \in Outcomes

\* With prompt handlers a run in progress is of the current life of its slot.
PromptInv ==
  PromptHandlers =>
    \A r \in Requests :
      pc[r] \in {"handle", "save"} => born[r] = life[SlotOf(r)]

\* A completed record was written by a run of its slot, of its own life if
\* handlers are prompt.
AnswerInv ==
  \A k \in Slots : redis[k] # NoRecord /\ redis[k].state = "completed" =>
    \E r \in Requests :
      /\ born[r] # 0 /\ Finished(r) /\ SlotOf(r) = k /\ redis[k] = Completed(r)
      /\ PromptHandlers => born[r] = life[k]

\* A replay is the snapshot such a run stored.
ReplayInv ==
  \A p \in Requests : seen[p] # 0 =>
    \E r \in Requests :
      /\ born[r] # 0 /\ Finished(r) /\ SameCall(r, p)
      /\ reply[p] = Snapshot(outcome[r], r)
      /\ PromptHandlers => born[r] = seen[p]

\* A finished run is never touched again, nor is the answer of a replay.
LEMMA FinishedFrame ==
  ASSUME IInv, [Next]_vars, NEW r \in Requests
  PROVE  /\ born[r] # 0 /\ Finished(r) =>
              Finished(r)' /\ call'[r] = call[r] /\ outcome'[r] = outcome[r]
                /\ born'[r] = born[r]
         /\ seen[r] # 0 => call'[r] = call[r] /\ reply'[r] = reply[r]
                            /\ seen'[r] = seen[r]
<1> USE DEF IInv, TypeOK, WorkInv, Finished, History, Go, Answer, InFlight
<1>1. ASSUME NEW p \in Requests, NEW c \in Calls, NEW s \in Servers, Intercept(p, c, s),
             born[r] # 0 \/ seen[r] # 0
      PROVE  p # r
  BY <1>1 DEF Intercept
<1>2. ASSUME NEW p \in Requests, NEW c \in Calls, NEW s \in Servers, Intercept(p, c, s)
      PROVE  born[r] # 0 \/ seen[r] # 0 =>
               pc'[r] = pc[r] /\ call'[r] = call[r] /\ outcome'[r] = outcome[r]
                /\ born'[r] = born[r] /\ seen'[r] = seen[r] /\ reply'[r] = reply[r]
  BY <1>1, <1>2 DEF Intercept
<1>3. ASSUME NEW p \in Requests, Serve(p)
      PROVE  /\ call' = call
             /\ born[r] # 0 /\ Finished(r) =>
                  Finished(r)' /\ outcome'[r] = outcome[r] /\ born'[r] = born[r]
             /\ seen[r] # 0 => reply'[r] = reply[r] /\ seen'[r] = seen[r]
  BY <1>3 DEF Serve, HandleDirect, Get, SetPending, LookupFails, LockReplyLost,
     Handle, Save, SaveFails, Respond
<1>4. ASSUME NEW s \in Servers, Crash(s)
      PROVE  /\ UNCHANGED <<call, outcome, born, seen, reply>>
             /\ Finished(r) => Finished(r)'
  BY <1>4 DEF Crash
<1>5. ASSUME UNCHANGED <<pc, call, outcome, born, seen, reply>>
      PROVE  Finished(r) => Finished(r)'
  BY <1>5
<1>6. QED
  BY <1>2, <1>3, <1>4, <1>5 DEF Next, Expire, BeginShutdown, Exit, Start, vars

LEMMA PromptStep ==
  ASSUME IInv, PromptInv, [Next]_vars
  PROVE  PromptInv'
<1> USE DEF IInv, TypeOK, KeyedInv, WorkInv, PromptInv, History, Go, Answer, SlotOf
<1> SUFFICES ASSUME PromptHandlers PROVE PromptInv'
  OBVIOUS
<1>1. ASSUME NEW r \in Requests, NEW c \in Calls, NEW s \in Servers, Intercept(r, c, s)
      PROVE  PromptInv'
  BY <1>1 DEF Intercept
<1>2. ASSUME NEW r \in Requests, Serve(r)
      PROVE  PromptInv'
  BY <1>2 DEF Serve, HandleDirect, Get, SetPending, LookupFails, LockReplyLost,
     Handle, Save, SaveFails, Respond
<1>3. ASSUME NEW k \in Slots, Expire(k)
      PROVE  PromptInv'
  BY <1>3 DEF Expire, HoldsLock
<1>4. ASSUME NEW s \in Servers, Crash(s)
      PROVE  PromptInv'
  BY <1>4 DEF Crash
<1>5. ASSUME UNCHANGED <<pc, call, born, life>>
      PROVE  PromptInv'
  BY <1>5
<1>6. QED
  BY <1>1, <1>2, <1>3, <1>4, <1>5 DEF Next, BeginShutdown, Exit, Start, vars

\* A record that a step leaves alone keeps its author.
LEMMA AuthorFrame ==
  ASSUME IInv, AnswerInv, [Next]_vars,
         NEW k \in Slots, redis'[k] = redis[k], life'[k] = life[k],
         redis'[k] # NoRecord, redis'[k].state = "completed"
  PROVE  \E r \in Requests :
           /\ born'[r] # 0 /\ Finished(r)' /\ SlotOf(r)' = k
           /\ redis'[k] = Completed(r)'
           /\ PromptHandlers => born'[r] = life'[k]
<1>1. PICK r \in Requests :
        /\ born[r] # 0 /\ Finished(r) /\ SlotOf(r) = k /\ redis[k] = Completed(r)
        /\ PromptHandlers => born[r] = life[k]
  BY DEF AnswerInv
<1>2. /\ Finished(r)' /\ call'[r] = call[r] /\ outcome'[r] = outcome[r]
      /\ born'[r] = born[r]
  BY <1>1, FinishedFrame
<1>3. SlotOf(r)' = k /\ Completed(r)' = Completed(r)
  BY <1>1, <1>2 DEF SlotOf, Completed
<1>4. QED BY <1>1, <1>2, <1>3

LEMMA AnswerStep ==
  ASSUME IInv, PromptInv, AnswerInv, [Next]_vars
  PROVE  AnswerInv'
<1> SUFFICES ASSUME NEW k \in Slots, redis'[k] # NoRecord, redis'[k].state = "completed"
             PROVE  \E r \in Requests :
                      /\ born'[r] # 0 /\ Finished(r)' /\ SlotOf(r)' = k
                      /\ redis'[k] = Completed(r)'
                      /\ PromptHandlers => born'[r] = life'[k]
  BY DEF AnswerInv
<1>1. CASE redis'[k] = redis[k] /\ life'[k] = life[k]
  BY <1>1, AuthorFrame
<1>2. ASSUME NEW r \in Requests, SetPending(r) \/ LockReplyLost(r)
      PROVE  redis'[k] = redis[k] /\ life'[k] = life[k]
  BY <1>2 DEF SetPending, LockReplyLost, IInv, TypeOK, History, Pending
<1>3. ASSUME NEW r \in Requests, Save(r) \/ SaveFails(r), SlotOf(r) = k,
             redis'[k] # redis[k]
      PROVE  /\ born'[r] # 0 /\ Finished(r)' /\ SlotOf(r)' = k
             /\ redis'[k] = Completed(r)'
             /\ PromptHandlers => born'[r] = life'[k]
  <2>1. redis'[k] = Completed(r) /\ pc'[r] = "respond"
    BY <1>3 DEF Save, SaveFails, Go, IInv, TypeOK
  <2>2. pc[r] = "save" /\ UNCHANGED <<call, outcome, born, life>>
    BY <1>3 DEF Save, SaveFails, History
  <2>3. Completed(r)' = Completed(r) /\ SlotOf(r)' = k
    BY <1>3, <2>2 DEF Completed, SlotOf
  <2>4. QED
    BY <1>3, <2>1, <2>2, <2>3 DEF IInv, WorkInv, PromptInv, Finished
<1>4. ASSUME NEW r \in Requests, Save(r) \/ SaveFails(r), SlotOf(r) # k
      PROVE  redis'[k] = redis[k] /\ life'[k] = life[k]
  BY <1>4 DEF Save, SaveFails, IInv, TypeOK, History
<1>5. ASSUME NEW r \in Requests, Save(r) \/ SaveFails(r), redis'[k] = redis[k]
      PROVE  life'[k] = life[k]
  BY <1>5 DEF Save, SaveFails, History
<1>6. ASSUME NEW j \in Slots, Expire(j)
      PROVE  redis'[k] = redis[k] /\ life'[k] = life[k]
  BY <1>6 DEF Expire, IInv, TypeOK
<1>7. ASSUME UNCHANGED <<redis, life>>
      PROVE  redis'[k] = redis[k] /\ life'[k] = life[k]
  BY <1>7
<1>8. QED
  BY <1>1, <1>2, <1>3, <1>4, <1>5, <1>6, <1>7 DEF Next, Serve, Intercept, HandleDirect,
     Get, LookupFails, Handle, Respond, Crash, BeginShutdown, Exit, Start, vars, History

\* The replay that a step gives, and the ones given before, have their run.
LEMMA ReplayStep ==
  ASSUME IInv, AnswerInv, ReplayInv, [Next]_vars
  PROVE  ReplayInv'
<1> DEFINE Source(r, p) ==
      /\ born[r] # 0 /\ Finished(r) /\ SameCall(r, p)
      /\ reply[p] = Snapshot(outcome[r], r)
      /\ PromptHandlers => born[r] = seen[p]
<1> SUFFICES ASSUME NEW p \in Requests, seen'[p] # 0
             PROVE  \E r \in Requests : Source(r, p)'
  BY DEF ReplayInv
<1>1. CASE seen[p] # 0
  <2>1. PICK r \in Requests : Source(r, p)
    BY <1>1 DEF ReplayInv
  <2>2. /\ Finished(r)' /\ call'[r] = call[r] /\ outcome'[r] = outcome[r]
        /\ born'[r] = born[r]
    BY <2>1, FinishedFrame
  <2>3. call'[p] = call[p] /\ reply'[p] = reply[p] /\ seen'[p] = seen[p]
    BY <1>1, FinishedFrame
  <2>4. Source(r, p)'
    BY <2>1, <2>2, <2>3 DEF SameCall
  <2>5. QED BY <2>4
<1>2. CASE seen[p] = 0
  <2>1. seen' # seen
    BY <1>2
  <2>2. PICK q \in Requests : Get(q)
    BY <2>1 DEF Next, Serve, Intercept, HandleDirect, SetPending, LookupFails,
       LockReplyLost, Handle, Save, SaveFails, Respond, Expire, Crash, BeginShutdown,
       Exit, Start, vars, History
  <2>3. p = q
    BY <1>2, <2>2 DEF Get, IInv, TypeOK
  <2> DEFINE k == SlotOf(p)
  <2>4. /\ redis[k] # NoRecord /\ redis[k].state = "completed"
        /\ ~Conflicts(redis[k], call[p])
        /\ Answer(p, redis[k].answer) /\ seen' = [seen EXCEPT ![p] = life[k]]
    BY <1>2, <2>2, <2>3 DEF Get
  <2>5. pc[p] = "get" /\ UNCHANGED <<call, outcome, born, life, redis>>
    BY <2>2, <2>3 DEF Get
  <2>6. k \in Slots
    BY <2>5 DEF IInv, KeyedInv
  <2>7. PICK r \in Requests :
          /\ born[r] # 0 /\ Finished(r) /\ SlotOf(r) = k /\ redis[k] = Completed(r)
          /\ PromptHandlers => born[r] = life[k]
    BY <2>4, <2>6 DEF AnswerInv
  <2>8. /\ Finished(r)' /\ call'[r] = call[r] /\ outcome'[r] = outcome[r]
        /\ born'[r] = born[r]
    BY <2>7, FinishedFrame
  <2>9. SameCall(r, p)
    <3>1. call[r] \in CallType /\ call[p] \in CallType /\ ~call[r].skip /\ ~call[p].skip
      BY <2>5, <2>7 DEF IInv, KeyedInv
    <3>2. call[r].user = call[p].user /\ call[r].key = call[p].key
      BY <2>7 DEF SlotOf, Slot
    <3>3. call[r].method = call[p].method /\ call[r].path = call[p].path
      BY <2>4, <2>7 DEF Conflicts, Completed
    <3>4. QED BY <3>1, <3>2, <3>3 DEF SameCall, CallType
  <2>10. reply'[p] = Snapshot(outcome[r], r) /\ seen'[p] = life[k]
    BY <2>4, <2>7 DEF Answer, Completed, IInv, TypeOK
  <2>11. Source(r, p)'
    BY <2>5, <2>7, <2>8, <2>9, <2>10 DEF SameCall
  <2>12. QED BY <2>11
<1>3. QED BY <1>1, <1>2

\* The three hold together with the inductive invariant.
THEOREM AnswersInductive == Spec => [](PromptInv /\ AnswerInv /\ ReplayInv)
<1>1. Init => PromptInv /\ AnswerInv /\ ReplayInv
  BY DEF Init, PromptInv, AnswerInv, ReplayInv
<1>2. IInv /\ PromptInv /\ AnswerInv /\ ReplayInv /\ [Next]_vars
        => PromptInv' /\ AnswerInv' /\ ReplayInv'
  BY PromptStep, AnswerStep, ReplayStep
<1>3. QED BY <1>1, <1>2, Inductive, PTL DEF Spec

\* A replay is the answer of a run of the same user, key and endpoint, even when
\* handlers outlive their locks.
THEOREM ReplaysAreReal == Spec => []ReplayHasARun
<1>1. IInv /\ ReplayInv => ReplayHasARun
  <2> SUFFICES ASSUME ReplayInv, NEW p \in Requests, seen[p] # 0
               PROVE  \E r \in Requests :
                        /\ Ran(r) /\ SameCall(r, p) /\ outcome[r] # NoOutcome
                        /\ reply[p].run = {r}
                        /\ reply[p].code = LiveBody(outcome[r], r).code
    BY DEF ReplayHasARun
  <2>1. PICK r \in Requests :
          /\ born[r] # 0 /\ Finished(r) /\ SameCall(r, p)
          /\ reply[p] = Snapshot(outcome[r], r)
    BY DEF ReplayInv
  <2>2. outcome[r] \in Outcomes
    BY <2>1 DEF Finished
  <2>3. QED BY <2>1, <2>2, SnapshotKeepsCode DEF Ran
<1>2. QED BY <1>1, Inductive, AnswersInductive, PTL

\* With handlers that end within the TTL, all the answers given for a key before
\* it expires come from the one run of that life, with the code it answered.
THEOREM ReplaysAgree == ASSUME PromptHandlers PROVE Spec => []ReplaysTheRunOfItsLife
<1>1. IInv /\ ReplayInv => ReplaysTheRunOfItsLife
  <2> SUFFICES ASSUME ReplayInv, NEW p \in Requests, seen[p] # 0
               PROVE  \E r \in Requests :
                        /\ born[r] = seen[p] /\ SameCall(r, p) /\ outcome[r] # NoOutcome
                        /\ reply[p].run = {r}
                        /\ reply[p].code = LiveBody(outcome[r], r).code
    BY DEF ReplaysTheRunOfItsLife
  <2>1. PICK r \in Requests :
          /\ born[r] = seen[p] /\ Finished(r) /\ SameCall(r, p)
          /\ reply[p] = Snapshot(outcome[r], r)
    BY DEF ReplayInv
  <2>2. outcome[r] \in Outcomes
    BY <2>1 DEF Finished
  <2>3. QED BY <2>1, <2>2, SnapshotKeepsCode
<1>2. QED BY <1>1, Inductive, AnswersInductive, PTL

\* A completed record is never overwritten: the late SET of another run cannot
\* meet it, because that run would share its life.
THEOREM CompletedStays == ASSUME PromptHandlers PROVE Spec => CompletedIsFinal
<1>1. ASSUME IInv, PromptInv, AnswerInv, AtMostOncePerLife, [Next]_vars,
             NEW k \in Slots, redis[k] # NoRecord, redis[k].state = "completed"
      PROVE  redis'[k] \in {redis[k], NoRecord}
  <2>1. PICK w \in Requests :
          born[w] # 0 /\ Finished(w) /\ SlotOf(w) = k /\ born[w] = life[k]
    BY <1>1 DEF AnswerInv
  <2>2. ASSUME NEW r \in Requests, Save(r) \/ SaveFails(r)
        PROVE  SlotOf(r) # k
    <3>1. pc[r] = "save" /\ born[r] # 0 /\ born[r] = life[SlotOf(r)]
      BY <1>1, <2>2 DEF Save, SaveFails, IInv, WorkInv, PromptInv
    <3>2. r # w
      BY <2>1, <3>1 DEF Finished
    <3>3. QED BY <1>1, <2>1, <3>1, <3>2 DEF AtMostOncePerLife, Ran
  <2>3. ASSUME NEW r \in Requests, Save(r) \/ SaveFails(r)
        PROVE  redis'[k] = redis[k]
    BY <1>1, <2>2, <2>3 DEF Save, SaveFails, IInv, TypeOK
  <2>4. ASSUME NEW r \in Requests, SetPending(r) \/ LockReplyLost(r)
        PROVE  redis'[k] = redis[k]
    BY <1>1, <2>4 DEF SetPending, LockReplyLost, IInv, TypeOK
  <2>5. ASSUME NEW j \in Slots, Expire(j)
        PROVE  redis'[k] \in {redis[k], NoRecord}
    BY <1>1, <2>5 DEF Expire, IInv, TypeOK
  <2>6. QED
    BY <1>1, <2>3, <2>4, <2>5 DEF Next, Serve, Intercept, HandleDirect, Get,
       LookupFails, Handle, Respond, Crash, BeginShutdown, Exit, Start, vars
<1>2. IInv /\ PromptInv /\ AnswerInv /\ AtMostOncePerLife /\ [Next]_vars
        => [\A k \in Slots : redis[k] # NoRecord /\ redis[k].state = "completed" =>
             redis'[k] \in {redis[k], NoRecord}]_vars
  BY <1>1
<1>3. QED
  BY <1>2, Inductive, AnswersInductive, AtMostOnce, PTL DEF Spec, CompletedIsFinal

-----------------------------------------------------------------------------
\* As long as nothing has failed.

UpInv ==
  /\ faults = 0 => \A s \in Servers : up[s] = "up"
  /\ \A r \in Requests : pc[r] # "idle" => server[r] \in Servers

\* What a run answers, or is about to, is the record of its life.
StoredInv ==
  faults = 0 =>
    \A r \in Requests :
      /\ pc[r] \in {"respond", "done"} /\ Ran(r) /\ born[r] = life[SlotOf(r)]
      => redis[SlotOf(r)] = Completed(r)

LEMMA UpStep ==
  ASSUME IInv, UpInv, [Next]_vars
  PROVE  UpInv' /\ (faults' = 0 => faults = 0)
<1> USE DEF IInv, TypeOK, UpInv, History, RedisAnswers, RedisRejects, Go, Answer
<1>1. ASSUME NEW r \in Requests, NEW c \in Calls, NEW s \in Servers, Intercept(r, c, s)
      PROVE  UpInv' /\ faults' = faults
  BY <1>1 DEF Intercept
<1>2. ASSUME NEW r \in Requests, Serve(r)
      PROVE  /\ UNCHANGED <<up, server>> /\ faults' \in {faults, faults + 1}
             /\ pc[r] # "idle" /\ \A q \in Requests \ {r} : pc'[q] = pc[q]
  BY <1>2 DEF Serve, HandleDirect, Get, SetPending, LookupFails, LockReplyLost, Handle,
     Save, SaveFails, Respond
<1>3. ASSUME NEW s \in Servers, Crash(s) \/ BeginShutdown(s)
      PROVE  UpInv' /\ faults' = faults + 1
  BY <1>3 DEF Crash, BeginShutdown, ServedBy, InFlight
<1>4. ASSUME NEW s \in Servers, Exit(s) \/ Start(s)
      PROVE  UpInv' /\ faults' = faults
  BY <1>4 DEF Exit, Start
<1>5. ASSUME UNCHANGED <<up, faults, pc, server>>
      PROVE  UpInv' /\ faults' = faults
  BY <1>5
<1>6. QED
  BY <1>1, <1>2, <1>3, <1>4, <1>5 DEF Next, Expire, vars

\* Without a fault every SET of an answer succeeds.
LEMMA NoSaveFails ==
  ASSUME IInv, UpInv, NEW r \in Requests, SaveFails(r)
  PROVE  faults' # 0
BY DEF SaveFails, RedisRejects, UpInv, IInv, TypeOK

\* Without a fault only a SET NX that is answered makes a record pending, and its
\* request holds the lock until it replaces the record.
LEMMA PendingStep ==
  ASSUME IInv, UpInv, PendingIsOwned, [Next]_vars
  PROVE  PendingIsOwned'
<1> USE DEF IInv, TypeOK, KeyedInv, HoldsLock, History, Go, Answer, RedisAnswers
<1> SUFFICES ASSUME faults' = 0, NEW k \in Slots,
                    redis'[k] # NoRecord, redis'[k].state = "pending"
             PROVE  \E r \in Requests : HoldsLock(r, k)'
  BY DEF PendingIsOwned
<1>1. CASE redis'[k] = redis[k] /\ life'[k] = life[k]
  <2>1. PICK r \in Requests : HoldsLock(r, k)
    BY <1>1, UpStep DEF PendingIsOwned
  <2>2. ASSUME NEW q \in Requests, NEW c \in Calls, NEW s \in Servers, Intercept(q, c, s)
        PROVE  HoldsLock(r, k)'
    BY <1>1, <2>1, <2>2 DEF Intercept, SlotOf
  <2>3. ASSUME NEW q \in Requests, Serve(q), q # r
        PROVE  HoldsLock(r, k)'
    BY <1>1, <2>1, <2>3 DEF Serve, HandleDirect, Get, SetPending, LookupFails,
       LockReplyLost, Handle, Save, SaveFails, Respond, SlotOf
  <2>4. ASSUME Serve(r)
        PROVE  HoldsLock(r, k)'
    <3>1. Handle(r, outcome'[r]) \/ Save(r)
      BY <2>1, <2>4, NoSaveFails DEF Serve, HandleDirect, Get, SetPending, LookupFails,
         LockReplyLost, Handle, SaveFails, Respond
    <3>2. CASE Handle(r, outcome'[r])
      BY <1>1, <2>1, <3>2 DEF Handle, SlotOf
    <3>3. CASE Save(r)
      BY <1>1, <2>1, <3>3 DEF Save, SlotOf, Completed
    <3>4. QED BY <3>1, <3>2, <3>3
  <2>5. ASSUME NEW s \in Servers, Crash(s)
        PROVE  faults' # 0
    BY <2>5 DEF Crash
  <2>6. ASSUME UNCHANGED <<pc, call, born>>
        PROVE  HoldsLock(r, k)'
    BY <1>1, <2>1, <2>6 DEF SlotOf
  <2>7. QED
    BY <2>2, <2>3, <2>4, <2>5, <2>6 DEF Next, Expire, BeginShutdown, Exit, Start, vars
<1>2. ASSUME NEW r \in Requests, SetPending(r), redis'[k] # redis[k]
      PROVE  HoldsLock(r, k)'
  BY <1>2 DEF SetPending, SlotOf
<1>3. ASSUME NEW r \in Requests, LockReplyLost(r)
      PROVE  faults' # 0
  BY <1>3 DEF LockReplyLost
<1>4. ASSUME NEW r \in Requests, Save(r)
      PROVE  redis'[k] = redis[k] /\ life'[k] = life[k]
  BY <1>4 DEF Save, Completed
<1>5. ASSUME NEW j \in Slots, Expire(j)
      PROVE  redis'[k] = redis[k] /\ life'[k] = life[k]
  BY <1>5 DEF Expire
<1>6. ASSUME NEW r \in Requests, SetPending(r)
      PROVE  life' = life
  BY <1>6 DEF SetPending
<1>7. QED
  BY <1>1, <1>2, <1>3, <1>4, <1>5, <1>6, NoSaveFails DEF Next, Serve, Intercept,
     HandleDirect, Get, LookupFails, Handle, Respond, Crash, BeginShutdown, Exit, Start,
     vars

\* As long as nothing fails, no key is locked by nobody: also when handlers throw,
\* and even when they outlive their locks.
THEOREM LocksAreHeld == Spec => []PendingIsOwned
<1>1. Init => UpInv /\ PendingIsOwned
  BY DEF Init, UpInv, PendingIsOwned
<1>2. IInv /\ UpInv /\ PendingIsOwned /\ [Next]_vars => UpInv' /\ PendingIsOwned'
  BY UpStep, PendingStep
<1>3. QED BY <1>1, <1>2, Inductive, PTL DEF Spec

LEMMA AnsweredFrame ==
  ASSUME IInv, [Next]_vars, NEW r \in Requests, pc[r] \in {"respond", "done"}
  PROVE  call'[r] = call[r] /\ outcome'[r] = outcome[r] /\ born'[r] = born[r]
<1> USE DEF IInv, TypeOK, History, Go, Answer
<1>1. ASSUME NEW q \in Requests, NEW c \in Calls, NEW s \in Servers, Intercept(q, c, s)
      PROVE  call'[r] = call[r] /\ UNCHANGED <<outcome, born>>
  BY <1>1 DEF Intercept
<1>2. ASSUME NEW q \in Requests, Serve(q)
      PROVE  call' = call /\ outcome'[r] = outcome[r] /\ born'[r] = born[r]
  BY <1>2 DEF Serve, HandleDirect, Get, SetPending, LookupFails, LockReplyLost, Handle,
     Save, SaveFails, Respond
<1>3. QED
  BY <1>1, <1>2 DEF Next, Expire, Crash, BeginShutdown, Exit, Start, vars

\* The answer of a run stays stored through its life: nobody else is born in that
\* life, and prompt handlers of other lives are done.
LEMMA StoredStep ==
  ASSUME PromptHandlers, IInv, PromptInv, AtMostOncePerLife, UpInv, StoredInv, [Next]_vars
  PROVE  StoredInv'
<1> USE DEF IInv, TypeOK, KeyedInv, WorkInv, OwnedInv, Ran, History, Go, Answer,
            RedisAnswers
<1> SUFFICES ASSUME faults' = 0, NEW r \in Requests, pc'[r] \in {"respond", "done"},
                    Ran(r)', born'[r] = life'[SlotOf(r)']
             PROVE  redis'[SlotOf(r)'] = Completed(r)'
  BY DEF StoredInv
<1>1. faults = 0
  BY UpStep
<1>2. CASE pc[r] \in {"respond", "done"} /\ Ran(r)
  <2> DEFINE k == SlotOf(r)
  <2>1. /\ call'[r] = call[r] /\ outcome'[r] = outcome[r] /\ born'[r] = born[r]
    BY <1>2, AnsweredFrame
  <2>2. SlotOf(r)' = k /\ Completed(r)' = Completed(r) /\ k \in Slots
    BY <1>2, <2>1 DEF SlotOf, Completed
  <2>3. CASE redis'[k] = redis[k] /\ life'[k] = life[k]
    BY <1>1, <1>2, <2>1, <2>2, <2>3 DEF StoredInv
  <2>4. ASSUME NEW q \in Requests, SetPending(q)
        PROVE  redis'[k] = redis[k] /\ life'[k] = life[k]
    BY <1>2, <2>1, <2>2, <2>4 DEF SetPending
  <2>5. ASSUME NEW q \in Requests, LockReplyLost(q)
        PROVE  faults' # 0
    BY <2>5 DEF LockReplyLost
  <2>6. ASSUME NEW q \in Requests, Save(q)
        PROVE  redis'[k] = redis[k] /\ life'[k] = life[k]
    <3>1. born[q] # 0 /\ born[q] = life[SlotOf(q)] /\ q # r /\ life' = life
      BY <1>2, <2>6 DEF Save, PromptInv
    <3>2. SlotOf(q) # k
      BY <1>2, <2>1, <2>2, <3>1 DEF AtMostOncePerLife
    <3>3. QED BY <2>6, <3>1, <3>2 DEF Save
  <2>7. ASSUME NEW j \in Slots, Expire(j)
        PROVE  redis'[k] = redis[k] /\ life'[k] = life[k]
    <3>1. born[r] <= life[k] /\ born[r] = life'[k]
      BY <1>2, <2>1, <2>2
    <3>2. j # k
      BY <2>2, <2>7, <3>1 DEF Expire
    <3>3. QED BY <2>2, <2>7, <3>2 DEF Expire
  <2>8. QED
    BY <2>3, <2>4, <2>5, <2>6, <2>7, NoSaveFails DEF Next, Serve, Intercept,
       HandleDirect, Get, LookupFails, Handle, Respond, Crash, BeginShutdown, Exit,
       Start, vars
<1>3. CASE ~(pc[r] \in {"respond", "done"} /\ Ran(r))
  <2>1. ASSUME Serve(r)
        PROVE  Save(r)
    BY <1>1, <1>3, <2>1, NoSaveFails DEF Serve, HandleDirect, Get, SetPending,
       LookupFails, LockReplyLost, Handle, SaveFails, Respond
  <2>2. ASSUME NEW q \in Requests, q # r, Serve(q)
        PROVE  pc'[r] = pc[r] /\ born'[r] = born[r]
    BY <2>2 DEF Serve, HandleDirect, Get, SetPending, LookupFails, LockReplyLost, Handle,
       Save, SaveFails, Respond
  <2>3. ASSUME NEW q \in Requests, NEW c \in Calls, NEW s \in Servers, Intercept(q, c, s)
        PROVE  FALSE
    BY <1>3, <2>3 DEF Intercept
  <2>4. ASSUME NEW s \in Servers, Crash(s)
        PROVE  faults' # 0
    BY <2>4 DEF Crash
  <2>5. Save(r)
    BY <1>3, <2>1, <2>2, <2>3, <2>4 DEF Next, Expire, BeginShutdown, Exit, Start, vars
  <2>6. QED BY <2>5 DEF Save, SlotOf, Completed
<1>4. QED BY <1>2, <1>3

\* With handlers that end within the TTL, and as long as nothing fails, an answer
\* is stored before its client hears it, and for as long as its key lives.
THEOREM AnswersAreStored == ASSUME PromptHandlers PROVE Spec => []AnsweredIsStored
<1>1. Init => UpInv /\ StoredInv
  BY DEF Init, UpInv, StoredInv
<1>2. IInv /\ PromptInv /\ AtMostOncePerLife /\ UpInv /\ StoredInv /\ [Next]_vars
        => UpInv' /\ StoredInv'
  BY UpStep, StoredStep
<1>3. StoredInv => AnsweredIsStored
  BY DEF StoredInv, AnsweredIsStored
<1>4. QED
  BY <1>1, <1>2, <1>3, Inductive, AnswersInductive, AtMostOnce, PTL DEF Spec
=============================================================================
