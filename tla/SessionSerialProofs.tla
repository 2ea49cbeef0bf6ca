------------------------ MODULE SessionSerialProofs ------------------------
(***************************************************************************)
(* When the requests of a user do not overlap, or without the query cache, *)
(* a replaced refresh token is dead and the one in the row works.  In any  *)
(* case Session implements SessionContract.                                *)
(***************************************************************************)
EXTENDS SessionProofs

USE ParametersAssumption, ValuesAssumption, ModelValuesAssumption

\* Without the cache it is never asked and holds nothing.
UncachedInv ==
  ~CacheEnabled =>
    /\ \A r \in Requests : pc[r] \notin {"get", "set"}
    /\ \A u \in Users : cache[u] = Empty

\* What asks for a rotation had a token to rotate.
RotateInv ==
  \A r \in Requests :
    pc[r] \in {"remove", "update", "respond"} /\ call[r].op = "refresh" =>
      call[r].refresh \in stored

\* Requests in flight touch different users.
ApartInv ==
  \A q, r \in Requests :
    q # r /\ pc[q] \in InFlight /\ pc[r] \in InFlight =>
      Touches(call[q]) \cap Touches(call[r]) = {}

\* A reader about to fill the cache holds the row; a writer about to change the
\* row has emptied the entry.
CarriedInv ==
  \A r \in Requests :
    /\ pc[r] = "set" => got[r] = db[Subject(r)].refreshToken
    /\ pc[r] = "update" => cache[uid[r]] = Empty

\* A token that was not in the row when its request came never returns to it: the
\* row only takes new tokens.
GoneInv ==
  \A r \in Requests :
    pc[r] # "idle" /\ call[r].op \in TokenOp /\ call[r].refresh # BadToken /\ ~current[r] =>
      db[uid[r]].refreshToken # call[r].refresh

\* Who was answered is done.
RepliedInv == \A r \in Requests : reply[r] # NoReply => pc[r] = "done"

-----------------------------------------------------------------------------
LEMMA UncachedStep ==
  ASSUME IInv, UncachedInv, [Next]_vars
  PROVE  UncachedInv'
<1> SUFFICES ASSUME ~CacheEnabled
             PROVE  /\ \A q \in Requests : pc'[q] \notin {"get", "set"}
                    /\ \A u \in Users : cache'[u] = Empty
  BY DEF UncachedInv
<1> USE DEF TypeOK, Go, Answer, Continue, FirstRead, Rotate
<1> TypeOK /\ UncachedInv BY DEF IInv
<1>1. ASSUME NEW r \in Requests, pc' = [pc EXCEPT ![r] = pc'[r]], pc'[r] \notin {"get", "set"}
      PROVE  \A q \in Requests : pc'[q] \notin {"get", "set"}
  BY <1>1 DEF UncachedInv
<1>2. ASSUME NEW r \in Requests, NEW c \in Calls, Arrive(r, c)
      PROVE  UncachedInv'
  <2>1. pc' = [pc EXCEPT ![r] = pc'[r]] /\ pc'[r] \notin {"get", "set"} /\ cache' = cache
    BY <1>2 DEF Arrive, AskAccount, AskToken
  <2>2. QED BY <1>1, <2>1 DEF UncachedInv
<1>3. ASSUME NEW r \in Requests, Serve(r) \/ Crash(r)
      PROVE  UncachedInv'
  <2>1. /\ pc' = [pc EXCEPT ![r] = pc'[r]] /\ pc'[r] \notin {"get", "set"}
        /\ \A u \in Users : cache'[u] = Empty
    <3>1. CASE IsExist(r) \/ Insert(r) \/ Find(r) \/ StatementFails(r) \/ Respond(r) \/ Crash(r)
      BY <3>1 DEF IsExist, Insert, Find, StatementFails, Respond, Crash, UncachedInv, AfterInsert
    <3>2. CASE CacheGet(r) \/ CacheSet(r)
      BY <3>2 DEF CacheGet, CacheSet, UncachedInv
    <3>3. CASE Read(r)
      BY <3>3 DEF Read, Verify, UncachedInv
    <3>4. CASE ReadFails(r)
      BY <3>4, SubjectHasRow DEF ReadFails, UncachedInv
    <3>5. CASE Remove(r) \/ RemoveFails(r) \/ Update(r) \/ UpdateFails(r)
      BY <3>5 DEF Remove, RemoveFails, Update, UpdateFails, UncachedInv
    <3>6. QED BY <1>3, <3>1, <3>2, <3>3, <3>4, <3>5 DEF Serve
  <2>2. QED BY <1>1, <2>1 DEF UncachedInv
<1>4. ASSUME NEW u \in Users, Expire(u)
      PROVE  UncachedInv'
  BY <1>4 DEF Expire, UncachedInv
<1>5. CASE UNCHANGED vars
  BY <1>5 DEF vars, UncachedInv
<1>6. QED BY <1>2, <1>3, <1>4, <1>5 DEF Next, UncachedInv

LEMMA RotateStep ==
  ASSUME IInv, RotateInv, [Next]_vars
  PROVE  RotateInv'
<1> SUFFICES ASSUME NEW q \in Requests, pc'[q] \in {"remove", "update", "respond"},
                    call'[q].op = "refresh"
             PROVE  call'[q].refresh \in stored'
  BY DEF RotateInv
<1> USE DEF TypeOK, Go, Answer, Continue, InFlight, FirstRead, Rotate
<1> TypeOK BY DEF IInv
<1>1. CASE pc[q] \in {"remove", "update", "respond"}
  BY <1>1, Frame DEF RotateInv
<1>2. CASE pc[q] \notin {"remove", "update", "respond"}
  <2>1. Serve(q) \/ Crash(q) \/ \E c \in Calls : Arrive(q, c)
    BY <1>2, OneMoves DEF Next, Arrive, AskAccount, AskToken, Expire, vars
  <2>2. ~(\E c \in Calls : Arrive(q, c)) /\ ~Crash(q)
    BY DEF Arrive, AskAccount, AskToken, Crash
  <2>3. call'[q] = call[q] /\ stored \subseteq stored' /\ pc[q] \in InFlight
    BY <2>1, <2>2, Frame, OneMoves
  <2>4. CASE IsExist(q) \/ Insert(q) \/ Find(q) \/ StatementFails(q)
    <3>1. call[q].op # "refresh"
      BY <2>4 DEF IsExist, Insert, Find, StatementFails, IInv, PlaceInv
    <3>2. QED BY <2>3, <3>1
  <2>5. ASSUME NEW v, Verify(q, v), pc[q] \in {"get", "read", "set"}
        PROVE  call[q].refresh \in stored
    <3>1. phase[q] = "refresh"
      BY <2>3, <2>5 DEF IInv, PlaceInv
    <3>2. QED BY <2>5, <3>1 DEF IInv, PlaceInv
  <2>6. CASE CacheGet(q) \/ Read(q) \/ ReadFails(q) \/ CacheSet(q)
    <3>1. \E v : Verify(q, v)
      BY <2>6 DEF CacheGet, Read, ReadFails, CacheSet
    <3>2. pc[q] \in {"get", "read", "set"}
      BY <2>6 DEF CacheGet, Read, ReadFails, CacheSet
    <3>3. QED BY <2>3, <2>5, <3>1, <3>2
  <2>7. CASE Remove(q) \/ RemoveFails(q) \/ Update(q) \/ UpdateFails(q) \/ Respond(q)
    BY <1>2, <2>7 DEF Remove, RemoveFails, Update, UpdateFails, Respond
  <2>8. QED BY <2>1, <2>2, <2>4, <2>6, <2>7 DEF Serve
<1>3. QED BY <1>1, <1>2

LEMMA RepliedStep ==
  ASSUME IInv, RepliedInv, [Next]_vars
  PROVE  RepliedInv'
<1> USE DEF TypeOK, Go, Answer, Continue, InFlight, FirstRead, Rotate
<1> TypeOK BY DEF IInv
<1>1. ASSUME NEW r \in Requests, NEW c \in Calls, Arrive(r, c)
      PROVE  RepliedInv'
  BY <1>1 DEF Arrive, AskAccount, AskToken, RepliedInv
<1>2. ASSUME NEW r \in Requests, Serve(r) \/ Crash(r)
      PROVE  RepliedInv'
  <2>1. reply'[r] # NoReply => pc'[r] = "done"
    <3>1. pc[r] \in InFlight
      BY <1>2, OneMoves
    <3>2. reply[r] = NoReply
      BY <3>1 DEF RepliedInv
    <3>3. CASE IsExist(r) \/ Insert(r) \/ Find(r) \/ StatementFails(r) \/ Respond(r) \/ Crash(r)
      BY <3>2, <3>3 DEF IsExist, Insert, Find, StatementFails, Respond, Crash
    <3>4. CASE CacheGet(r) \/ Read(r) \/ ReadFails(r) \/ CacheSet(r)
      BY <3>2, <3>4 DEF CacheGet, Read, ReadFails, CacheSet, Verify
    <3>5. CASE Remove(r) \/ RemoveFails(r) \/ Update(r) \/ UpdateFails(r)
      BY <3>2, <3>5 DEF Remove, RemoveFails, Update, UpdateFails
    <3>6. QED BY <1>2, <3>3, <3>4, <3>5 DEF Serve
  <2>2. QED BY <1>2, <2>1, OneMoves DEF RepliedInv
<1>3. ASSUME NEW u \in Users, Expire(u)
      PROVE  RepliedInv'
  BY <1>3 DEF Expire, RepliedInv
<1>4. CASE UNCHANGED vars
  BY <1>4 DEF vars, RepliedInv
<1>5. QED BY <1>1, <1>2, <1>3, <1>4 DEF Next

-----------------------------------------------------------------------------
\* Tokens that were replaced.

\* A token that has left the row never comes back.
LEMMA GoneForGood ==
  ASSUME IInv, [Next]_vars, NEW q \in Requests, pc[q] # "idle", call[q].op \in TokenOp,
         call[q].refresh # BadToken, db[uid[q]].refreshToken # call[q].refresh
  PROVE  db'[uid'[q]].refreshToken # call'[q].refresh
<1> USE DEF TypeOK
<1> TypeOK BY DEF IInv
<1>1. /\ call'[q] = call[q] /\ uid'[q] = uid[q]
      /\ call[q].refresh \in stored /\ uid[q] \in Users /\ db[uid[q]] # NoRow
  BY Frame DEF IInv, CalledInv, StoredInv
<1>2. ASSUME db' = db \/ \E u \in Users : db[u] = NoRow /\ \E row : db' = [db EXCEPT ![u] = row]
      PROVE  db'[uid'[q]].refreshToken # call'[q].refresh
  BY <1>1, <1>2
<1>3. ASSUME NEW r \in Requests, Insert(r) \/ StatementFails(r)
      PROVE  db'[uid'[q]].refreshToken # call'[q].refresh
  <2>1. pc[r] = "insert" => uid[r] \in Users
    BY DEF IInv, CalledInv, PlaceInv, AccountOp
  <2>2. QED BY <1>2, <1>3, <2>1 DEF Insert, StatementFails
<1>4. ASSUME NEW r \in Requests, Update(r) \/ UpdateFails(r)
      PROVE  db'[uid'[q]].refreshToken # call'[q].refresh
  <2>1. r \notin stored /\ uid[r] \in Users /\ db[uid[r]] \in Rows
    BY <1>4 DEF Update, UpdateFails, IInv, PlaceInv
  <2>2. CASE db' = db
    BY <1>2, <2>2
  <2>3. CASE db' = [db EXCEPT ![uid[r]].refreshToken = r]
    BY <1>1, <2>1, <2>3 DEF Rows
  <2>4. QED BY <1>4, <2>2, <2>3 DEF Update, UpdateFails
<1>5. ASSUME NEW r \in Requests, NEW c \in Calls, Arrive(r, c)
      PROVE  db' = db
  BY <1>5 DEF Arrive
<1>6. ASSUME NEW r \in Requests,
             \/ IsExist(r) \/ Find(r) \/ CacheGet(r) \/ Read(r) \/ ReadFails(r) \/ CacheSet(r)
             \/ Remove(r) \/ RemoveFails(r) \/ Respond(r) \/ Crash(r)
      PROVE  db' = db
  BY <1>6 DEF IsExist, Find, CacheGet, Read, ReadFails, CacheSet, Remove, RemoveFails,
              Respond, Crash
<1>7. ASSUME NEW u \in Users, Expire(u)
      PROVE  db' = db
  BY <1>7 DEF Expire
<1>8. CASE UNCHANGED vars
  BY <1>2, <1>8 DEF vars
<1>9. QED BY <1>2, <1>3, <1>4, <1>5, <1>6, <1>7, <1>8 DEF Next, Serve

LEMMA GoneStep ==
  ASSUME IInv, GoneInv, [Next]_vars
  PROVE  GoneInv'
<1> SUFFICES ASSUME NEW q \in Requests, pc'[q] # "idle", call'[q].op \in TokenOp,
                    call'[q].refresh # BadToken, ~current'[q]
             PROVE  db'[uid'[q]].refreshToken # call'[q].refresh
  BY DEF GoneInv
<1>1. CASE pc[q] # "idle"
  <2>1. call'[q] = call[q] /\ current'[q] = current[q]
    BY <1>1, Frame
  <2>2. QED BY <1>1, <2>1, GoneForGood DEF GoneInv
<1>2. CASE pc[q] = "idle"
  <2>1. PICK c \in Calls : Arrive(q, c)
    BY <1>2, OneMoves DEF Next, vars, Arrive, AskAccount, AskToken, Expire, Go, Answer,
         Continue, InFlight, TypeOK, IInv
  <2>2. call'[q] = c /\ db' = db
    BY <2>1 DEF Arrive, IInv, TypeOK
  <2>3. AskToken(q, c)
    BY <2>1, <2>2 DEF Arrive, AskAccount, TokenOp
  <2>4. uid'[q] = uid[c.refresh] /\ current'[q] = (db[uid[c.refresh]].refreshToken = c.refresh)
    BY <2>2, <2>3 DEF AskToken, IInv, TypeOK
  <2>5. QED BY <2>2, <2>4
<1>3. QED BY <1>1, <1>2

-----------------------------------------------------------------------------
\* Requests that do not overlap keep the cache equal to the row.

\* The tokens of a call that names no user are stored ones.
StoredTokens(c) ==
  c.user # NoUser \/ (c.access \in stored \cup {BadToken} /\ c.refresh \in stored \cup {BadToken})

LEMMA TouchesItsCall ==
  ASSUME IInv, NEW q \in Requests, pc[q] # "idle"
  PROVE  StoredTokens(call[q])
<1>1. call[q] \in CallType
  BY DEF IInv, CalledInv
<1>2. call[q].op \in AccountOp \/ call[q].op \in TokenOp
  BY <1>1 DEF CallType, Operations, AccountOp, TokenOp
<1>3. CASE call[q].op \in AccountOp
  BY <1>3 DEF IInv, CalledInv, StoredTokens
<1>4. CASE call[q].op \in TokenOp
  BY <1>4 DEF IInv, CalledInv, StoredTokens
<1>5. QED BY <1>2, <1>3, <1>4

LEMMA ApartStep ==
  ASSUME ~Overlap, IInv, ApartInv, [Next]_vars
  PROVE  ApartInv'
<1> USE DEF TypeOK
<1> TypeOK BY DEF IInv
<1>1. ASSUME NEW q \in Requests, pc[q] # "idle"
      PROVE  Touches(call[q])' = Touches(call[q])
  <2>1. call'[q] = call[q] /\ \A t \in stored : uid'[t] = uid[t]
    BY <1>1, Frame DEF IInv, PlaceInv
  <2>2. StoredTokens(call[q])
    BY <1>1, TouchesItsCall
  <2>3. CASE call[q].user # NoUser
    BY <2>1, <2>3 DEF Touches
  <2>4. CASE call[q].user = NoUser
    <3> DEFINE T == {call[q].access, call[q].refresh} \ {BadToken}
    <3>1. \A t \in T : uid'[t] = uid[t]
      BY <2>1, <2>2, <2>4 DEF StoredTokens
    <3>2. Touches(call[q]) = {uid[t] : t \in T}
      BY <2>4 DEF Touches
    <3>3. Touches(call[q])' = {uid'[t] : t \in T}
      BY <2>1, <2>4 DEF Touches
    <3>4. QED BY <3>1, <3>2, <3>3
  <2>5. QED BY <2>3, <2>4
<1>2. ASSUME NEW q \in Requests, pc[q] # "idle", pc'[q] \in InFlight
      PROVE  pc[q] \in InFlight
  BY <1>2, OneMoves DEF Next, vars, Arrive, AskAccount, AskToken, Expire, Go, Answer,
     Continue, InFlight, IInv
<1>3. ASSUME NEW q \in Requests, pc[q] = "idle", pc'[q] # "idle", NEW r \in Requests \ {q},
             pc'[r] \in InFlight
      PROVE  Touches(call[q])' \cap Touches(call[r])' = {}
  <2>1. PICK c \in Calls : Arrive(q, c)
    BY <1>3, OneMoves DEF Next, vars, Arrive, AskAccount, AskToken, Expire, Go, Answer,
         Continue, InFlight, IInv
  <2>2. call'[q] = c /\ pc'[r] = pc[r] /\ Alone(c)
    BY <2>1 DEF Arrive, AskAccount, AskToken, Go, Answer, Continue
  <2>3. Touches(c) \cap Touches(call[r]) = {} /\ pc[r] # "idle"
    BY <1>3, <2>2 DEF Alone, InFlight
  <2>4. Touches(call[r])' = Touches(call[r])
    BY <1>1, <2>3
  <2>5. StoredTokens(c)
    <3>1. c \in CallType
      BY CallFacts DEF IInv
    <3>2. c.op \in AccountOp \/ c.op \in TokenOp
      BY <3>1 DEF CallType, Operations, AccountOp, TokenOp
    <3>3. CASE c.op \in AccountOp
      BY <3>3, CallFacts DEF IInv, StoredTokens
    <3>4. CASE c.op \in TokenOp
      BY <3>4, CallFacts DEF IInv, StoredTokens
    <3>5. QED BY <3>2, <3>3, <3>4
  <2>6. \A t \in stored : uid'[t] = uid[t]
    BY Frame DEF IInv, PlaceInv
  <2>7. Touches(call[q])' = Touches(c)
    <3>1. CASE c.user # NoUser
      BY <2>2, <3>1 DEF Touches
    <3>2. CASE c.user = NoUser
      <4> DEFINE T == {c.access, c.refresh} \ {BadToken}
      <4>1. \A t \in T : uid'[t] = uid[t]
        BY <2>5, <2>6, <3>2 DEF StoredTokens
      <4>2. Touches(c) = {uid[t] : t \in T}
        BY <3>2 DEF Touches
      <4>3. Touches(call[q])' = {uid'[t] : t \in T}
        BY <2>2, <3>2 DEF Touches
      <4>4. QED BY <4>1, <4>2, <4>3
    <3>3. QED BY <3>1, <3>2
  <2>8. QED BY <2>3, <2>4, <2>7
<1>4. SUFFICES ASSUME NEW q \in Requests, NEW r \in Requests, q # r,
                      pc'[q] \in InFlight, pc'[r] \in InFlight
               PROVE  Touches(call[q])' \cap Touches(call[r])' = {}
  BY DEF ApartInv
<1>5. pc'[q] # "idle" /\ pc'[r] # "idle"
  BY <1>4 DEF InFlight
<1>6. CASE pc[q] # "idle" /\ pc[r] # "idle"
  BY <1>1, <1>2, <1>4, <1>6 DEF ApartInv
<1>7. CASE pc[q] = "idle"
  BY <1>3, <1>4, <1>5, <1>7
<1>8. CASE pc[r] = "idle"
  BY <1>3, <1>4, <1>5, <1>8
<1>9. QED BY <1>6, <1>7, <1>8

\* The user whose row or entry a request is about to read or write.
Using(r) == IF pc[r] \in {"get", "read", "set"} THEN Subject(r) ELSE uid[r]
AtUse == {"get", "read", "set", "insert", "remove", "update"}

LEMMA UsesApart ==
  ASSUME IInv, RotateInv, ApartInv, NEW q \in Requests, NEW r \in Requests, q # r,
         pc[q] \in AtUse, pc[r] \in AtUse
  PROVE  Using(q) # Using(r)
<1>1. ASSUME NEW p \in Requests, pc[p] \in AtUse
      PROVE  Using(p) \in Touches(call[p])
  <2>1. call[p] \in CallType /\ call[p].op \in AccountOp \cup TokenOp
    BY <1>1 DEF IInv, CalledInv, CallType, Operations, AccountOp, TokenOp, AtUse
  <2>2. CASE call[p].op \in AccountOp
    BY <1>1, <2>2 DEF IInv, CalledInv, PlaceInv, AtUse, Using, Touches, AccountOp, TokenOp
  <2>3. CASE call[p].op \in TokenOp /\ pc[p] \in {"get", "read", "set"}
    BY <2>3 DEF IInv, TypeOK, CalledInv, PlaceInv, Using, Subject, Touches
  <2>4. CASE call[p].op \in TokenOp /\ pc[p] \notin {"get", "read", "set"}
    <3>1. pc[p] \in {"remove", "update"} /\ call[p].op = "refresh"
      BY <1>1, <2>4 DEF IInv, PlaceInv, AtUse, TokenOp
    <3>2. call[p].refresh \in stored /\ call[p].refresh # BadToken
      BY <3>1 DEF RotateInv, IInv, TypeOK
    <3>3. call[p].user = NoUser /\ uid[p] = uid[call[p].refresh]
      BY <2>4, <3>1, <3>2 DEF IInv, CalledInv
    <3>4. QED BY <3>1, <3>2, <3>3 DEF Using, Touches
  <2>5. QED BY <2>1, <2>2, <2>3, <2>4
<1>2. pc[q] \in InFlight /\ pc[r] \in InFlight
  BY DEF AtUse, InFlight
<1>3. QED BY <1>1, <1>2 DEF ApartInv

FreshInv == CarriedInv /\ CacheIsCurrent

LEMMA FreshStep ==
  ASSUME IInv, UncachedInv, RotateInv, ApartInv, FreshInv, [Next]_vars
  PROVE  FreshInv'
<1> USE DEF TypeOK
<1> TypeOK /\ CacheIsCurrent BY DEF IInv, FreshInv
<1>1. ASSUME db' = db, \A u \in Users : cache'[u] \in {cache[u], Empty}
      PROVE  CacheIsCurrent'
  BY <1>1 DEF CacheIsCurrent
<1>2. ASSUME NEW r \in Requests, Serve(r) \/ Crash(r),
             \A q \in Requests \ {r} :
               /\ pc[q] = "set" => db'[Subject(q)].refreshToken = db[Subject(q)].refreshToken
               /\ pc[q] = "update" => cache'[uid[q]] \in {cache[uid[q]], Empty},
             pc'[r] = "set" => got'[r] = db'[Subject(r)'].refreshToken,
             pc'[r] = "update" => cache'[uid'[r]] = Empty
      PROVE  CarriedInv'
  <2> SUFFICES ASSUME NEW q \in Requests, q # r
               PROVE  /\ pc'[q] = "set" => got'[q] = db'[Subject(q)'].refreshToken
                      /\ pc'[q] = "update" => cache'[uid'[q]] = Empty
    BY <1>2 DEF CarriedInv
  <2>1. pc'[q] = pc[q] /\ got'[q] = got[q] /\ phase'[q] = phase[q]
    BY <1>2, OneMoves
  <2>2. pc[q] = "set" => Subject(q)' = Subject(q)
    BY <2>1, Steady
  <2>3. pc[q] = "update" => uid'[q] = uid[q]
    BY Frame
  <2>4. /\ pc[q] = "set" => got[q] = db[Subject(q)].refreshToken
        /\ pc[q] = "update" => cache[uid[q]] = Empty
    BY DEF FreshInv, CarriedInv
  <2>5. QED BY <1>2, <2>1, <2>2, <2>3, <2>4
<1> USE DEF Go, Answer, Continue
<1>3. ASSUME NEW r \in Requests, NEW c \in Calls, Arrive(r, c)
      PROVE  FreshInv'
  <2>1. db' = db /\ cache' = cache
    BY <1>3 DEF Arrive
  <2>2. pc'[r] \notin {"set", "update"}
    BY <1>3 DEF Arrive, AskAccount, AskToken, FirstRead
  <2>3. \A q \in Requests \ {r} :
          pc'[q] = pc[q] /\ got'[q] = got[q] /\ phase'[q] = phase[q] /\ uid'[q] = uid[q]
    BY <1>3 DEF Arrive, AskAccount, AskToken
  <2>4. \A q \in Requests \ {r} : pc[q] = "set" => Subject(q)' = Subject(q)
    BY <2>3, Steady
  <2>5. CarriedInv'
    BY <2>1, <2>2, <2>3, <2>4 DEF FreshInv, CarriedInv
  <2>6. QED BY <1>1, <2>1, <2>5 DEF FreshInv
<1>4. ASSUME NEW r \in Requests, IsExist(r) \/ Find(r) \/ Respond(r) \/ Crash(r)
      PROVE  FreshInv'
  <2>1. db' = db /\ cache' = cache /\ pc'[r] # "set" /\ uid' = uid
    BY <1>4 DEF IsExist, Find, Respond, Crash, Rotate
  <2>2. pc'[r] = "update" => ~CacheEnabled /\ uid[r] \in Users
    BY <1>4 DEF IsExist, Find, Respond, Crash, Rotate, IInv, CalledInv, PlaceInv, AccountOp
  <2>3. pc'[r] = "update" => cache'[uid'[r]] = Empty
    BY <2>1, <2>2 DEF UncachedInv
  <2>4. Serve(r) \/ Crash(r)
    BY <1>4 DEF Serve
  <2>5. CarriedInv'
    BY <1>2, <2>1, <2>3, <2>4
  <2>6. QED BY <1>1, <2>1, <2>5 DEF FreshInv
<1>5. ASSUME NEW r \in Requests, Insert(r) \/ StatementFails(r)
      PROVE  FreshInv'
  <2>1. cache' = cache /\ pc'[r] # "set" /\ uid' = uid /\ (pc[r] = "insert" => uid[r] \in Users)
    BY <1>5 DEF Insert, StatementFails, AfterInsert, Rotate, IInv, CalledInv, PlaceInv, AccountOp
  <2>2. pc'[r] = "update" => ~CacheEnabled /\ uid[r] \in Users
    BY <1>5, <2>1 DEF Insert, StatementFails, AfterInsert, Rotate
  <2>3. pc'[r] = "update" => cache'[uid'[r]] = Empty
    BY <2>1, <2>2 DEF UncachedInv
  <2>4. \A u \in Users : db[u] # NoRow => db'[u] = db[u]
    BY <1>5, <2>1 DEF Insert, StatementFails
  <2>5. \A q \in Requests \ {r} :
          pc[q] = "set" => db'[Subject(q)].refreshToken = db[Subject(q)].refreshToken
    BY <2>4, SubjectHasRow
  <2>6. Serve(r)
    BY <1>5 DEF Serve
  <2>7. CarriedInv'
    BY <1>2, <2>1, <2>3, <2>5, <2>6
  <2>8. CacheIsCurrent'
    BY <2>1, <2>4 DEF CacheIsCurrent
  <2>9. QED BY <2>7, <2>8 DEF FreshInv
<1>6. ASSUME NEW r \in Requests, CacheGet(r) \/ ReadFails(r)
      PROVE  FreshInv'
  <2>1. /\ db' = db /\ uid' = uid /\ pc'[r] # "set"
        /\ \A u \in Users : cache'[u] \in {cache[u], Empty}
    BY <1>6, SubjectHasRow DEF CacheGet, ReadFails, Verify, FirstRead, Rotate
  <2>2. pc'[r] # "update"
    BY <1>6 DEF CacheGet, ReadFails, Verify, FirstRead, Rotate, UncachedInv
  <2>3. \A q \in Requests \ {r} : pc[q] = "update" => cache'[uid[q]] \in {cache[uid[q]], Empty}
    BY <2>1 DEF IInv, PlaceInv
  <2>4. Serve(r)
    BY <1>6 DEF Serve
  <2>5. CarriedInv'
    BY <1>2, <2>1, <2>2, <2>3, <2>4
  <2>6. QED BY <1>1, <2>1, <2>5 DEF FreshInv
<1>7. ASSUME NEW r \in Requests, Read(r)
      PROVE  FreshInv'
  <2>1. db' = db /\ uid' = uid /\ cache' = cache /\ call' = call
    BY <1>7 DEF Read
  <2>2. pc'[r] = "set" => got'[r] = db'[Subject(r)'].refreshToken
    BY <1>7, <2>1 DEF Read, Verify, FirstRead, Rotate, Subject
  <2>3. pc'[r] = "update" => ~CacheEnabled /\ call[r].op = "refresh" /\ pc[r] = "read"
    BY <1>7 DEF Read, Verify, FirstRead, Rotate
  <2>4. pc'[r] = "update" => uid[r] \in Users
    BY <2>3 DEF IInv, CalledInv, PlaceInv, StoredInv
  <2>5. pc'[r] = "update" => cache'[uid'[r]] = Empty
    BY <2>1, <2>3, <2>4 DEF UncachedInv
  <2>6. Serve(r)
    BY <1>7 DEF Serve
  <2>7. CarriedInv'
    BY <1>2, <2>1, <2>2, <2>5, <2>6
  <2>8. QED BY <1>1, <2>1, <2>7 DEF FreshInv
<1>8. ASSUME NEW r \in Requests, CacheSet(r)
      PROVE  FreshInv'
  <2>1. db' = db /\ uid' = uid /\ pc[r] = "set" /\ pc'[r] # "set"
    BY <1>8 DEF CacheSet, Verify, FirstRead, Rotate
  <2>2. pc'[r] # "update"
    BY <1>8 DEF CacheSet, Verify, FirstRead, Rotate, UncachedInv
  <2>3. cache' = cache \/ cache' = [cache EXCEPT ![Subject(r)] = got[r]]
    BY <1>8 DEF CacheSet
  <2>4. \A q \in Requests \ {r} : pc[q] = "update" => uid[q] # Subject(r)
    BY <2>1, UsesApart DEF Using, AtUse
  <2>5. \A q \in Requests \ {r} : pc[q] = "update" => cache'[uid[q]] = cache[uid[q]]
    BY <2>3, <2>4 DEF IInv, PlaceInv
  <2>6. Serve(r)
    BY <1>8 DEF Serve
  <2>7. CarriedInv'
    BY <1>2, <2>1, <2>2, <2>5, <2>6
  <2>8. got[r] = db[Subject(r)].refreshToken /\ Subject(r) \in Users /\ db[Subject(r)] # NoRow
    BY <2>1, SubjectHasRow DEF FreshInv, CarriedInv
  <2>9. CacheIsCurrent'
    BY <2>1, <2>3, <2>8 DEF CacheIsCurrent
  <2>10. QED BY <2>7, <2>9 DEF FreshInv
<1>9. ASSUME NEW r \in Requests, Remove(r) \/ RemoveFails(r)
      PROVE  FreshInv'
  <2>1. uid[r] \in Users
    BY <1>9 DEF Remove, RemoveFails, IInv, PlaceInv
  <2>2. /\ db' = db /\ uid' = uid /\ pc'[r] # "set"
        /\ \A u \in Users : cache'[u] \in {cache[u], Empty}
        /\ pc'[r] = "update" => cache'[uid'[r]] = Empty
    BY <1>9, <2>1 DEF Remove, RemoveFails
  <2>3. \A q \in Requests \ {r} : pc[q] = "update" => cache'[uid[q]] \in {cache[uid[q]], Empty}
    BY <2>2 DEF IInv, PlaceInv
  <2>4. Serve(r)
    BY <1>9 DEF Serve
  <2>5. CarriedInv'
    BY <1>2, <2>2, <2>3, <2>4
  <2>6. QED BY <1>1, <2>2, <2>5 DEF FreshInv
<1>10. ASSUME NEW r \in Requests, Update(r) \/ UpdateFails(r)
       PROVE  FreshInv'
  <2>1. /\ cache' = cache /\ uid' = uid /\ pc[r] = "update"
        /\ pc'[r] \notin {"set", "update"}
        /\ db' = db \/ db' = [db EXCEPT ![uid[r]].refreshToken = r]
    BY <1>10 DEF Update, UpdateFails
  <2>2. uid[r] \in Users /\ db[uid[r]] \in Rows /\ cache[uid[r]] = Empty
    BY <2>1 DEF IInv, PlaceInv, FreshInv, CarriedInv
  <2>3. \A q \in Requests \ {r} : pc[q] = "set" => uid[r] # Subject(q)
    BY <2>1, UsesApart DEF Using, AtUse
  <2>4. \A u \in Users : u # uid[r] => db'[u] = db[u]
    BY <2>1
  <2>5. \A q \in Requests \ {r} :
          pc[q] = "set" => db'[Subject(q)].refreshToken = db[Subject(q)].refreshToken
    BY <2>3, <2>4, SubjectHasRow
  <2>6. Serve(r)
    BY <1>10 DEF Serve
  <2>7. CarriedInv'
    BY <1>2, <2>1, <2>5, <2>6
  <2>8. CacheIsCurrent'
    BY <2>1, <2>2, <2>4 DEF CacheIsCurrent
  <2>9. QED BY <2>7, <2>8 DEF FreshInv
<1>11. ASSUME NEW u \in Users, Expire(u)
       PROVE  FreshInv'
  <2>1. db' = db /\ UNCHANGED <<pc, got, uid, phase, call>> /\ \A v \in Users : cache'[v] \in {cache[v], Empty}
    BY <1>11 DEF Expire
  <2>2. CarriedInv'
    BY <2>1 DEF FreshInv, CarriedInv, Subject, IInv, PlaceInv
  <2>3. QED BY <1>1, <2>1, <2>2 DEF FreshInv
<1>12. CASE UNCHANGED vars
  BY <1>12 DEF vars, FreshInv, CarriedInv, CacheIsCurrent, Subject
<1>13. QED
  BY <1>3, <1>4, <1>5, <1>6, <1>7, <1>8, <1>9, <1>10, <1>11, <1>12 DEF Next, Serve

-----------------------------------------------------------------------------
\* What a verification compares with is the token in the row.
RowIsRead ==
  \A r \in Requests :
    /\ pc[r] = "get" /\ cache[Subject(r)] # Empty =>
         cache[Subject(r)] = db[Subject(r)].refreshToken
    /\ pc[r] = "set" => got[r] = db[Subject(r)].refreshToken

SerialInv ==
  /\ UncachedInv /\ RotateInv /\ RepliedInv /\ GoneInv
  /\ ~Overlap => ApartInv /\ FreshInv

LEMMA ReadsTheRow ==
  ASSUME ~Overlap \/ ~CacheEnabled, IInv, SerialInv
  PROVE  RowIsRead
<1>1. CASE ~Overlap
  <2>1. \A r \in Requests : pc[r] = "get" => Subject(r) \in Users
    BY SubjectHasRow
  <2>2. QED BY <1>1, <2>1 DEF SerialInv, FreshInv, CarriedInv, CacheIsCurrent, RowIsRead
<1>2. CASE ~CacheEnabled
  BY <1>2 DEF SerialInv, UncachedInv, RowIsRead
<1>3. QED BY <1>1, <1>2

\* A step of a request that is past its arrival, and what it compared.
LEMMA Compared ==
  ASSUME IInv, RowIsRead, NEW q \in Requests, CacheGet(q) \/ Read(q) \/ CacheSet(q)
  PROVE  /\ pc[q] \in {"get", "read", "set"}
         /\ UNCHANGED <<call, uid, db, current>>
         /\ \/ Verify(q, db[Subject(q)].refreshToken)
            \/ pc'[q] \in {"read", "set"} /\ reply' = reply
<1> USE DEF TypeOK
<1> TypeOK BY DEF IInv
<1>1. CASE CacheGet(q)
  BY <1>1 DEF CacheGet, RowIsRead, Continue, Go
<1>2. CASE Read(q)
  BY <1>2 DEF Read, Continue, Go
<1>3. CASE CacheSet(q)
  BY <1>3 DEF CacheSet, RowIsRead
<1>4. QED BY <1>1, <1>2, <1>3

\* The token r's session row is compared with.
LEMMA RefreshSubject ==
  ASSUME IInv, NEW q \in Requests, pc[q] \in {"get", "read", "set"}, phase[q] = "refresh"
  PROVE  /\ Subject(q) = uid[q] /\ call[q].refresh # BadToken /\ call[q].op \in TokenOp
BY DEF IInv, TypeOK, CalledInv, PlaceInv, Subject

LEMMA DiesStep ==
  ASSUME IInv, RowIsRead, GoneInv, RepliedInv, OldTokenDies, [Next]_vars
  PROVE  OldTokenDies'
<1> SUFFICES ASSUME NEW q \in Requests, Accepted(q)'
             PROVE  current'[q]
  BY DEF OldTokenDies
<1> USE DEF TypeOK, Go, Answer, Continue, InFlight, FirstRead, Rotate
<1> TypeOK BY DEF IInv
<1>1. CASE Accepted(q)
  <2>1. pc[q] # "idle"
    BY <1>1 DEF Accepted, RepliedInv, Replies
  <2>2. QED BY <1>1, <2>1, Frame DEF OldTokenDies
<1>2. CASE ~Accepted(q)
  <2>1. Serve(q) \/ Crash(q) \/ \E c \in Calls : Arrive(q, c)
    <3>1. ASSUME pc'[q] = pc[q], reply'[q] = reply[q] PROVE FALSE
      <4>1. pc[q] # "idle"
        BY <3>1 DEF Accepted, RepliedInv, Replies
      <4>2. QED BY <1>2, <3>1, <4>1, Frame DEF Accepted
    <3>2. QED BY <3>1, OneMoves DEF Next, Arrive, AskAccount, AskToken, Expire, vars
  <2>2. ASSUME NEW c \in Calls, Arrive(q, c) PROVE FALSE
    <3>1. reply[q] = NoReply
      BY <2>2 DEF Arrive, RepliedInv
    <3>2. /\ reply'[q] \in {NoReply, "AUTH_UNAUTHORIZED", "AUTH_INVALID_REFRESH_TOKEN"}
          /\ pc'[q] \notin {"remove", "update", "respond"}
      BY <2>2, <3>1 DEF Arrive, AskAccount, AskToken
    <3>3. QED BY <3>2 DEF Accepted, Replies
  <2>3. CASE Crash(q) \/ IsExist(q) \/ Insert(q) \/ Find(q) \/ StatementFails(q)
    <3>1. pc[q] # "done" /\ reply[q] = NoReply
      BY <2>3 DEF Crash, IsExist, Insert, Find, StatementFails, RepliedInv
    <3>2. call'[q] = call[q] /\ reply'[q] # "PASS" /\ reply'[q] # "TOKENS"
      BY <2>3, <3>1 DEF Crash, IsExist, Insert, Find, StatementFails, Replies
    <3>3. Crash(q) \/ call[q].op # "refresh"
      BY <2>3 DEF IsExist, Insert, Find, StatementFails, IInv, PlaceInv
    <3>4. QED BY <2>3, <3>2, <3>3 DEF Crash, Accepted
  <2>4. CASE CacheGet(q) \/ Read(q) \/ CacheSet(q)
    <3>1. /\ pc[q] \in {"get", "read", "set"} /\ reply[q] = NoReply
          /\ UNCHANGED <<call, uid, db, current>>
      BY <2>4, Compared DEF RepliedInv
    <3>2. CASE pc'[q] \in {"read", "set"} /\ reply' = reply
      BY <3>1, <3>2 DEF Accepted, Replies
    <3>3. CASE Verify(q, db[Subject(q)].refreshToken)
      <4>1. phase[q] = "refresh" /\ db[Subject(q)].refreshToken = call[q].refresh
        BY <3>1, <3>3 DEF Verify, Accepted, Replies
      <4>2. db[uid[q]].refreshToken = call[q].refresh /\ call[q].refresh # BadToken
            /\ call[q].op \in TokenOp
        BY <3>1, <4>1, RefreshSubject
      <4>3. QED BY <3>1, <4>2 DEF GoneInv
    <3>4. QED BY <2>4, <3>2, <3>3, Compared
  <2>5. CASE ReadFails(q)
    <3>1. reply[q] = NoReply
      BY <2>5 DEF ReadFails, RepliedInv
    <3>2. QED BY <2>5, <3>1 DEF ReadFails, Accepted, Replies
  <2>6. CASE Remove(q) \/ RemoveFails(q) \/ Update(q) \/ UpdateFails(q) \/ Respond(q)
    <3>1. /\ pc[q] \in {"remove", "update", "respond"} /\ call'[q] = call[q]
          /\ reply[q] = NoReply /\ call[q] # NoCall
      BY <2>6 DEF Remove, RemoveFails, Update, UpdateFails, Respond, RepliedInv, IInv, CalledInv
    <3>2. reply'[q] # "PASS"
      BY <2>6, <3>1 DEF Remove, RemoveFails, Update, UpdateFails, Respond, Replies
    <3>3. call[q].op = "refresh"
      BY <3>1, <3>2 DEF Accepted
    <3>4. QED BY <1>2, <3>1, <3>3 DEF Accepted
  <2>7. QED BY <2>1, <2>2, <2>3, <2>4, <2>5, <2>6 DEF Serve
<1>3. QED BY <1>1, <1>2

\* Refused with a token, and an access token if it takes one.
Refused(r) ==
  /\ reply[r] \in {"AUTH_UNAUTHORIZED", "AUTH_INVALID_REFRESH_TOKEN"}
  /\ call[r].refresh # BadToken
  /\ call[r].op = "use" => call[r].access # BadToken

LEMMA WorksStep ==
  ASSUME IInv, RowIsRead, RepliedInv, NewTokenWorks, [Next]_vars
  PROVE  NewTokenWorks'
<1> SUFFICES ASSUME faults' = 0, NEW q \in Requests, Refused(q)'
             PROVE  db'[uid'[q]].refreshToken # call'[q].refresh
  BY DEF NewTokenWorks, Refused
<1> USE DEF TypeOK, Go, Answer, Continue, InFlight, FirstRead, Rotate
<1> TypeOK BY DEF IInv
<1>1. faults = 0 /\ ~(faults' = faults + 1)
  <2>1. ASSUME Next PROVE faults' = faults \/ faults' = faults + 1
    <3>1. CASE \/ \E u \in Users : Expire(u)
               \/ \E r \in Requests : Crash(r) \/ \E c \in Calls : Arrive(r, c)
      BY <3>1 DEF Arrive, Expire, Crash, Fault
    <3>2. ASSUME NEW r \in Requests, Serve(r)
          PROVE  faults' = faults \/ faults' = faults + 1
      BY <3>2 DEF Serve, IsExist, Insert, Find, StatementFails, CacheGet, Read, ReadFails,
         CacheSet, Remove, RemoveFails, Update, UpdateFails, Respond, Fault, NoFault
    <3>3. QED BY <2>1, <3>1, <3>2 DEF Next
  <2>2. faults' = faults \/ faults' = faults + 1
    BY <2>1 DEF vars
  <2>3. faults \in Nat
    BY DEF TypeOK
  <2>4. QED BY <2>2, <2>3
<1>2. CASE Refused(q)
  <2>1. pc[q] # "idle" /\ db[uid[q]].refreshToken # call[q].refresh
    BY <1>1, <1>2 DEF Refused, NewTokenWorks, RepliedInv, Replies, Failures
  <2>2. call[q].op \in TokenOp
    <3>1. call[q].op \in AccountOp \/ call[q].op \in TokenOp
      BY <2>1 DEF IInv, CalledInv, CallType, Operations, AccountOp, TokenOp
    <3>2. QED BY <1>2, <2>1, <3>1 DEF Refused, IInv, CalledInv
  <2>3. QED BY <1>2, <2>1, <2>2, GoneForGood DEF Refused
<1>3. CASE ~Refused(q)
  <2>1. Serve(q) \/ Crash(q) \/ \E c \in Calls : Arrive(q, c)
    <3>1. ASSUME pc'[q] = pc[q], reply'[q] = reply[q] PROVE FALSE
      <4>1. pc[q] # "idle"
        BY <3>1 DEF Refused, RepliedInv, Replies, Failures
      <4>2. QED BY <1>3, <3>1, <4>1, Frame DEF Refused
    <3>2. QED BY <3>1, OneMoves DEF Next, Arrive, AskAccount, AskToken, Expire, vars
  <2>2. ASSUME NEW c \in Calls, Arrive(q, c) PROVE FALSE
    <3>1. reply[q] = NoReply /\ call'[q] = c
      BY <2>2 DEF Arrive, RepliedInv
    <3>2. CASE AskAccount(q, c)
      BY <3>1, <3>2 DEF AskAccount, Refused, Replies, Failures
    <3>3. CASE AskToken(q, c)
      BY <2>2, <3>1, <3>3 DEF Arrive, AskToken, Refused, Replies, Failures
    <3>4. QED BY <2>2, <3>2, <3>3 DEF Arrive
  <2>3. CASE \/ Crash(q) \/ IsExist(q) \/ Insert(q) \/ Find(q) \/ StatementFails(q) \/ Respond(q)
             \/ Remove(q) \/ RemoveFails(q) \/ Update(q) \/ UpdateFails(q)
    <3>1. reply[q] = NoReply
      BY <2>3 DEF Crash, IsExist, Insert, Find, StatementFails, Respond, Remove, RemoveFails,
         Update, UpdateFails, RepliedInv
    <3>2. reply'[q] \notin {"AUTH_UNAUTHORIZED", "AUTH_INVALID_REFRESH_TOKEN"}
      BY <2>3, <3>1 DEF Crash, IsExist, Insert, Find, StatementFails, Respond, Remove,
         RemoveFails, Update, UpdateFails, Replies, Failures
    <3>3. QED BY <3>2 DEF Refused
  <2>4. CASE ReadFails(q)
    BY <1>1, <2>4 DEF ReadFails, Fault
  <2>5. CASE CacheGet(q) \/ Read(q) \/ CacheSet(q)
    <3>1. /\ pc[q] \in {"get", "read", "set"} /\ reply[q] = NoReply
          /\ UNCHANGED <<call, uid, db, current>>
      BY <2>5, Compared DEF RepliedInv
    <3>2. CASE pc'[q] \in {"read", "set"} /\ reply' = reply
      BY <3>1, <3>2 DEF Refused, Replies, Failures
    <3>3. CASE Verify(q, db[Subject(q)].refreshToken)
      <4>1. phase[q] = "refresh" /\ db[Subject(q)].refreshToken # call[q].refresh
        BY <3>1, <3>3 DEF Verify, Refused, Replies, Failures
      <4>2. QED BY <3>1, <4>1, RefreshSubject
    <3>4. QED BY <2>5, <3>2, <3>3, Compared
  <2>6. QED BY <2>1, <2>2, <2>3, <2>4, <2>5 DEF Serve
<1>4. QED BY <1>2, <1>3

-----------------------------------------------------------------------------
LEMMA SerialInductive == Spec => []SerialInv
<1>1. Init => SerialInv
  BY DEF Init, SerialInv, UncachedInv, RotateInv, RepliedInv, GoneInv, ApartInv, FreshInv,
         CarriedInv, CacheIsCurrent, InFlight
<1>2. IInv /\ SerialInv /\ [Next]_vars => SerialInv'
  BY UncachedStep, RotateStep, RepliedStep, GoneStep, ApartStep, FreshStep DEF SerialInv
<1>3. QED BY Inductive, <1>1, <1>2, PTL DEF Spec

\* A cache entry is the row, as long as the requests of a user do not overlap.
THEOREM CacheStaysCurrent ==
  ASSUME ~Overlap
  PROVE  Spec => []CacheIsCurrent
<1>1. SerialInv => CacheIsCurrent
  BY DEF SerialInv, FreshInv
<1>2. QED BY SerialInductive, <1>1, PTL

\* A replaced refresh token is refused, if requests of a user do not overlap or if
\* there is no cache, however they overlap.
THEOREM ReplacedTokensDie ==
  ASSUME ~Overlap \/ ~CacheEnabled
  PROVE  Spec => []OldTokenDies
<1>1. Init => OldTokenDies
  BY DEF Init, OldTokenDies, Accepted, Replies
<1>2. IInv /\ SerialInv /\ OldTokenDies /\ [Next]_vars => OldTokenDies'
  BY ReadsTheRow, DiesStep DEF SerialInv
<1>3. QED BY Inductive, SerialInductive, <1>1, <1>2, PTL DEF Spec

\* The token in the row is never refused, under the same condition.
THEOREM StoredTokensWork ==
  ASSUME ~Overlap \/ ~CacheEnabled
  PROVE  Spec => []NewTokenWorks
<1>1. Init => NewTokenWorks
  BY DEF Init, NewTokenWorks, Replies, Failures
<1>2. IInv /\ SerialInv /\ NewTokenWorks /\ [Next]_vars => NewTokenWorks'
  BY ReadsTheRow, WorksStep DEF SerialInv
<1>3. QED BY Inductive, SerialInductive, <1>1, <1>2, PTL DEF Spec

-----------------------------------------------------------------------------
\* Session implements SessionContract.

\* What a request has made sure of: a Google login that its account is there, a
\* login its password, a request past its first verification its access token.
CheckedInv ==
  \A r \in Requests :
    /\ pc[r] = "idle" => call[r] = NoCall
    /\ pc[r] = "find" /\ call[r].op = "oauth" => db[uid[r]] # NoRow
    /\ pc[r] \in {"remove", "update"} /\ call[r].op = "login" =>
         db[uid[r]].password = call[r].password
    /\ pc[r] \in {"get", "read", "set"} /\ call[r].op = "use" /\ phase[r] = "refresh" =>
         call[r].access \in stored

\* Between the comparison and the new token nothing else gets at the row.
SwapInv ==
  ~Overlap => \A r \in Requests :
    pc[r] \in {"remove", "update"} /\ call[r].op = "refresh" =>
      db[uid[r]].refreshToken = call[r].refresh

\* Whom a step is of.
LEMMA WhoMoves ==
  ASSUME IInv, [Next]_vars, NEW q \in Requests
  PROVE  \/ UNCHANGED <<pc[q], phase[q], reply[q], call[q]>>
         \/ Serve(q) \/ Crash(q) \/ \E c \in Calls : Arrive(q, c)
<1> USE DEF TypeOK
<1> TypeOK BY DEF IInv
<1>1. ASSUME NEW r \in Requests \ {q}, Serve(r) \/ Crash(r)
      PROVE  UNCHANGED <<pc[q], phase[q], reply[q], call[q]>>
  <2>1. call' = call
    BY <1>1 DEF Serve, IsExist, Insert, Find, StatementFails, CacheGet, Read, ReadFails,
       CacheSet, Remove, RemoveFails, Update, UpdateFails, Respond, Crash
  <2>2. QED BY <1>1, <2>1, OneMoves
<1>2. ASSUME NEW r \in Requests \ {q}, NEW c \in Calls, Arrive(r, c)
      PROVE  UNCHANGED <<pc[q], phase[q], reply[q], call[q]>>
  BY <1>2 DEF Arrive, AskAccount, AskToken, Continue, Answer, Go
<1>3. ASSUME NEW u \in Users, Expire(u)
      PROVE  UNCHANGED <<pc[q], phase[q], reply[q], call[q]>>
  BY <1>3 DEF Expire
<1>4. QED BY <1>1, <1>2, <1>3 DEF Next, vars

LEMMA CheckedStep ==
  ASSUME IInv, CheckedInv, [Next]_vars
  PROVE  CheckedInv'
<1> SUFFICES ASSUME NEW q \in Requests PROVE CheckedInv!(q)'
  BY DEF CheckedInv
<1> USE DEF TypeOK, Go, Answer, Continue, FirstRead, Rotate, InFlight
<1> TypeOK /\ PlaceInv!(q) /\ CheckedInv!(q) BY DEF IInv, PlaceInv, CheckedInv
<1>1. /\ pc[q] # "idle" => pc'[q] # "idle" /\ call'[q] = call[q] /\ uid'[q] = uid[q]
      /\ stored \subseteq stored'
      /\ \A u \in Users : db[u] # NoRow =>
           db'[u] # NoRow /\ db'[u].password = db[u].password
  BY Frame
<1>2. CASE UNCHANGED <<pc[q], phase[q], reply[q], call[q]>>
  <2>1. pc[q] = "find" => uid[q] \in Users
    BY DEF IInv, CalledInv, AccountOp
  <2>2. QED BY <1>1, <1>2, <2>1
<1>3. ASSUME NEW c \in Calls, Arrive(q, c)
      PROVE  CheckedInv!(q)'
  <2>1. call'[q] = c /\ pc[q] = "idle"
    BY <1>3 DEF Arrive
  <2>2. CASE AskAccount(q, c)
    BY <2>1, <2>2 DEF AskAccount
  <2>3. CASE AskToken(q, c)
    BY <2>1, <2>3 DEF AskToken
  <2>4. QED BY <1>3, <2>2, <2>3 DEF Arrive
<1>4. CASE IsExist(q) \/ Find(q) \/ StatementFails(q)
  BY <1>1, <1>4 DEF IsExist, Find, StatementFails
<1>5. CASE Insert(q)
  <2>1. pc'[q] = "find" => db'[uid'[q]] # NoRow
    <3>1. NewRow(q) # NoRow /\ uid[q] \in Users
      BY <1>5 DEF NewRow, Rows, IInv, CalledInv, AccountOp, Insert
    <3>2. QED BY <1>5, <3>1 DEF Insert
  <2>2. QED BY <1>1, <1>5, <2>1 DEF Insert, AfterInsert
<1>6. ASSUME NEW v, Verify(q, v), pc[q] \in {"get", "read", "set"}
      PROVE  CheckedInv!(q)'
  BY <1>1, <1>6 DEF Verify, TokenOp
<1>7. CASE CacheGet(q) \/ Read(q) \/ ReadFails(q) \/ CacheSet(q)
  BY <1>1, <1>6, <1>7 DEF CacheGet, Read, ReadFails, CacheSet
<1>8. CASE Remove(q) \/ RemoveFails(q) \/ Respond(q) \/ Crash(q)
  BY <1>1, <1>8 DEF Remove, RemoveFails, Respond, Crash
<1>9. CASE Update(q) \/ UpdateFails(q)
  BY <1>1, <1>9 DEF Update, UpdateFails
<1>10. QED
  BY <1>2, <1>3, <1>4, <1>5, <1>7, <1>8, <1>9, WhoMoves DEF Serve

\* The database in the hands of another request: of other users' rows only.
LEMMA SwapStep ==
  ASSUME IInv, SerialInv, SwapInv, [Next]_vars
  PROVE  SwapInv'
<1> SUFFICES ASSUME ~Overlap, NEW q \in Requests, pc'[q] \in {"remove", "update"},
                    call'[q].op = "refresh"
             PROVE  db'[uid'[q]].refreshToken = call'[q].refresh
  BY DEF SwapInv
<1> USE DEF TypeOK, Go, Answer, Continue, FirstRead, Rotate, InFlight
<1> TypeOK BY DEF IInv
<1>1. CASE pc[q] \in {"remove", "update"}
  <2>1. /\ call'[q] = call[q] /\ uid'[q] = uid[q] /\ uid[q] \in Users /\ db[uid[q]] # NoRow
        /\ db[uid[q]].refreshToken = call[q].refresh
    BY <1>1, Frame DEF IInv, PlaceInv, SwapInv
  <2>2. ASSUME NEW r \in Requests, Insert(r) \/ StatementFails(r)
        PROVE  db'[uid[q]] = db[uid[q]]
    BY <2>1, <2>2 DEF Insert, StatementFails
  <2>3. ASSUME NEW r \in Requests, Update(r) \/ UpdateFails(r), db'[uid[q]] # db[uid[q]]
        PROVE  FALSE
    <3>1. pc[r] = "update" /\ uid[r] = uid[q]
      BY <2>1, <2>3 DEF Update, UpdateFails
    <3>2. r # q
      BY <1>1, <2>3 DEF Update, UpdateFails
    <3>3. QED
      BY <1>1, <3>1, <3>2, UsesApart DEF Using, AtUse, SerialInv
  <2>4. db'[uid[q]] = db[uid[q]]
    <3>1. ASSUME NEW r \in Requests, Serve(r)
          PROVE  db'[uid[q]] = db[uid[q]]
      BY <3>1, <2>2, <2>3 DEF Serve, IsExist, Find, CacheGet, Read, ReadFails, CacheSet,
         Remove, RemoveFails, Respond
    <3>2. QED BY <3>1 DEF Next, vars, Arrive, Crash, Expire
  <2>5. QED BY <2>1, <2>4
<1>2. CASE pc[q] \notin {"remove", "update"}
  <2>1. Serve(q)
    BY <1>2, WhoMoves DEF Crash, Arrive, AskAccount, AskToken
  <2>2. CASE CacheGet(q) \/ Read(q) \/ CacheSet(q)
    <3>1. /\ pc[q] \in {"get", "read", "set"} /\ UNCHANGED <<call, uid, db>>
          /\ Verify(q, db[Subject(q)].refreshToken)
      BY <2>2, Compared, ReadsTheRow
    <3>2. phase[q] = "refresh" /\ db[Subject(q)].refreshToken = call[q].refresh
      BY <3>1 DEF Verify
    <3>3. QED BY <3>1, <3>2, RefreshSubject
  <2>3. CASE IsExist(q) \/ Insert(q) \/ Find(q) \/ StatementFails(q)
    BY <2>3 DEF IsExist, Insert, Find, StatementFails, IInv, PlaceInv
  <2>4. CASE ReadFails(q) \/ Remove(q) \/ RemoveFails(q) \/ Update(q) \/ UpdateFails(q) \/ Respond(q)
    BY <1>2, <2>4 DEF ReadFails, Remove, RemoveFails, Update, UpdateFails, Respond
  <2>5. QED BY <2>1, <2>2, <2>3, <2>4 DEF Serve
<1>3. QED BY <1>1, <1>2

-----------------------------------------------------------------------------
\* What the refinement needs of a state.
RInv ==
  IInv /\ JoinedInv /\ SerialInv /\ CheckedInv /\ SwapInv

\* Answering a client is a Tell of the contract.
LEMMA AnswerTells ==
  ASSUME RepliedInv, NEW r \in Requests, pc[r] # "done", NEW a, Answer(r, a)
  PROVE  Contract!Tell(r, a)
BY DEF RepliedInv, Answer, Contract!Tell

LEMMA IssuedFrame ==
  ASSUME IInv, [Next]_vars, stored' = stored
  PROVE  IssuedView' = IssuedView
BY Steady DEF IssuedView

\* The tokens of the contract are the stored ones, each with its user.
LEMMA IssuedFacts ==
  ASSUME IInv
  PROVE  /\ Contract!Issued = stored
         /\ \A t \in stored : <<t, uid[t]>> \in IssuedView
<1>1. \A t, u : <<t, u>> \in IssuedView <=> t \in stored /\ u = uid[t]
  BY DEF IssuedView
<1>2. \A t \in stored : t \in Requests /\ uid[t] \in Users
  BY DEF IInv, TypeOK, StoredInv
<1>3. QED BY <1>1, <1>2 DEF Contract!Issued

\* The user a request in flight acts for, if it brought a refresh token.
LEMMA UserOf ==
  ASSUME IInv, NEW r \in Requests, pc[r] # "idle",
         call[r].op \in AccountOp \/ call[r].refresh # BadToken
  PROVE  /\ uid[r] \in Users /\ Contract!ActsFor(r, uid[r]) /\ call[r] # NoCall
         /\ call[r].op \in TokenOp =>
              /\ call[r].refresh \in stored
              /\ <<call[r].refresh, uid[r]>> \in IssuedView
<1>1. call[r] \in CallType /\ call[r] # NoCall
  BY DEF IInv, CalledInv
<1>2. CASE call[r].op \in AccountOp
  BY <1>1, <1>2 DEF IInv, CalledInv, Contract!ActsFor, AccountOp, TokenOp
<1>3. CASE call[r].op \in TokenOp
  <2>1. call[r].refresh \in stored /\ uid[r] = uid[call[r].refresh]
    BY <1>3 DEF IInv, CalledInv, AccountOp, TokenOp
  <2>2. QED BY <1>1, <1>3, <2>1, IssuedFacts DEF IInv, StoredInv, Contract!ActsFor, TokenOp, AccountOp
<1>4. QED BY <1>1, <1>2, <1>3 DEF CallType, Operations, AccountOp, TokenOp

\* Steps the contract does not see.
LEMMA QuietSteps ==
  ASSUME IInv, [Next]_vars, UNCHANGED <<call, db, stored, reply>>,
         UNCHANGED faults \/ Fault
  PROVE  Contract!Fail \/ UNCHANGED Contract!cvars
BY IssuedFrame DEF Contract!Fail, Contract!Fails, Contract!cvars, Fault

LEMMA ArriveRefines ==
  ASSUME RInv, [Next]_vars, NEW r \in Requests, NEW c \in Calls, Arrive(r, c)
  PROVE  Contract!Ask(r)
<1>1. /\ call[r] = NoCall /\ c # NoCall /\ c \in CallType
      /\ call' = [call EXCEPT ![r] = c] /\ call'[r] = c
  BY CallFacts DEF RInv, CheckedInv, Arrive, IInv, TypeOK
<1>2. {c.access, c.refresh} \subseteq Contract!Handed \cup {BadToken}
  BY DEF Calls, Account, Tokens, Presented, Delivered, Contract!Handed
<1>3. UNCHANGED <<db, faults, stored>>
  BY DEF Arrive
<1>4. CASE AskAccount(r, c)
  BY <1>1, <1>2, <1>3, <1>4, IssuedFrame DEF AskAccount, Continue, Contract!Ask, RInv
<1>5. CASE AskToken(r, c)
  <2>1. CASE UNCHANGED reply
    BY <1>1, <1>2, <1>3, <2>1, IssuedFrame DEF Contract!Ask, RInv
  <2>2. CASE c[phase'[r]] = BadToken
             /\ Answer(r, IF c.op = "use" THEN "AUTH_UNAUTHORIZED"
                          ELSE "AUTH_INVALID_REFRESH_TOKEN")
    <3>1. c.op \in {"refresh", "use"} /\ phase'[r] = IF c.op = "use" THEN "access" ELSE "refresh"
      BY <1>5 DEF AskToken, RInv, IInv, TypeOK
    <3>2. Contract!Incomplete(c)
      BY <2>2, <3>1 DEF Contract!Incomplete
    <3>3. pc[r] # "done"
      BY DEF Arrive
    <3>4. Contract!Tell(r, Contract!TokenRefusal(c))
      BY <2>2, <3>3, AnswerTells DEF RInv, SerialInv, Contract!TokenRefusal
    <3>5. QED BY <1>1, <1>2, <1>3, <3>2, <3>4, IssuedFrame DEF Contract!Ask, RInv
  <2>3. QED BY <1>5, <2>1, <2>2 DEF AskToken, Continue
<1>6. QED BY <1>4, <1>5 DEF Arrive

\* A refusal with a reason in the row, or with a failure of its own.
LEMMA RefusalRefines ==
  ASSUME RInv, [Next]_vars, NEW r \in Requests, pc[r] \in InFlight, NEW a, Answer(r, a),
         UNCHANGED <<call, db, stored>>, r \notin stored,
         \/ Contract!Reason(r, uid[r], a) /\ Contract!ActsFor(r, uid[r]) /\ uid[r] \in Users
              /\ (UNCHANGED faults \/ Fault)
         \/ Contract!Incomplete(call[r]) /\ a = Contract!TokenRefusal(call[r])
              /\ (UNCHANGED faults \/ Fault)
         \/ Fault /\ a = "COMMON_INTERNAL_ERROR"
         \/ Fault /\ call[r].op \in TokenOp /\ a = Contract!TokenRefusal(call[r])
  PROVE  Contract!Refuse(r)
<1>1. IssuedView' = IssuedView /\ Contract!Issued = stored
  BY IssuedFrame, IssuedFacts DEF RInv
<1>2. pc[r] # "done" /\ pc[r] # "idle"
  BY DEF InFlight
<1>3. Contract!Tell(r, a) /\ reply'[r] = a
  BY <1>2, AnswerTells DEF RInv, SerialInv, Answer, IInv, TypeOK
<1>4. call[r] # NoCall
  BY <1>2 DEF RInv, IInv, CalledInv
<1>5. UNCHANGED faults \/ Fault => Contract!MayFail
  BY DEF Contract!MayFail, Contract!Fails, Fault
<1>6. Fault => Contract!Fails
  BY DEF Contract!Fails, Fault
<1>7. QED
  BY <1>1, <1>3, <1>4, <1>5, <1>6 DEF Contract!Refuse, TokenOp

\* Accounts.
LEMMA AccountRefines ==
  ASSUME RInv, [Next]_vars, NEW r \in Requests, IsExist(r) \/ Find(r)
  PROVE  Contract!Refuse(r) \/ Contract!Fail \/ UNCHANGED Contract!cvars
<1>1. /\ pc[r] \in InFlight /\ r \notin stored /\ UNCHANGED <<call, db, stored>>
      /\ call[r].op \in AccountOp /\ uid[r] \in Users /\ Contract!ActsFor(r, uid[r])
      /\ UNCHANGED faults \/ Fault
  BY UserOf DEF IsExist, Find, RInv, IInv, PlaceInv, InFlight, AccountOp, NoFault
<1>2. CASE UNCHANGED reply
  BY <1>1, <1>2, QuietSteps DEF RInv
<1>3. CASE Find(r) /\ db[uid[r]] = NoRow /\ NoFault /\ Answer(r, "USER_NOT_FOUND")
  <2>1. call[r].op = "login"
    BY <1>3 DEF Find, RInv, CheckedInv, IInv, PlaceInv
  <2>2. Contract!Reason(r, uid[r], "USER_NOT_FOUND")
    BY <1>3, <2>1 DEF Contract!Reason
  <2>3. QED BY <1>1, <1>3, <2>2, RefusalRefines
<1>4. CASE Fault /\ Answer(r, "COMMON_INTERNAL_ERROR")
  BY <1>1, <1>4, RefusalRefines
<1>5. CASE /\ db[uid[r]] # NoRow /\ call[r].op = "login"
           /\ db[uid[r]].password # call[r].password /\ Answer(r, "AUTH_INVALID_PASSWORD")
  <2>1. Contract!Reason(r, uid[r], "AUTH_INVALID_PASSWORD")
    BY <1>5 DEF Contract!Reason
  <2>2. QED BY <1>1, <1>5, <2>1, RefusalRefines
<1>6. CASE db[uid[r]] # NoRow /\ call[r].op = "join" /\ Answer(r, "USER_ALREADY_EXISTS")
  <2>1. Contract!Reason(r, uid[r], "USER_ALREADY_EXISTS")
    BY <1>6 DEF Contract!Reason
  <2>2. QED BY <1>1, <1>6, <2>1, RefusalRefines
<1>7. CASE IsExist(r)
  BY <1>2, <1>6, <1>7 DEF IsExist, Continue
<1>8. CASE Find(r)
  BY <1>2, <1>3, <1>4, <1>5, <1>8 DEF Find, Continue
<1>9. QED BY <1>7, <1>8

LEMMA InsertRefines ==
  ASSUME RInv, [Next]_vars, NEW r \in Requests, Insert(r) \/ StatementFails(r)
  PROVE  Contract!Refuse(r) \/ \E u \in Users : Contract!Create(r, u)
<1>1. /\ pc[r] \in InFlight /\ pc[r] # "done" /\ r \notin stored /\ UNCHANGED <<call, stored>>
      /\ call[r].op \in AccountOp /\ uid[r] \in Users /\ Contract!ActsFor(r, uid[r])
      /\ uid[r] = call[r].user /\ call[r] # NoCall /\ reply[r] = NoReply
  BY UserOf DEF Insert, StatementFails, RInv, IInv, CalledInv, PlaceInv, InFlight,
     AccountOp, SerialInv, RepliedInv
<1>2. ASSUME pc[r] = "insert", db[uid[r]] = NoRow, db' = [db EXCEPT ![uid[r]] = NewRow(r)],
             \/ UNCHANGED <<reply, faults>>
             \/ Fault /\ Answer(r, "COMMON_INTERNAL_ERROR")
      PROVE  Contract!Create(r, uid[r])
  <2>1. call[r].op \in {"join", "oauth"}
    BY <1>2 DEF RInv, IInv, PlaceInv
  <2>2. UNCHANGED IssuedView
    BY <1>1, IssuedFrame DEF RInv
  <2>3. UNCHANGED <<reply, faults>> \/ Contract!TellFailure(r)
    BY <1>1, <1>2, AnswerTells DEF RInv, SerialInv, Contract!TellFailure, Contract!Fails, Fault
  <2>4. QED BY <1>1, <1>2, <2>1, <2>2, <2>3 DEF Contract!Create, NewRow
<1>3. CASE pc[r] = "insert" /\ db[uid[r]] # NoRow /\ UNCHANGED <<db, faults>>
             /\ Answer(r, "COMMON_INTERNAL_ERROR")
  <2>1. Contract!Reason(r, uid[r], "COMMON_INTERNAL_ERROR")
    BY <1>3 DEF Contract!Reason, RInv, IInv, PlaceInv
  <2>2. QED BY <1>1, <1>3, <2>1, RefusalRefines
<1>4. CASE Fault /\ Answer(r, "COMMON_INTERNAL_ERROR") /\ UNCHANGED db
  BY <1>1, <1>4, RefusalRefines
<1>5. QED BY <1>1, <1>2, <1>3, <1>4 DEF Insert, StatementFails, Continue

\* Verifications: what is compared is the row if the contract is a fresh one.
LEMMA VerifyRefines ==
  ASSUME RInv, [Next]_vars, NEW r \in Requests, NEW value, Verify(r, value),
         pc[r] \in {"get", "read", "set"}, UNCHANGED <<call, db, stored>>,
         UNCHANGED faults \/ Fault,
         ~Overlap \/ ~CacheEnabled => value = db[Subject(r)].refreshToken
  PROVE  \/ Contract!Refuse(r) \/ (\E u \in Users : Contract!Pass(r, u))
         \/ Contract!Fail \/ UNCHANGED Contract!cvars
<1>1. /\ pc[r] \in InFlight /\ pc[r] # "idle" /\ pc[r] # "done" /\ r \notin stored
      /\ call[r].op \in TokenOp /\ call[r][phase[r]] \in stored /\ call[r] # NoCall
      /\ call[r].op = "refresh" => phase[r] = "refresh"
  BY DEF RInv, IInv, PlaceInv, CalledInv, InFlight
<1>2. CASE UNCHANGED reply
  BY <1>2, QuietSteps DEF RInv
<1>3. CASE phase[r] = "access" /\ call[r].refresh = BadToken /\ Answer(r, "AUTH_UNAUTHORIZED")
  <2>1. call[r].op = "use"
    BY <1>1, <1>3 DEF TokenOp
  <2>2. Contract!Incomplete(call[r]) /\ Contract!TokenRefusal(call[r]) = "AUTH_UNAUTHORIZED"
    BY <1>3, <2>1 DEF Contract!Incomplete, Contract!TokenRefusal
  <2>3. QED BY <1>1, <1>3, <2>2, RefusalRefines
<1>4. ASSUME phase[r] = "refresh"
      PROVE  /\ call[r].refresh \in stored /\ uid[r] \in Users /\ Contract!ActsFor(r, uid[r])
             /\ <<call[r].refresh, uid[r]>> \in IssuedView
             /\ ~Overlap \/ ~CacheEnabled => value = db[uid[r]].refreshToken
  BY <1>1, <1>4, UserOf, RefreshSubject DEF RInv
<1>5. CASE phase[r] = "refresh" /\ value = call[r].refresh /\ call[r].op = "use" /\ Answer(r, "PASS")
  <2>1. call[r].access \in stored
    BY <1>5 DEF RInv, CheckedInv
  <2>2. Contract!Issued = stored /\ IssuedView' = IssuedView
    BY IssuedFacts, IssuedFrame DEF RInv
  <2>3. Contract!Tell(r, "PASS") /\ Contract!MayFail
    BY <1>1, <1>5, AnswerTells DEF RInv, SerialInv, Contract!MayFail, Contract!Fails, Fault
  <2>4. QED BY <1>1, <1>4, <1>5, <2>1, <2>2, <2>3 DEF Contract!Pass
<1>6. CASE phase[r] = "refresh" /\ value # call[r].refresh
             /\ Answer(r, Contract!TokenRefusal(call[r]))
  <2>1. Contract!Reason(r, uid[r], Contract!TokenRefusal(call[r]))
    BY <1>1, <1>4, <1>6 DEF Contract!Reason, TokenOp
  <2>2. QED BY <1>1, <1>4, <1>6, <2>1, RefusalRefines
<1>7. QED
  BY <1>2, <1>3, <1>5, <1>6 DEF Verify, Continue, Contract!TokenRefusal

LEMMA ReadRefines ==
  ASSUME RInv, [Next]_vars, NEW r \in Requests, CacheGet(r) \/ Read(r) \/ CacheSet(r)
  PROVE  \/ Contract!Refuse(r) \/ (\E u \in Users : Contract!Pass(r, u))
         \/ Contract!Fail \/ UNCHANGED Contract!cvars
<1>1. pc[r] \in {"get", "read", "set"} /\ UNCHANGED <<call, db, stored>>
      /\ (UNCHANGED faults \/ Fault)
  BY DEF CacheGet, Read, CacheSet, NoFault
<1>2. CASE UNCHANGED reply
  BY <1>1, <1>2, QuietSteps DEF RInv
<1>3. ASSUME NEW value, Verify(r, value), value = cache[Subject(r)], pc[r] = "get",
             cache[Subject(r)] # Empty
      PROVE  ~Overlap \/ ~CacheEnabled => value = db[Subject(r)].refreshToken
  BY <1>3, ReadsTheRow DEF RInv, RowIsRead
<1>4. ASSUME pc[r] = "set"
      PROVE  ~Overlap \/ ~CacheEnabled => got[r] = db[Subject(r)].refreshToken
  BY <1>4, ReadsTheRow DEF RInv, RowIsRead
<1>5. CASE CacheGet(r)
  BY <1>1, <1>2, <1>3, <1>5, VerifyRefines DEF CacheGet, Continue
<1>6. CASE Read(r)
  BY <1>1, <1>2, <1>6, VerifyRefines DEF Read, Continue
<1>7. CASE CacheSet(r)
  BY <1>1, <1>4, <1>7, VerifyRefines DEF CacheSet
<1>8. QED BY <1>5, <1>6, <1>7

LEMMA FailuresRefine ==
  ASSUME RInv, [Next]_vars, NEW r \in Requests, ReadFails(r) \/ RemoveFails(r)
  PROVE  Contract!Refuse(r)
<1>1. pc[r] \in InFlight /\ r \notin stored /\ UNCHANGED <<call, db, stored>> /\ Fault
  BY DEF ReadFails, RemoveFails, RInv, IInv, PlaceInv, InFlight
<1>2. CASE ReadFails(r)
  <2>1. call[r].op \in TokenOp /\ Answer(r, Contract!TokenRefusal(call[r]))
    BY <1>2 DEF ReadFails, RInv, IInv, PlaceInv, Contract!TokenRefusal
  <2>2. QED BY <1>1, <2>1, RefusalRefines
<1>3. CASE RemoveFails(r)
  BY <1>1, <1>3, RefusalRefines DEF RemoveFails
<1>4. QED BY <1>2, <1>3

\* The UPDATE is the moment of a rotation.
LEMMA UpdateRefines ==
  ASSUME RInv, [Next]_vars, NEW r \in Requests, Update(r) \/ UpdateFails(r)
  PROVE  Contract!Refuse(r) \/ \E u \in Users : Contract!Rotate(r, u)
<1>1. /\ pc[r] = "update" /\ pc[r] \in InFlight /\ pc[r] # "done" /\ r \notin stored
      /\ uid[r] \in Users /\ db[uid[r]] # NoRow /\ call[r].op # "use"
      /\ call' = call /\ uid' = uid /\ reply[r] = NoReply /\ call[r] \in CallType
  BY DEF Update, UpdateFails, RInv, IInv, PlaceInv, CalledInv, SerialInv, RepliedInv, InFlight
<1>2. CASE UNCHANGED <<db, stored>> /\ Fault /\ Answer(r, "COMMON_INTERNAL_ERROR")
  BY <1>1, <1>2, RefusalRefines
<1>3. ASSUME db' = [db EXCEPT ![uid[r]].refreshToken = r], stored' = stored \cup {r},
             \/ UNCHANGED <<reply, faults>>
             \/ Fault /\ Answer(r, "COMMON_INTERNAL_ERROR")
      PROVE  Contract!Rotate(r, uid[r])
  <2>1. call[r].op \in AccountOp \/ call[r].op = "refresh"
    BY <1>1 DEF CallType, Operations, AccountOp
  <2>2. Contract!ActsFor(r, uid[r]) /\ call[r] # NoCall
    <3>1. call[r].op = "refresh" => call[r].refresh # BadToken
      BY <1>1 DEF RInv, SerialInv, RotateInv, IInv, TypeOK
    <3>2. QED BY <1>1, <2>1, <3>1, UserOf DEF RInv
  <2>3. call[r].op \in {"join", "login"} => db[uid[r]].password = call[r].password
    BY <1>1 DEF RInv, JoinedInv, CheckedInv
  <2>4. call[r].op = "refresh" /\ ~Overlap => db[uid[r]].refreshToken = call[r].refresh
    BY <1>1 DEF RInv, SwapInv
  <2>5. Contract!MayRotate(r, uid[r])
    BY <1>1, <2>2, <2>3, <2>4 DEF Contract!MayRotate
  <2>6. r \notin Contract!Issued /\ IssuedView' = IssuedView \cup {<<r, uid[r]>>}
    BY <1>1, <1>3, IssuedFacts DEF RInv, IssuedView
  <2>7. UNCHANGED <<reply, faults>> \/ Contract!TellFailure(r)
    BY <1>1, <1>3, AnswerTells DEF RInv, SerialInv, Contract!TellFailure, Contract!Fails, Fault
  <2>8. QED BY <1>1, <1>3, <2>2, <2>5, <2>6, <2>7 DEF Contract!Rotate
<1>4. QED BY <1>1, <1>2, <1>3 DEF Update, UpdateFails, Continue, NoFault

\* Every step maps to a step of the contract or to none.
LEMMA StepRefines ==
  ASSUME RInv, [Next]_vars
  PROVE  [Contract!CNext]_(Contract!cvars)
<1> USE DEF Contract!CNext
<1>1. ASSUME NEW r \in Requests, NEW c \in Calls, Arrive(r, c)
      PROVE  Contract!CNext
  BY <1>1, ArriveRefines
<1>2. ASSUME NEW r \in Requests, Serve(r), ~Remove(r), ~Respond(r)
      PROVE  [Contract!CNext]_(Contract!cvars)
  BY <1>2, AccountRefines, InsertRefines, ReadRefines, FailuresRefine, UpdateRefines
     DEF Serve
<1>3. ASSUME NEW r \in Requests, Remove(r) \/ Crash(r)
      PROVE  [Contract!CNext]_(Contract!cvars)
  BY <1>3, QuietSteps DEF Remove, Crash, Go, Continue, RInv
<1>4. ASSUME NEW r \in Requests, Respond(r)
      PROVE  Contract!Hand(r)
  <2>1. r \in Contract!Issued /\ UNCHANGED <<IssuedView, call, db, faults>>
    BY <1>4, IssuedFacts, IssuedFrame DEF Respond, RInv, IInv, PlaceInv
  <2>2. Contract!Tell(r, "TOKENS")
    BY <1>4, AnswerTells DEF Respond, RInv, SerialInv
  <2>3. QED BY <2>1, <2>2 DEF Contract!Hand
<1>5. ASSUME NEW u \in Users, Expire(u)
      PROVE  UNCHANGED Contract!cvars
  BY <1>5, IssuedFrame DEF Expire, Contract!cvars, RInv
<1>6. CASE UNCHANGED vars
  BY <1>6, IssuedFrame DEF vars, Contract!cvars, RInv
<1>7. QED BY <1>1, <1>2, <1>3, <1>4, <1>5, <1>6 DEF Next

\* Accounts, tokens and the cache, however requests overlap, fail or crash, give
\* only answers that an atomic session row gives; without overlap every rotation
\* is a compare-and-swap of the row, and without overlap or without a cache every
\* verdict is about the token in it.
THEOREM SessionsAsPromised == Spec => ImplementsSessionContract
<1>1. Init => JoinedInv /\ CheckedInv /\ SwapInv /\ Contract!CInit
  BY DEF Init, JoinedInv, CheckedInv, SwapInv, Contract!CInit, IssuedView
<1>2. RInv /\ [Next]_vars => JoinedInv' /\ CheckedInv' /\ SwapInv'
  BY JoinedStep, CheckedStep, SwapStep DEF RInv
<1>3. Spec => []RInv
  BY <1>1, <1>2, Inductive, SerialInductive, PTL DEF Spec, RInv
<1>4. RInv /\ [Next]_vars => [Contract!CNext]_(Contract!cvars)
  BY StepRefines
<1>5. QED BY <1>1, <1>3, <1>4, PTL DEF Spec, ImplementsSessionContract, Contract!CSpec
=============================================================================
