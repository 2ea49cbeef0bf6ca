------------------------------ MODULE Session ------------------------------
(***************************************************************************)
(* Accounts, token pairs and the session row behind them:                  *)
(* src/src/user/service/{user-auth,jwt}.service.ts,                        *)
(* src/src/user/repository/user-auth.repository.ts and                     *)
(* src/src/auth/auth.guard.ts.                                             *)
(*                                                                         *)
(* A request is a process and an await ends a step.  The session row       *)
(* (USER_AUTH.REFRESH_TOKEN) is read through TypeORM's query cache in Redis*)
(* (GET, SELECT, SET: three steps) and rotated by removing the cache entry *)
(* and then updating the row (two steps).                                  *)
(*                                                                         *)
(* A token pair is named by the request that generated it: encryptPrimaryKey *)
(* salts every token afresh, so no two are equal.                          *)
(***************************************************************************)
EXTENDS Integers, FiniteSets, TLC

CONSTANTS
  Requests,      \* HTTP requests, and so token pairs
  Users,         \* values of uid
  Passwords,     \* passwords clients use
  Ops,           \* the operations clients call, a subset of Operations
  CacheEnabled,  \* typeOrmConfig: the query cache is on unless NODE_ENV is test
  Overlap,       \* may requests that touch the same user overlap?
  MaxFaults,     \* bound: failing commands and crashes
  NoUser, NoPassword, Social,  \* no value; Social is the '-' of a Google account
  BadToken,      \* a token that is missing, malformed or expired
  NoToken,       \* the empty refreshToken of a new row
  Empty, NoRow, NoCall, NoReply  \* model values

Operations == {"join", "login", "oauth", "refresh", "use"}

ASSUME ParametersAssumption ==
  /\ Ops \subseteq Operations
  /\ CacheEnabled \in BOOLEAN /\ Overlap \in BOOLEAN
  /\ MaxFaults \in Nat
ASSUME ValuesAssumption ==
  /\ NoUser \notin Users
  /\ Social \notin Passwords /\ NoPassword \notin Passwords \cup {Social}
  /\ BadToken \notin Requests /\ NoToken \notin Requests
  /\ Empty \notin Requests \cup {NoToken}

CallType ==
  [op : Operations, user : Users \cup {NoUser},
   password : Passwords \cup {NoPassword},
   access : Requests \cup {BadToken}, refresh : Requests \cup {BadToken}]

Account(op, u, p) ==
  [op |-> op, user |-> u, password |-> p, access |-> BadToken, refresh |-> BadToken]
Tokens(op, a, t) ==
  [op |-> op, user |-> NoUser, password |-> NoPassword, access |-> a, refresh |-> t]

Rows == [password : Passwords \cup {Social}, refreshToken : Requests \cup {NoToken}]

Failures ==
  {"USER_ALREADY_EXISTS", "USER_NOT_FOUND", "AUTH_INVALID_PASSWORD",
   "AUTH_INVALID_REFRESH_TOKEN", "AUTH_UNAUTHORIZED", "COMMON_INTERNAL_ERROR"}
Replies == Failures \cup {"TOKENS", "PASS"}

ASSUME ModelValuesAssumption ==
  NoRow \notin Rows /\ NoCall \notin CallType /\ NoReply \notin Replies

VARIABLES
  pc,       \* where each request is
  call,     \* what it asks
  uid,      \* the user it acts for, once known
  phase,    \* the token whose session row it reads: access or refresh
  got,      \* the refreshToken it has read from the row, on its way to the cache
  db,       \* USER_AUTH: the row of each user
  cache,    \* the cached refreshToken of each user
  reply,    \* what its client was told
  faults,   \* faults so far
  current,  \* history: was its refresh token in the row when it arrived?
  stored    \* history: the tokens that have been in a row

vars == <<pc, call, uid, phase, got, db, cache, reply, faults, current, stored>>

InFlight == {"exist", "insert", "find", "get", "read", "set", "remove", "update",
             "respond"}

Init ==
  /\ pc      = [r \in Requests |-> "idle"]
  /\ call    = [r \in Requests |-> NoCall]
  /\ uid     = [r \in Requests |-> NoUser]
  /\ phase   = [r \in Requests |-> "refresh"]
  /\ got     = [r \in Requests |-> NoToken]
  /\ db      = [u \in Users |-> NoRow]
  /\ cache   = [u \in Users |-> Empty]
  /\ reply   = [r \in Requests |-> NoReply]
  /\ faults  = 0
  /\ current = [r \in Requests |-> FALSE]
  /\ stored  = {}

Go(r, to) == pc' = [pc EXCEPT ![r] = to]
Answer(r, a) == Go(r, "done") /\ reply' = [reply EXCEPT ![r] = a]
Continue(r, to) == Go(r, to) /\ UNCHANGED reply

NoFault == UNCHANGED faults
Fault == faults < MaxFaults /\ faults' = faults + 1

\* Without a cache the lookups begin at the database, and queryResultCache?.remove
\* is nothing.
FirstRead == IF CacheEnabled THEN "get" ELSE "read"
Rotate    == IF CacheEnabled THEN "remove" ELSE "update"

Delivered == {t \in Requests : reply[t] = "TOKENS"}
Presented == Delivered \cup {BadToken}

Calls ==
  {c \in {Account(op, u, p) : op \in {"join", "login"}, u \in Users, p \in Passwords}
         \cup {Account("oauth", u, NoPassword) : u \in Users}
         \cup {Tokens("refresh", BadToken, t) : t \in Presented}
         \cup {Tokens("use", a, t) : a \in Presented, t \in Presented} : c.op \in Ops}

\* The users whose row or cache entry a call reads or writes.
Touches(c) ==
  IF c.user # NoUser THEN {c.user}
  ELSE {uid[t] : t \in {c.access, c.refresh} \ {BadToken}}

Alone(c) ==
  \A q \in Requests : pc[q] \in InFlight => Touches(call[q]) \cap Touches(c) = {}

-----------------------------------------------------------------------------
\* Arrival: the synchronous part of the controllers and of the guard, up to the
\* first await.  A token that jwt.verify refuses ends the request here.
AskAccount(r, c) ==
  /\ c.op \in {"join", "login", "oauth"}
  /\ uid' = [uid EXCEPT ![r] = c.user]
  /\ Continue(r, IF c.op = "login" THEN "find" ELSE "exist")
  /\ UNCHANGED <<phase, current>>

AskToken(r, c) ==
  LET u == uid[c.refresh] IN
  /\ c.op \in {"refresh", "use"}
  /\ IF c.refresh = BadToken THEN UNCHANGED <<uid, current>>
     ELSE /\ uid' = [uid EXCEPT ![r] = u]
          /\ current' = [current EXCEPT ![r] = db[u].refreshToken = c.refresh]
  /\ phase' = [phase EXCEPT ![r] = IF c.op = "use" THEN "access" ELSE "refresh"]
  /\ \/ /\ c[phase'[r]] = BadToken
        /\ Answer(r, IF c.op = "use" THEN "AUTH_UNAUTHORIZED"
                     ELSE "AUTH_INVALID_REFRESH_TOKEN")
     \/ c[phase'[r]] # BadToken /\ Continue(r, FirstRead)

Arrive(r, c) ==
  /\ pc[r] = "idle"
  /\ Overlap \/ Alone(c)
  /\ call' = [call EXCEPT ![r] = c]
  /\ AskAccount(r, c) \/ AskToken(r, c)
  /\ UNCHANGED <<got, db, cache, faults, stored>>

-----------------------------------------------------------------------------
\* Accounts: createNewUser, login, googleOauthLogin.

IsExist(r) ==
  /\ pc[r] = "exist"
  /\ \/ db[uid[r]] = NoRow /\ Continue(r, "insert")
     \/ db[uid[r]] # NoRow /\ call[r].op = "oauth" /\ Continue(r, "find")
     \/ db[uid[r]] # NoRow /\ call[r].op = "join" /\ Answer(r, "USER_ALREADY_EXISTS")
  /\ UNCHANGED <<call, uid, phase, got, db, cache, faults, current, stored>>

NewRowBare(r) ==   \* mutant: refreshToken left undefined
  [password |-> IF call[r].op = "join" THEN call[r].password ELSE Social]
NewRow(r) ==
  [password |-> IF call[r].op = "join" THEN call[r].password ELSE Social,
   refreshToken |-> NoToken]
AfterInsert(r) == IF call[r].op = "join" THEN Rotate ELSE "find"

\* Mutant: repository.save instead of insert, an upsert.
InsertUpserts(r) ==
  /\ pc[r] = "insert"
  /\ db' = [db EXCEPT ![uid[r]] = NewRow(r)]
  /\ Continue(r, AfterInsert(r))
  /\ UNCHANGED <<call, uid, phase, got, cache, faults, current, stored>>

\* Mutant: the new user's tokens are handed out and not stored.
InsertAnswers(r) ==
  /\ pc[r] = "insert" /\ db[uid[r]] = NoRow
  /\ db' = [db EXCEPT ![uid[r]] = NewRow(r)]
  /\ Continue(r, "respond")
  /\ UNCHANGED <<call, uid, phase, got, cache, faults, current, stored>>

\* The primary key refuses a second row; nothing translates that error.
Insert(r) ==
  /\ pc[r] = "insert"
  /\ \/ /\ db[uid[r]] = NoRow
        /\ db' = [db EXCEPT ![uid[r]] = NewRow(r)]
        /\ Continue(r, AfterInsert(r))
     \/ /\ db[uid[r]] # NoRow
        /\ Answer(r, "COMMON_INTERNAL_ERROR") /\ UNCHANGED db
  /\ UNCHANGED <<call, uid, phase, got, cache, faults, current, stored>>

\* getUserAuthEntity, and the password of a login.  A miss awaits the removal of
\* a cache entry nobody ever stores, which may fail.
Find(r) ==
  LET row == db[uid[r]] IN
  /\ pc[r] = "find"
  /\ \/ row = NoRow /\ NoFault /\ Answer(r, "USER_NOT_FOUND")
     \/ row = NoRow /\ CacheEnabled /\ Fault /\ Answer(r, "COMMON_INTERNAL_ERROR")
     \/ /\ row # NoRow /\ NoFault
        /\ \/ /\ call[r].op = "login" /\ row.password # call[r].password
              /\ Answer(r, "AUTH_INVALID_PASSWORD")
           \/ /\ call[r].op = "login" => row.password = call[r].password
              /\ Continue(r, Rotate)
  /\ UNCHANGED <<call, uid, phase, got, db, cache, current, stored>>

-----------------------------------------------------------------------------
\* getUserSessionEntityByUid through the query cache, and what verifyAccessToken,
\* verifyRefreshToken, the guard and refresh do with the row.

\* The user whose row r reads: the uid inside the token of its phase.
Subject(r) == uid[call[r][phase[r]]]

\* Mutant: the refresh token of /refresh is only decoded, not compared.
VerifyWithoutCompare(r, value) ==
  IF phase[r] = "access"
  THEN /\ phase' = [phase EXCEPT ![r] = "refresh"]
       /\ IF call[r].refresh = BadToken THEN Answer(r, "AUTH_UNAUTHORIZED")
          ELSE Continue(r, FirstRead)
  ELSE /\ UNCHANGED phase
       /\ IF call[r].op = "refresh" THEN Continue(r, Rotate)
          ELSE Answer(r, IF value = call[r].refresh THEN "PASS" ELSE "AUTH_UNAUTHORIZED")

\* Mutant: the guard hands the access token to both verifications.
VerifyAccessTwice(r, value) ==
  IF phase[r] = "access"
  THEN /\ phase' = [phase EXCEPT ![r] = "refresh"]
       /\ IF call[r].refresh = BadToken THEN Answer(r, "AUTH_UNAUTHORIZED")
          ELSE Continue(r, FirstRead)
  ELSE /\ UNCHANGED phase
       /\ IF call[r].op = "use"
          THEN Answer(r, IF value = call[r].access THEN "PASS" ELSE "AUTH_UNAUTHORIZED")
          ELSE IF value = call[r].refresh THEN Continue(r, Rotate)
          ELSE Answer(r, "AUTH_INVALID_REFRESH_TOKEN")

Verify(r, value) ==
  \/ /\ phase[r] = "access"   \* the row is there: on to the refresh token
     /\ phase' = [phase EXCEPT ![r] = "refresh"]
     /\ IF call[r].refresh = BadToken THEN Answer(r, "AUTH_UNAUTHORIZED")
        ELSE Continue(r, FirstRead)
  \/ /\ phase[r] = "refresh" /\ UNCHANGED phase
     /\ \/ value = call[r].refresh /\ call[r].op = "use" /\ Answer(r, "PASS")
        \/ value = call[r].refresh /\ call[r].op = "refresh" /\ Continue(r, Rotate)
        \/ /\ value # call[r].refresh
           /\ Answer(r, IF call[r].op = "use" THEN "AUTH_UNAUTHORIZED"
                        ELSE "AUTH_INVALID_REFRESH_TOKEN")

\* The cache's GET.  A failing one is a miss (ignoreErrors).
CacheGet(r) ==
  LET entry == cache[Subject(r)] IN
  /\ pc[r] = "get"
  /\ \/ entry # Empty /\ NoFault /\ Verify(r, entry)
     \/ entry = Empty /\ NoFault /\ Continue(r, "read") /\ UNCHANGED phase
     \/ Fault /\ Continue(r, "read") /\ UNCHANGED phase
  /\ UNCHANGED <<call, uid, got, db, cache, current, stored>>

Read(r) ==
  LET value == db[Subject(r)].refreshToken IN
  /\ pc[r] = "read"
  /\ IF CacheEnabled
     THEN /\ got' = [got EXCEPT ![r] = value]
          /\ Continue(r, "set") /\ UNCHANGED phase
     ELSE Verify(r, value) /\ UNCHANGED got
  /\ UNCHANGED <<call, uid, db, cache, faults, current, stored>>

\* The SELECT fails: the entry is removed, unawaited, and the error becomes a
\* refusal, as every error of the two verifications does.
ReadFails(r) ==
  /\ pc[r] = "read" /\ Fault
  /\ Answer(r, IF call[r].op = "use" THEN "AUTH_UNAUTHORIZED"
               ELSE "AUTH_INVALID_REFRESH_TOKEN")
  /\ \/ UNCHANGED cache
     \/ cache' = [cache EXCEPT ![Subject(r)] = Empty]
  /\ UNCHANGED <<call, uid, phase, got, db, current, stored>>

\* The cache's SET, whatever happened since the SELECT.  A failing one is ignored.
CacheSet(r) ==
  /\ pc[r] = "set"
  /\ \/ cache' = [cache EXCEPT ![Subject(r)] = got[r]] /\ NoFault
     \/ UNCHANGED cache /\ Fault
  /\ Verify(r, got[r])
  /\ got' = [got EXCEPT ![r] = NoToken]
  /\ UNCHANGED <<call, uid, db, current, stored>>

-----------------------------------------------------------------------------
\* JwtService.create: updateUserAuthByUserSessionEntity, then the reply.

RemoveSkipped(r) ==   \* mutant: the entry of another id is removed
  /\ pc[r] = "remove" /\ Continue(r, "update")
  /\ UNCHANGED <<call, uid, phase, got, db, cache, faults, current, stored>>

RemoveWritesThrough(r) ==   \* mutant: the new token is cached before it is stored
  /\ pc[r] = "remove"
  /\ cache' = [cache EXCEPT ![uid[r]] = r]
  /\ Continue(r, "update")
  /\ UNCHANGED <<call, uid, phase, got, db, faults, current, stored>>

Remove(r) ==
  /\ pc[r] = "remove"
  /\ cache' = [cache EXCEPT ![uid[r]] = Empty]
  /\ Continue(r, "update")
  /\ UNCHANGED <<call, uid, phase, got, db, faults, current, stored>>

RemoveFails(r) ==
  /\ pc[r] = "remove" /\ Fault
  /\ Answer(r, "COMMON_INTERNAL_ERROR")
  /\ UNCHANGED cache \/ cache' = [cache EXCEPT ![uid[r]] = Empty]
  /\ UNCHANGED <<call, uid, phase, got, db, current, stored>>

Update(r) ==
  /\ pc[r] = "update"
  /\ db' = [db EXCEPT ![uid[r]].refreshToken = r]
  /\ stored' = stored \cup {r}
  /\ Continue(r, "respond")
  /\ UNCHANGED <<call, uid, phase, got, cache, faults, current>>

UpdateFailsSilently(r) ==   \* mutant: the error of the UPDATE is swallowed
  /\ pc[r] = "update" /\ Fault
  /\ Continue(r, "respond")
  /\ UNCHANGED <<call, uid, phase, got, db, cache, current, stored>>

\* The UPDATE is refused, or applied with its answer lost.
UpdateFails(r) ==
  /\ pc[r] = "update" /\ Fault
  /\ Answer(r, "COMMON_INTERNAL_ERROR")
  /\ \/ UNCHANGED <<db, stored>>
     \/ /\ db' = [db EXCEPT ![uid[r]].refreshToken = r]
        /\ stored' = stored \cup {r}
  /\ UNCHANGED <<call, uid, phase, got, cache, current>>

Respond(r) ==
  /\ pc[r] = "respond" /\ Answer(r, "TOKENS")
  /\ UNCHANGED <<call, uid, phase, got, db, cache, faults, current, stored>>

\* Any other statement on USER_AUTH fails; an INSERT may have been applied.
StatementFails(r) ==
  /\ pc[r] \in {"exist", "insert", "find"} /\ Fault
  /\ Answer(r, "COMMON_INTERNAL_ERROR")
  /\ \/ UNCHANGED db
     \/ /\ pc[r] = "insert" /\ db[uid[r]] = NoRow
        /\ db' = [db EXCEPT ![uid[r]] = NewRow(r)]
  /\ UNCHANGED <<call, uid, phase, got, cache, current, stored>>

-----------------------------------------------------------------------------
\* The 6h of a cache entry run out.
Expire(u) ==
  /\ cache[u] # Empty
  /\ cache' = [cache EXCEPT ![u] = Empty]
  /\ UNCHANGED <<pc, call, uid, phase, got, db, reply, faults, current, stored>>

\* The server process of r dies.
Crash(r) ==
  /\ pc[r] \in InFlight /\ Fault
  /\ Go(r, "dead")
  /\ UNCHANGED <<call, uid, phase, got, db, cache, reply, current, stored>>

Serve(r) ==
  \/ IsExist(r) \/ Insert(r) \/ Find(r) \/ StatementFails(r)
  \/ CacheGet(r) \/ Read(r) \/ ReadFails(r) \/ CacheSet(r)
  \/ Remove(r) \/ RemoveFails(r) \/ Update(r) \/ UpdateFails(r)
  \/ Respond(r)

Next ==
  \/ \E r \in Requests : (\E c \in Calls : Arrive(r, c)) \/ Serve(r) \/ Crash(r)
  \/ \E u \in Users : Expire(u)

Spec == Init /\ [][Next]_vars
=============================================================================
