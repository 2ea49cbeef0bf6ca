--------------------------- MODULE SessionProofs ---------------------------
(***************************************************************************)
(* Theorems about Session, for any requests, users, passwords and faults.  *)
(***************************************************************************)
EXTENDS SessionProps, TLAPS

USE ParametersAssumption, ValuesAssumption, ModelValuesAssumption

AccountOp == {"join", "login", "oauth"}
TokenOp   == {"refresh", "use"}

-----------------------------------------------------------------------------
\* The inductive invariant.

\* What a request asks makes sense: an account call names its user; the tokens
\* of the others have been stored, for the user the request acts for.
CalledInv ==
  \A r \in Requests : pc[r] # "idle" =>
    /\ call[r] \in CallType
    /\ call[r].op \in AccountOp =>
         /\ call[r].user \in Users /\ uid[r] = call[r].user /\ call[r].refresh = BadToken
         /\ call[r].op # "oauth" => call[r].password \in Passwords
    /\ call[r].op \in TokenOp =>
         /\ call[r].user = NoUser
         /\ call[r].access \in stored \cup {BadToken}
         /\ call[r].refresh \in stored \cup {BadToken}
         /\ call[r].refresh # BadToken => uid[r] = uid[call[r].refresh]

\* What each place in the program may rely on.
PlaceInv ==
  \A r \in Requests :
    /\ pc[r] \in {"exist", "insert"} => call[r].op \in {"join", "oauth"}
    /\ pc[r] = "find" => call[r].op \in {"login", "oauth"}
    /\ pc[r] \in {"get", "read", "set"} =>
         /\ call[r].op \in TokenOp
         /\ call[r][phase[r]] \in stored
         /\ call[r].op = "refresh" => phase[r] = "refresh"
    /\ pc[r] \in {"remove", "update", "respond"} =>
         call[r].op # "use" /\ uid[r] \in Users /\ db[uid[r]] # NoRow
    /\ r \in stored => pc[r] \in {"respond", "done", "dead"}
    /\ pc[r] = "respond" \/ reply[r] = "TOKENS" => r \in stored

\* A stored token belongs to a user who has a row.
StoredInv ==
  \A t \in stored : uid[t] \in Users /\ db[uid[t]] # NoRow

IInv == TypeOK /\ CalledInv /\ PlaceInv /\ StoredInv

\* What clients may send.
LEMMA CallFacts ==
  ASSUME NEW c \in Calls, TypeOK, PlaceInv
  PROVE  /\ c \in CallType
         /\ c.op \in AccountOp =>
              /\ c.user \in Users /\ c.refresh = BadToken
              /\ c.op # "oauth" => c.password \in Passwords
         /\ c.op \in TokenOp =>
              /\ c.user = NoUser
              /\ c.access \in stored \cup {BadToken}
              /\ c.refresh \in stored \cup {BadToken}
<1> USE DEF Calls, CallType, Operations, AccountOp, TokenOp
<1>1. Presented \subseteq stored \cup {BadToken} /\ stored \subseteq Requests
  BY DEF Presented, Delivered, PlaceInv, TypeOK
<1>2. CASE \E op \in {"join", "login"}, u \in Users, p \in Passwords : c = Account(op, u, p)
  BY <1>2 DEF Account
<1>3. CASE \E u \in Users : c = Account("oauth", u, NoPassword)
  BY <1>3 DEF Account
<1>4. CASE \E t \in Presented : c = Tokens("refresh", BadToken, t)
  BY <1>4, <1>1 DEF Tokens
<1>5. CASE \E a \in Presented, t \in Presented : c = Tokens("use", a, t)
  BY <1>5, <1>1 DEF Tokens
<1>6. QED BY <1>2, <1>3, <1>4, <1>5

\* The user whose row is read has one.
LEMMA SubjectHasRow ==
  ASSUME IInv, NEW r \in Requests, pc[r] \in {"get", "read", "set"}
  PROVE  Subject(r) \in Users /\ db[Subject(r)] \in Rows
BY DEF IInv, TypeOK, PlaceInv, StoredInv, Subject

-----------------------------------------------------------------------------
LEMMA IInvInit == Init => IInv
BY DEF Init, IInv, TypeOK, CalledInv, PlaceInv, StoredInv, Replies

\* Each variable keeps its type.
LEMMA TypeStep ==
  ASSUME IInv, [Next]_vars
  PROVE  TypeOK'
<1> USE DEF TypeOK, Go, Answer, Continue, NoFault, Fault, InFlight, FirstRead, Rotate,
            Failures, Replies
<1> TypeOK BY DEF IInv
<1>1. ASSUME NEW r \in Requests, NEW c \in Calls, Arrive(r, c) PROVE TypeOK'
  <2>1. c \in CallType
    BY CallFacts DEF IInv
  <2>2. CASE AskAccount(r, c)
    BY <1>1, <2>1, <2>2, CallFacts DEF Arrive, AskAccount, IInv, AccountOp
  <2>3. CASE AskToken(r, c)
    <3>1. c.refresh # BadToken => uid[c.refresh] \in Users
      BY <2>3, CallFacts DEF AskToken, IInv, TokenOp, StoredInv
    <3>2. QED BY <1>1, <2>1, <2>3, <3>1 DEF Arrive, AskToken
  <2>4. QED BY <1>1, <2>2, <2>3 DEF Arrive
<1>2. ASSUME NEW r \in Requests, IsExist(r) PROVE TypeOK'
  BY <1>2 DEF IsExist
<1>3. ASSUME NEW r \in Requests, Insert(r) \/ StatementFails(r) PROVE TypeOK'
  <2>1. pc[r] = "insert" => NewRow(r) \in Rows /\ uid[r] \in Users
    BY DEF IInv, PlaceInv, CalledInv, NewRow, Rows, AccountOp
  <2>2. CASE Insert(r)
    BY <2>1, <2>2 DEF Insert, AfterInsert
  <2>3. CASE StatementFails(r)
    BY <2>1, <2>3 DEF StatementFails
  <2>4. QED BY <1>3, <2>2, <2>3
<1>4. ASSUME NEW r \in Requests, Find(r) PROVE TypeOK'
  BY <1>4 DEF Find
<1>5. ASSUME NEW r \in Requests, CacheGet(r) PROVE TypeOK'
  BY <1>5 DEF CacheGet, Verify
<1>6. ASSUME NEW r \in Requests, Read(r) PROVE TypeOK'
  BY <1>6, SubjectHasRow DEF Read, Verify, Rows
<1>7. ASSUME NEW r \in Requests, ReadFails(r) PROVE TypeOK'
  BY <1>7 DEF ReadFails
<1>8. ASSUME NEW r \in Requests, CacheSet(r) PROVE TypeOK'
  BY <1>8 DEF CacheSet, Verify
<1>9. ASSUME NEW r \in Requests, Remove(r) \/ RemoveFails(r) PROVE TypeOK'
  BY <1>9 DEF Remove, RemoveFails
<1>10. ASSUME NEW r \in Requests, Update(r) \/ UpdateFails(r) PROVE TypeOK'
  <2>1. [db EXCEPT ![uid[r]].refreshToken = r] \in [Users -> Rows \cup {NoRow}]
    BY <1>10 DEF Update, UpdateFails, IInv, PlaceInv, Rows
  <2>2. QED BY <1>10, <2>1 DEF Update, UpdateFails
<1>11. ASSUME NEW r \in Requests, Respond(r) PROVE TypeOK'
  BY <1>11 DEF Respond
<1>12. ASSUME NEW r \in Requests, Crash(r) PROVE TypeOK'
  BY <1>12 DEF Crash
<1>13. ASSUME NEW u \in Users, Expire(u) PROVE TypeOK'
  BY <1>13 DEF Expire
<1>14. CASE UNCHANGED vars
  BY <1>14 DEF vars
<1>15. QED
  BY <1>1, <1>2, <1>3, <1>4, <1>5, <1>6, <1>7, <1>8, <1>9, <1>10, <1>11, <1>12, <1>13,
     <1>14 DEF Next, Serve

-----------------------------------------------------------------------------
\* What no step ever does: forget what a request asks and for whom, take a stored
\* token back, or drop a row or change its password.
LEMMA Frame ==
  ASSUME IInv, [Next]_vars
  PROVE  /\ \A q \in Requests : pc[q] # "idle" =>
              /\ pc'[q] # "idle" /\ call'[q] = call[q] /\ uid'[q] = uid[q]
              /\ current'[q] = current[q]
         /\ stored \subseteq stored'
         /\ \A u \in Users : db[u] # NoRow =>
              db'[u] # NoRow /\ db'[u].password = db[u].password
<1> DEFINE Kept ==
      /\ \A q \in Requests : pc[q] # "idle" =>
           /\ pc'[q] # "idle" /\ call'[q] = call[q] /\ uid'[q] = uid[q]
           /\ current'[q] = current[q]
      /\ stored \subseteq stored'
      /\ \A u \in Users : db[u] # NoRow =>
           db'[u] # NoRow /\ db'[u].password = db[u].password
<1> USE DEF TypeOK, Go, Answer, Continue, InFlight
<1> TypeOK BY DEF IInv
<1>1. ASSUME NEW r \in Requests, NEW c \in Calls, Arrive(r, c) PROVE Kept
  BY <1>1 DEF Arrive, AskAccount, AskToken, FirstRead
<1>2. ASSUME NEW r \in Requests, IsExist(r) \/ Find(r) PROVE Kept
  BY <1>2 DEF IsExist, Find, Rotate
<1>3. ASSUME NEW r \in Requests, Insert(r) \/ StatementFails(r) PROVE Kept
  BY <1>3 DEF Insert, StatementFails, AfterInsert, Rotate
<1>4. ASSUME NEW r \in Requests, CacheGet(r) \/ Read(r) \/ ReadFails(r) \/ CacheSet(r)
      PROVE  Kept
  BY <1>4 DEF CacheGet, Read, ReadFails, CacheSet, Verify, FirstRead, Rotate
<1>5. ASSUME NEW r \in Requests, Remove(r) \/ RemoveFails(r) \/ Respond(r) \/ Crash(r)
      PROVE  Kept
  BY <1>5 DEF Remove, RemoveFails, Respond, Crash
<1>6. ASSUME NEW r \in Requests, Update(r) \/ UpdateFails(r) PROVE Kept
  <2>1. uid[r] \in Users /\ db[uid[r]] \in Rows
    BY <1>6 DEF Update, UpdateFails, IInv, PlaceInv
  <2>2. CASE db' = db
    BY <1>6, <2>2 DEF Update, UpdateFails
  <2>3. CASE db' = [db EXCEPT ![uid[r]].refreshToken = r]
    <3>1. \A u \in Users : db[u] # NoRow =>
            db'[u] # NoRow /\ db'[u].password = db[u].password
      BY <2>1, <2>3 DEF Rows
    <3>2. QED BY <1>6, <3>1 DEF Update, UpdateFails
  <2>4. QED BY <1>6, <2>2, <2>3 DEF Update, UpdateFails
<1>7. ASSUME NEW u \in Users, Expire(u) PROVE Kept
  BY <1>7 DEF Expire
<1>8. CASE UNCHANGED vars
  BY <1>8 DEF vars
<1>9. QED
  BY <1>1, <1>2, <1>3, <1>4, <1>5, <1>6, <1>7, <1>8 DEF Next, Serve

\* A step of one request leaves the others where they are.
LEMMA OneMoves ==
  ASSUME TypeOK, NEW r \in Requests, Serve(r) \/ Crash(r)
  PROVE  /\ pc[r] \in InFlight
         /\ \A q \in Requests \ {r} :
              /\ pc'[q] = pc[q] /\ phase'[q] = phase[q]
              /\ reply'[q] = reply[q] /\ got'[q] = got[q]
<1> DEFINE Others ==
      /\ pc[r] \in InFlight
      /\ \A q \in Requests \ {r} :
           /\ pc'[q] = pc[q] /\ phase'[q] = phase[q]
           /\ reply'[q] = reply[q] /\ got'[q] = got[q]
<1> USE DEF TypeOK, Go, Answer, Continue, InFlight
<1>1. CASE IsExist(r) \/ Insert(r) \/ Find(r) \/ StatementFails(r)
  BY <1>1 DEF IsExist, Insert, Find, StatementFails
<1>2. CASE CacheGet(r) \/ Read(r) \/ ReadFails(r) \/ CacheSet(r)
  BY <1>2 DEF CacheGet, Read, ReadFails, CacheSet, Verify
<1>3. CASE Remove(r) \/ RemoveFails(r) \/ Update(r) \/ UpdateFails(r) \/ Respond(r)
  BY <1>3 DEF Remove, RemoveFails, Update, UpdateFails, Respond
<1>4. CASE Crash(r)
  BY <1>4 DEF Crash
<1>5. QED BY <1>1, <1>2, <1>3, <1>4 DEF Serve

\* Stored tokens keep their users and those users' rows.
LEMMA StoredStep ==
  ASSUME IInv, [Next]_vars
  PROVE  StoredInv'
<1>1. \A t \in stored : uid'[t] \in Users /\ db'[uid'[t]] # NoRow
  BY Frame DEF IInv, StoredInv, PlaceInv, TypeOK
<1>2. stored' = stored \/ \E r \in Requests : stored' = stored \cup {r} /\ pc[r] = "update"
  BY DEF Next, Serve, vars, Arrive, IsExist, Insert, Find, StatementFails, CacheGet, Read,
         ReadFails, CacheSet, Remove, RemoveFails, Update, UpdateFails, Respond, Crash,
         Expire
<1>3. \A r \in Requests : pc[r] = "update" => uid'[r] \in Users /\ db'[uid'[r]] # NoRow
  BY Frame DEF IInv, PlaceInv, TypeOK
<1>4. QED BY <1>1, <1>2, <1>3 DEF StoredInv

\* A call keeps making sense, and a new one does.
LEMMA CalledStep ==
  ASSUME IInv, [Next]_vars
  PROVE  CalledInv'
<1> SUFFICES ASSUME NEW q \in Requests, pc'[q] # "idle" PROVE CalledInv!(q)'
  BY DEF CalledInv
<1>1. \A t \in stored : uid'[t] = uid[t]
  BY Frame DEF IInv, PlaceInv, TypeOK
<1>2. CASE pc[q] # "idle"
  BY <1>1, <1>2, Frame DEF IInv, CalledInv
<1>3. CASE pc[q] = "idle"
  <2>1. PICK c \in Calls : Arrive(q, c)
    BY <1>3, OneMoves DEF Next, vars, Arrive, AskAccount, AskToken, Expire, Go, Answer,
         Continue, InFlight, TypeOK, IInv
  <2>2. call'[q] = c /\ stored' = stored
    BY <2>1 DEF Arrive, IInv, TypeOK
  <2>3. c.op \in AccountOp => uid'[q] = c.user
    BY <2>1 DEF Arrive, AskAccount, AskToken, AccountOp, IInv, TypeOK
  <2>4. c.op \in TokenOp /\ c.refresh # BadToken => uid'[q] = uid[c.refresh]
    BY <2>1 DEF Arrive, AskAccount, AskToken, TokenOp, IInv, TypeOK
  <2>5. QED BY <1>1, <2>2, <2>3, <2>4, CallFacts DEF IInv
<1>4. QED BY <1>2, <1>3

\* Each place keeps what it relies on.
LEMMA PlaceStep ==
  ASSUME IInv, [Next]_vars
  PROVE  PlaceInv'
<1> SUFFICES ASSUME NEW q \in Requests PROVE PlaceInv!(q)'
  BY DEF PlaceInv
<1> TypeOK /\ PlaceInv!(q) BY DEF IInv, PlaceInv
<1> DEFINE At == pc[q] # "idle" =>
      /\ call'[q] = call[q] /\ uid'[q] = uid[q]
      /\ uid[q] \in Users /\ db[uid[q]] # NoRow => db'[uid[q]] # NoRow
<1>1. At /\ stored \subseteq stored'
  BY Frame
<1> USE DEF TypeOK, Go, Answer, Continue, InFlight, AccountOp, TokenOp
<1>2. ASSUME pc'[q] = pc[q], phase'[q] = phase[q], reply'[q] = reply[q], q \in stored' => q \in stored
      PROVE  PlaceInv!(q)'
  <2>1. pc[q] = "idle" => PlaceInv!(q)'
    BY <1>1, <1>2
  <2>2. pc[q] # "idle" => PlaceInv!(q)'
    BY <1>1, <1>2
  <2>3. QED BY <2>1, <2>2
<1>3. ASSUME NEW c \in Calls, Arrive(q, c)
      PROVE  PlaceInv!(q)'
  <2>1. c \in CallType /\ call'[q] = c /\ stored' = stored
    BY <1>3, CallFacts DEF Arrive, IInv
  <2>2. CASE AskAccount(q, c)
    BY <1>3, <2>1, <2>2 DEF Arrive, AskAccount
  <2>3. CASE AskToken(q, c)
    <3>1. /\ c.access \in stored \cup {BadToken} /\ c.refresh \in stored \cup {BadToken}
          /\ c.op \in {"refresh", "use"}
      BY <2>3, CallFacts DEF AskToken, IInv
    <3>2. phase'[q] = IF c.op = "use" THEN "access" ELSE "refresh"
      BY <2>3 DEF AskToken
    <3>3. pc[q] = "idle" /\ q \notin stored /\ reply[q] # "TOKENS"
      BY <1>3 DEF Arrive
    <3>4. \/ pc'[q] = "done" /\ reply'[q] # "TOKENS"
          \/ pc'[q] \in {"get", "read"} /\ reply'[q] = reply[q] /\ c[phase'[q]] \in stored
      BY <2>3, <3>1, <3>2 DEF AskToken, FirstRead
    <3>5. QED BY <2>1, <3>1, <3>2, <3>3, <3>4
  <2>4. QED BY <1>3, <2>2, <2>3 DEF Arrive
<1>4. CASE IsExist(q) \/ Insert(q) \/ Find(q) \/ StatementFails(q)
  <2>1. uid[q] \in Users /\ call'[q] = call[q] /\ uid'[q] = uid[q] /\ stored' = stored
    BY <1>4 DEF IsExist, Insert, Find, StatementFails, IInv, CalledInv
  <2>2. CASE IsExist(q)
    BY <2>1, <2>2 DEF IsExist
  <2>3. CASE Insert(q)
    <3>1. NewRow(q) # NoRow
      BY <2>3 DEF NewRow, Rows, IInv, CalledInv, Insert
    <3>2. QED BY <2>1, <2>3, <3>1 DEF Insert, AfterInsert, Rotate
  <2>4. CASE Find(q)
    BY <2>1, <2>4 DEF Find, Rotate
  <2>5. CASE StatementFails(q)
    BY <2>1, <2>5 DEF StatementFails
  <2>6. QED BY <1>4, <2>2, <2>3, <2>4, <2>5
<1>5. CASE CacheGet(q) \/ Read(q) \/ ReadFails(q) \/ CacheSet(q)
  <2>1. /\ call'[q] = call[q] /\ uid'[q] = uid[q] /\ stored' = stored /\ db' = db
        /\ call[q].refresh # BadToken =>
             call[q].refresh \in stored /\ uid[q] \in Users /\ db[uid[q]] # NoRow
        /\ call[q] \in CallType
    BY <1>5 DEF CacheGet, Read, ReadFails, CacheSet, IInv, CalledInv, StoredInv
  <2>2. CASE ReadFails(q)
    BY <2>1, <2>2 DEF ReadFails
  <2>3. ASSUME NEW v, Verify(q, v), pc[q] \in {"get", "read", "set"}
        PROVE  PlaceInv!(q)'
    <3>1. CASE phase[q] = "access"
      BY <2>1, <2>3, <3>1 DEF Verify, FirstRead
    <3>2. CASE phase[q] = "refresh"
      BY <2>1, <2>3, <3>2 DEF Verify, Rotate
    <3>3. QED BY <3>1, <3>2
  <2>4. CASE CacheGet(q)
    BY <2>1, <2>3, <2>4 DEF CacheGet
  <2>5. CASE Read(q)
    BY <2>1, <2>3, <2>5 DEF Read
  <2>6. CASE CacheSet(q)
    BY <2>1, <2>3, <2>6 DEF CacheSet
  <2>7. QED BY <1>5, <2>2, <2>4, <2>5, <2>6
<1>6. CASE Remove(q) \/ RemoveFails(q) \/ Respond(q) \/ Crash(q)
  BY <1>1, <1>6 DEF Remove, RemoveFails, Respond, Crash
<1>7. CASE Update(q) \/ UpdateFails(q)
  BY <1>1, <1>7 DEF Update, UpdateFails
<1>8. ASSUME NEW r \in Requests, r # q, Serve(r) \/ Crash(r)
      PROVE  PlaceInv!(q)'
  <2>1. q \in stored' => q \in stored
    BY <1>8 DEF Serve, IsExist, Insert, Find, StatementFails, CacheGet, Read, ReadFails,
         CacheSet, Remove, RemoveFails, Update, UpdateFails, Respond, Crash
  <2>2. QED BY <1>2, <1>8, <2>1, OneMoves
<1>9. ASSUME NEW r \in Requests, NEW c \in Calls, r # q, Arrive(r, c)
      PROVE  PlaceInv!(q)'
  <2>1. pc'[q] = pc[q] /\ phase'[q] = phase[q] /\ reply'[q] = reply[q] /\ stored' = stored
    BY <1>9 DEF Arrive, AskAccount, AskToken
  <2>2. QED BY <1>2, <2>1
<1>10. ASSUME NEW u \in Users, Expire(u)
       PROVE  PlaceInv!(q)'
  BY <1>2, <1>10 DEF Expire
<1>11. CASE UNCHANGED vars
  BY <1>2, <1>11 DEF vars
<1>12. QED
  BY <1>3, <1>4, <1>5, <1>6, <1>7, <1>8, <1>9, <1>10, <1>11 DEF Next, Serve

THEOREM Inductive == Spec => []IInv
<1>1. IInv /\ [Next]_vars => IInv'
  BY TypeStep, CalledStep, PlaceStep, StoredStep DEF IInv
<1>2. QED BY IInvInit, <1>1, PTL DEF Spec

\* Every variable has its type, for any instance.
THEOREM TypeCorrect == Spec => []TypeOK
<1>1. IInv => TypeOK
  BY DEF IInv
<1>2. QED BY Inductive, <1>1, PTL

\* Tokens reach their client only after they were in the row, whatever fails
\* (INV-11, no new token without the new row).
THEOREM TokensStored == Spec => [](Delivered \subseteq stored)
<1>1. IInv => Delivered \subseteq stored
  BY DEF IInv, PlaceInv, Delivered
<1>2. QED BY Inductive, <1>1, PTL

-----------------------------------------------------------------------------
\* The account belongs to whom was told it joined.  A joining request that has
\* inserted its row finds its password there.

JoinedInv ==
  \A r \in Requests :
    /\ pc[r] # "idle" /\ call[r].op = "join"
    /\ pc[r] \in {"remove", "update", "respond"} \/ reply[r] = "TOKENS"
    => db[uid[r]] # NoRow /\ db[uid[r]].password = call[r].password

LEMMA JoinedStep ==
  ASSUME IInv, JoinedInv, [Next]_vars
  PROVE  JoinedInv'
<1> SUFFICES ASSUME NEW q \in Requests, call'[q].op = "join", pc'[q] # "idle",
                    pc'[q] \in {"remove", "update", "respond"} \/ reply'[q] = "TOKENS"
             PROVE  db'[uid'[q]] # NoRow /\ db'[uid'[q]].password = call'[q].password
  BY DEF JoinedInv
<1> TypeOK /\ PlaceInv!(q) BY DEF IInv, PlaceInv
<1> DEFINE Mine == pc[q] # "idle" /\ (pc[q] \in {"remove", "update", "respond"} \/ reply[q] = "TOKENS")
<1>1. ASSUME Mine
      PROVE  db'[uid'[q]] # NoRow /\ db'[uid'[q]].password = call'[q].password
  <2>1. call'[q] = call[q] /\ uid'[q] = uid[q] /\ uid[q] \in Users
    BY <1>1, Frame DEF IInv, StoredInv
  <2>2. db[uid[q]] # NoRow /\ db[uid[q]].password = call[q].password
    BY <1>1, <2>1 DEF JoinedInv
  <2>3. QED BY <2>1, <2>2, Frame
<1>2. ASSUME ~Mine
      PROVE  db'[uid'[q]] # NoRow /\ db'[uid'[q]].password = call'[q].password
  <2> USE DEF TypeOK, Go, Answer, Continue, InFlight
  <2>1. \/ Serve(q) \/ Crash(q)
        \/ \E c \in Calls : Arrive(q, c)
    BY <1>2, OneMoves DEF Next, Arrive, AskAccount, AskToken, Expire, vars
  <2>2. reply[q] # "TOKENS"
    BY <1>2 DEF IInv, PlaceInv
  <2>3. ASSUME NEW c \in Calls, Arrive(q, c) PROVE FALSE
    BY <2>2, <2>3 DEF Arrive, AskAccount, AskToken, FirstRead
  <2>4. CASE IsExist(q) \/ Find(q) \/ StatementFails(q) \/ Crash(q)
    BY <1>2, <2>2, <2>4 DEF IsExist, Find, StatementFails, Crash, JoinedInv, Rotate
  <2>5. CASE Insert(q)
    <3>1. db[uid[q]] = NoRow /\ db' = [db EXCEPT ![uid[q]] = NewRow(q)]
      BY <2>2, <2>5 DEF Insert
    <3>2. uid'[q] = uid[q] /\ call'[q] = call[q] /\ uid[q] \in Users
      BY <2>5 DEF Insert, IInv, CalledInv, AccountOp
    <3>3. call[q].password \in Passwords /\ call[q].op = "join"
      <4>1. call[q].op = "join" /\ pc[q] # "idle"
        BY <2>5, <3>2 DEF Insert
      <4>2. QED BY <4>1 DEF IInv, CalledInv, AccountOp
    <3>4. NewRow(q) = [password |-> call[q].password, refreshToken |-> NoToken]
      BY <3>3 DEF NewRow
    <3>5. NewRow(q) \in Rows /\ NewRow(q).password = call[q].password
      BY <3>3, <3>4 DEF Rows
    <3>6. QED BY <3>1, <3>2, <3>5
  <2>6. CASE CacheGet(q) \/ Read(q) \/ ReadFails(q) \/ CacheSet(q)
    <3>1. call[q].op \in TokenOp /\ call'[q] = call[q]
      BY <2>6 DEF CacheGet, Read, ReadFails, CacheSet
    <3>2. QED BY <3>1 DEF TokenOp
  <2>7. CASE Remove(q) \/ RemoveFails(q) \/ Update(q) \/ UpdateFails(q) \/ Respond(q)
    BY <1>2, <2>7 DEF Remove, RemoveFails, Update, UpdateFails, Respond
  <2>8. QED BY <2>1, <2>3, <2>4, <2>5, <2>6, <2>7 DEF Serve
<1>3. QED BY <1>1, <1>2

\* Whoever was told it joined has its own password in the row.
THEOREM JoinersOwnTheirAccount == Spec => []JoinedAccountIsMine
<1>1. Init => JoinedInv
  BY DEF Init, JoinedInv
<1>2. IInv /\ JoinedInv => JoinedAccountIsMine
  <2> SUFFICES ASSUME IInv, JoinedInv, NEW r \in Requests, reply[r] = "TOKENS",
                      call[r].op = "join"
               PROVE  db[call[r].user] # NoRow
                      /\ db[call[r].user].password = call[r].password
    BY DEF JoinedAccountIsMine
  <2>1. pc[r] # "idle"
    BY DEF IInv, PlaceInv
  <2>2. uid[r] = call[r].user
    BY <2>1 DEF IInv, CalledInv, AccountOp
  <2>3. QED BY <2>1, <2>2 DEF JoinedInv
<1>3. IInv /\ JoinedInv /\ [Next]_vars => JoinedInv'
  BY JoinedStep
<1>4. QED BY Inductive, <1>1, <1>2, <1>3, PTL DEF Spec

-----------------------------------------------------------------------------
\* The cache is behind the database, never ahead of it.

\* Every token on its way through the row, the cache and a reader has been stored,
\* for that user.
RowInv == \A u \in Users :
  db[u] # NoRow /\ db[u].refreshToken # NoToken =>
    db[u].refreshToken \in stored /\ uid[db[u].refreshToken] = u
EntryInv == \A u \in Users :
  cache[u] \in Requests => cache[u] \in stored /\ uid[cache[u]] = u
GotInv == \A r \in Requests :
  pc[r] = "set" /\ got[r] # NoToken => got[r] \in stored /\ uid[got[r]] = Subject(r)

ThroughInv == RowInv /\ EntryInv /\ GotInv

\* A stored token keeps its user; a request in flight keeps the user it reads
\* for as long as it keeps its phase.
LEMMA Steady ==
  ASSUME IInv, [Next]_vars
  PROVE  /\ \A t \in stored : t \in stored' /\ uid'[t] = uid[t]
         /\ \A r \in Requests :
              pc[r] \in {"get", "read", "set"} /\ phase'[r] = phase[r] =>
                Subject(r)' = Subject(r)
BY Frame DEF IInv, PlaceInv, TypeOK, Subject

LEMMA ThroughStep ==
  ASSUME IInv, ThroughInv, [Next]_vars
  PROVE  ThroughInv'
<1> USE DEF TypeOK
<1> TypeOK BY DEF IInv
<1>1. ASSUME db' = db
      PROVE  RowInv'
  BY <1>1, Steady DEF ThroughInv, RowInv
<1>2. ASSUME \A u \in Users : cache'[u] \in {cache[u], Empty}
      PROVE  EntryInv'
  BY <1>2, Steady DEF ThroughInv, EntryInv
<1>3. ASSUME NEW r \in Requests, pc'[r] = "set" => pc[r] = "set" /\ got'[r] = got[r] /\ phase'[r] = phase[r],
             pc'[r] = "set", got'[r] # NoToken
      PROVE  got'[r] \in stored' /\ uid'[got'[r]] = Subject(r)'
  BY <1>3, Steady DEF ThroughInv, GotInv
<1> USE DEF Go, Answer, Continue, InFlight
<1>4. ASSUME NEW r \in Requests, NEW c \in Calls, Arrive(r, c)
      PROVE  ThroughInv'
  <2>1. \A q \in Requests : pc'[q] = "set" => pc[q] = "set" /\ got'[q] = got[q] /\ phase'[q] = phase[q]
    BY <1>4 DEF Arrive, AskAccount, AskToken, FirstRead
  <2>2. db' = db /\ cache' = cache
    BY <1>4 DEF Arrive
  <2>3. QED BY <1>1, <1>2, <1>3, <2>1, <2>2 DEF ThroughInv, GotInv
<1>5. ASSUME NEW r \in Requests, pc'[r] # "set",
             \A q \in Requests \ {r} :
               pc'[q] = pc[q] /\ phase'[q] = phase[q] /\ got'[q] = got[q]
      PROVE  GotInv'
  BY <1>3, <1>5 DEF GotInv
<1>6. ASSUME NEW r \in Requests, IsExist(r) \/ Find(r) \/ Respond(r) \/ Crash(r)
      PROVE  ThroughInv'
  <2>1. db' = db /\ cache' = cache /\ pc'[r] # "set"
    BY <1>6 DEF IsExist, Find, Respond, Crash, Rotate
  <2>2. GotInv'
    <3>1. \A q \in Requests \ {r} :
           pc'[q] = pc[q] /\ phase'[q] = phase[q] /\ got'[q] = got[q]
      BY <1>6, OneMoves DEF Serve
    <3>2. QED BY <1>5, <2>1, <3>1
  <2>3. QED BY <1>1, <1>2, <2>1, <2>2 DEF ThroughInv
<1>7. ASSUME NEW r \in Requests, Insert(r) \/ StatementFails(r)
      PROVE  ThroughInv'
  <2>1. cache' = cache /\ pc'[r] # "set"
    BY <1>7 DEF Insert, StatementFails, AfterInsert, Rotate
  <2>2. \/ db' = db
        \/ db' = [db EXCEPT ![uid[r]] = NewRow(r)]
    BY <1>7 DEF Insert, StatementFails
  <2>3. NewRow(r).refreshToken = NoToken
    BY DEF NewRow
  <2>4. RowInv'
    BY <1>1, <2>2, <2>3, Steady DEF ThroughInv, RowInv
  <2>5. GotInv'
    <3>1. \A q \in Requests \ {r} :
           pc'[q] = pc[q] /\ phase'[q] = phase[q] /\ got'[q] = got[q]
      BY <1>7, OneMoves DEF Serve
    <3>2. QED BY <1>5, <2>1, <3>1
  <2>6. QED BY <1>2, <2>1, <2>4, <2>5 DEF ThroughInv
<1>8. ASSUME NEW r \in Requests, CacheGet(r) \/ ReadFails(r)
      PROVE  ThroughInv'
  <2>1. db' = db /\ pc'[r] # "set" /\ \A u \in Users : cache'[u] \in {cache[u], Empty}
    BY <1>8, SubjectHasRow DEF CacheGet, ReadFails, Verify, FirstRead, Rotate
  <2>2. GotInv'
    <3>1. \A q \in Requests \ {r} :
           pc'[q] = pc[q] /\ phase'[q] = phase[q] /\ got'[q] = got[q]
      BY <1>8, OneMoves DEF Serve
    <3>2. QED BY <1>5, <2>1, <3>1
  <2>3. QED BY <1>1, <1>2, <2>1, <2>2 DEF ThroughInv
<1>9. ASSUME NEW r \in Requests, Read(r)
      PROVE  ThroughInv'
  <2>1. db' = db /\ cache' = cache /\ stored' = stored /\ uid' = uid
    BY <1>9 DEF Read
  <2>2. CASE pc'[r] # "set"
    <3>1. GotInv'
      <4>1. \A q \in Requests \ {r} :
             pc'[q] = pc[q] /\ phase'[q] = phase[q] /\ got'[q] = got[q]
        BY <1>9, OneMoves DEF Serve
      <4>2. QED BY <1>5, <2>2, <4>1
    <3>2. QED BY <1>1, <1>2, <2>1, <3>1 DEF ThroughInv
  <2>3. CASE pc'[r] = "set"
    <3>1. got'[r] = db[Subject(r)].refreshToken /\ Subject(r)' = Subject(r)
      BY <1>9, <2>3 DEF Read, Verify, FirstRead, Rotate, Subject
    <3>2. Subject(r) \in Users /\ db[Subject(r)] # NoRow
      BY <1>9, SubjectHasRow DEF Read
    <3>3. got'[r] # NoToken => got'[r] \in stored' /\ uid'[got'[r]] = Subject(r)'
      BY <2>1, <3>1, <3>2 DEF ThroughInv, RowInv
    <3>4. \A q \in Requests \ {r} : pc'[q] = "set" => pc[q] = "set" /\ got'[q] = got[q] /\ phase'[q] = phase[q]
      BY <1>9, OneMoves DEF Serve
    <3>5. GotInv'
      BY <1>3, <3>3, <3>4 DEF GotInv
    <3>6. QED BY <1>1, <1>2, <2>1, <3>5 DEF ThroughInv
  <2>4. QED BY <2>2, <2>3
<1>10. ASSUME NEW r \in Requests, CacheSet(r)
       PROVE  ThroughInv'
  <2>1. db' = db /\ stored' = stored /\ uid' = uid /\ pc[r] = "set" /\ pc'[r] # "set"
    BY <1>10 DEF CacheSet, Verify, FirstRead, Rotate
  <2>2. Subject(r) \in Users
    BY <2>1, SubjectHasRow
  <2>3. cache' = cache \/ cache' = [cache EXCEPT ![Subject(r)] = got[r]]
    BY <1>10 DEF CacheSet
  <2>4. got[r] # NoToken => got[r] \in stored /\ uid[got[r]] = Subject(r)
    BY <2>1 DEF ThroughInv, GotInv
  <2>5. EntryInv'
    BY <2>1, <2>2, <2>3, <2>4 DEF ThroughInv, EntryInv
  <2>6. GotInv'
    <3>1. \A q \in Requests \ {r} :
           pc'[q] = pc[q] /\ phase'[q] = phase[q] /\ got'[q] = got[q]
      BY <1>10, OneMoves DEF Serve
    <3>2. QED BY <1>5, <2>1, <3>1
  <2>7. QED BY <1>1, <2>1, <2>5, <2>6 DEF ThroughInv
<1>11. ASSUME NEW r \in Requests, Remove(r) \/ RemoveFails(r)
       PROVE  ThroughInv'
  <2>1. db' = db /\ pc'[r] # "set" /\ \A u \in Users : cache'[u] \in {cache[u], Empty}
    BY <1>11 DEF Remove, RemoveFails
  <2>2. GotInv'
    <3>1. \A q \in Requests \ {r} :
           pc'[q] = pc[q] /\ phase'[q] = phase[q] /\ got'[q] = got[q]
      BY <1>11, OneMoves DEF Serve
    <3>2. QED BY <1>5, <2>1, <3>1
  <2>3. QED BY <1>1, <1>2, <2>1, <2>2 DEF ThroughInv
<1>12. ASSUME NEW r \in Requests, Update(r) \/ UpdateFails(r)
       PROVE  ThroughInv'
  <2>1. cache' = cache /\ uid' = uid /\ pc'[r] # "set" /\ pc[r] = "update"
    BY <1>12 DEF Update, UpdateFails
  <2>2. \/ db' = db
        \/ db' = [db EXCEPT ![uid[r]].refreshToken = r] /\ stored' = stored \cup {r}
    BY <1>12 DEF Update, UpdateFails
  <2>3. uid[r] \in Users /\ db[uid[r]] \in Rows
    BY <2>1 DEF IInv, PlaceInv
  <2>4. RowInv'
    BY <1>1, <2>1, <2>2, <2>3, Steady DEF ThroughInv, RowInv, Rows
  <2>5. GotInv'
    <3>1. \A q \in Requests \ {r} :
           pc'[q] = pc[q] /\ phase'[q] = phase[q] /\ got'[q] = got[q]
      BY <1>12, OneMoves DEF Serve
    <3>2. QED BY <1>5, <2>1, <3>1
  <2>6. QED BY <1>2, <2>1, <2>4, <2>5 DEF ThroughInv
<1>13. ASSUME NEW u \in Users, Expire(u)
       PROVE  ThroughInv'
  <2>1. db' = db /\ UNCHANGED <<pc, phase, got>> /\ \A v \in Users : cache'[v] \in {cache[v], Empty}
    BY <1>13 DEF Expire
  <2>2. QED BY <1>1, <1>2, <1>3, <2>1 DEF ThroughInv, GotInv
<1>14. CASE UNCHANGED vars
  BY <1>1, <1>2, <1>3, <1>14 DEF vars, ThroughInv, GotInv
<1>15. QED
  BY <1>4, <1>6, <1>7, <1>8, <1>9, <1>10, <1>11, <1>12, <1>13, <1>14 DEF Next, Serve

\* An entry is a token that has been in the row of that user.
THEOREM CacheNeverAhead == Spec => []CacheHoldsOnlyStored
<1>1. Init => ThroughInv
  BY DEF Init, ThroughInv, RowInv, EntryInv, GotInv
<1>2. ThroughInv => CacheHoldsOnlyStored
  BY DEF ThroughInv, EntryInv, CacheHoldsOnlyStored
<1>3. IInv /\ ThroughInv /\ [Next]_vars => ThroughInv'
  BY ThroughStep
<1>4. QED BY Inductive, <1>1, <1>2, <1>3, PTL DEF Spec

-----------------------------------------------------------------------------
\* Rotations at once leave somebody in the session.  As long as nothing has
\* failed, the token of a row is with its client, or about to be sent, or a
\* request of that user is on its way to replace it: none turns back.

Rotating(r, u) ==
  /\ uid[r] = u
  /\ \/ pc[r] \in {"remove", "update"}
     \/ pc[r] = "find" /\ call[r].op = "oauth"

Held(u) ==
  \/ db[u].refreshToken \in Delivered
  \/ \E t \in Requests :
       db[u].refreshToken = t /\ pc[t] = "respond" /\ uid[t] = u
  \/ \E r \in Requests : Rotating(r, u)

HeldInv == faults = 0 => \A u \in Users : db[u] # NoRow => Held(u)

\* A step of r leaves the row as it is, and r on its way if it was.
LEMMA HeldFrame ==
  ASSUME IInv, [Next]_vars, NEW u \in Users, db[u] # NoRow, Held(u),
         db'[u].refreshToken = db[u].refreshToken,
         \A r \in Requests : Rotating(r, u) => Rotating(r, u)',
         \A r \in Requests : pc[r] = "respond" =>
           pc'[r] = "respond" \/ reply'[r] = "TOKENS",
         \A r \in Requests : reply[r] = "TOKENS" => reply'[r] = "TOKENS"
  PROVE  Held(u)'
<1>1. CASE db[u].refreshToken \in Delivered
  BY <1>1 DEF Held, Delivered
<1>2. ASSUME NEW t \in Requests, db[u].refreshToken = t, pc[t] = "respond", uid[t] = u
      PROVE  Held(u)'
  <2>1. uid'[t] = u
    BY <1>2, Frame
  <2>2. CASE pc'[t] = "respond"
    BY <1>2, <2>1, <2>2 DEF Held
  <2>3. CASE reply'[t] = "TOKENS"
    BY <1>2, <2>3 DEF Held, Delivered
  <2>4. QED BY <1>2, <2>2, <2>3
<1>3. ASSUME NEW r \in Requests, Rotating(r, u)
      PROVE  Held(u)'
  BY <1>3 DEF Held
<1>4. QED BY <1>1, <1>2, <1>3 DEF Held

\* What a step without a fault may not do to those on their way.
LEMMA OnTheirWay ==
  ASSUME IInv, Next, faults' = 0, NEW u \in Users, db[u] # NoRow,
         NEW q \in Requests
  PROVE  /\ Rotating(q, u) => Rotating(q, u)' \/ Update(q)
         /\ pc[q] = "respond" => pc'[q] = "respond" \/ reply'[q] = "TOKENS"
         /\ reply[q] = "TOKENS" => reply'[q] = "TOKENS"
<1> DEFINE Stays == /\ Rotating(q, u) => Rotating(q, u)' \/ Update(q)
                    /\ pc[q] = "respond" => pc'[q] = "respond" \/ reply'[q] = "TOKENS"
                    /\ reply[q] = "TOKENS" => reply'[q] = "TOKENS"
<1>0. TypeOK /\ (reply[q] = "TOKENS" => pc[q] \in {"respond", "done", "dead"})
  BY DEF IInv, PlaceInv
<1>1. ASSUME NEW r \in Requests, NEW c \in Calls, Arrive(r, c)
      PROVE  Stays
  BY <1>1, <1>0, Frame DEF Arrive, AskAccount, AskToken, Answer, Continue, Go, TypeOK,
     Rotating, InFlight
<1>2. ASSUME NEW r \in Requests, r # q, Serve(r) \/ Crash(r)
      PROVE  Stays
  BY <1>2, <1>0, OneMoves, Frame DEF Rotating
<1>3. ASSUME Serve(q) \/ Crash(q)
      PROVE  Stays
  <2> USE DEF TypeOK, Answer, Continue, Go, InFlight, Fault, NoFault
  <2>1. faults = 0 /\ pc[q] \in InFlight
    BY <1>0, <1>3, OneMoves DEF Serve, IsExist, Insert, Find, StatementFails, CacheGet, Read, ReadFails,
       CacheSet, Remove, RemoveFails, Update, UpdateFails, Respond, Crash
  <2>2. CASE Find(q)
    BY <1>0, <2>1, <2>2 DEF Find, Rotating, Rotate
  <2>3. CASE Remove(q) \/ Respond(q) \/ Update(q)
    BY <1>0, <2>1, <2>3 DEF Remove, Respond, Update, Rotating
  <2>4. CASE IsExist(q) \/ Insert(q) \/ CacheGet(q) \/ Read(q) \/ CacheSet(q)
    BY <1>0, <2>1, <2>4 DEF IsExist, Insert, CacheGet, Read, CacheSet, Rotating
  <2>5. CASE StatementFails(q) \/ ReadFails(q) \/ RemoveFails(q) \/ UpdateFails(q) \/ Crash(q)
    BY <1>0, <2>1, <2>5 DEF StatementFails, ReadFails, RemoveFails, UpdateFails, Crash
  <2>6. QED BY <1>3, <2>2, <2>3, <2>4, <2>5 DEF Serve
<1>4. ASSUME NEW v \in Users, Expire(v)
      PROVE  Stays
  BY <1>4 DEF Expire, Rotating
<1>5. QED BY <1>1, <1>2, <1>3, <1>4 DEF Next

LEMMA HeldStep ==
  ASSUME IInv, HeldInv, Next
  PROVE  HeldInv'
<1> SUFFICES ASSUME faults' = 0, NEW u \in Users, db'[u] # NoRow
             PROVE  Held(u)'
  BY DEF HeldInv
<1> TypeOK BY DEF IInv
<1> USE DEF TypeOK, Answer, Continue, Go, Fault, NoFault
<1>1. faults = 0
  <2>1. ASSUME NEW r \in Requests, (\E c \in Calls : Arrive(r, c)) \/ IsExist(r)
                 \/ Insert(r) \/ Read(r) \/ Remove(r) \/ Update(r) \/ Respond(r)
        PROVE  faults = 0
    BY <2>1 DEF Arrive, IsExist, Insert, Read, Remove, Update, Respond
  <2>2. ASSUME NEW r \in Requests, Find(r) \/ CacheGet(r) \/ CacheSet(r)
        PROVE  faults = 0
    BY <2>2 DEF Find, CacheGet, CacheSet
  <2>3. ASSUME NEW r \in Requests, StatementFails(r) \/ ReadFails(r) \/ RemoveFails(r)
                 \/ UpdateFails(r) \/ Crash(r)
        PROVE  faults = 0
    BY <2>3 DEF StatementFails, ReadFails, RemoveFails, UpdateFails, Crash
  <2>4. QED BY <2>1, <2>2, <2>3 DEF Next, Serve, Expire
<1>2. \A r \in Requests : ~Crash(r) /\ ~UpdateFails(r) /\ ~StatementFails(r)
  BY <1>1 DEF Crash, UpdateFails, StatementFails
<1>3. ASSUME NEW r \in Requests, Update(r), uid[r] = u
      PROVE  Held(u)'
  <2>1. db[u] \in Rows
    BY <1>3 DEF Update, IInv, PlaceInv
  <2>2. db'[u].refreshToken = r /\ pc'[r] = "respond" /\ uid'[r] = u
    BY <1>3, <2>1 DEF Update, Rows
  <2>3. QED BY <2>2 DEF Held
<1>4. CASE db[u] = NoRow
  <2>0. PICK r \in Requests : Insert(r) \/ Update(r)
    BY <1>2, <1>4 DEF Next, Serve, Arrive, IsExist, Find, CacheGet, Read,
       ReadFails, CacheSet, Remove, RemoveFails, Respond, Expire
  <2>1. Insert(r) /\ uid[r] = u
    <3>1. ~Update(r)
      BY <1>4 DEF Update, IInv, PlaceInv
    <3>2. Insert(r)
      BY <2>0, <3>1
    <3>3. QED BY <1>4, <3>2 DEF Insert
  <2>2. pc'[r] = AfterInsert(r) /\ uid'[r] = u /\ call'[r] = call[r]
    BY <1>4, <2>1 DEF Insert
  <2>3. call[r].op \in {"join", "oauth"}
    BY <2>1 DEF Insert, IInv, PlaceInv
  <2>4. Rotating(r, u)'
    <3>1. pc'[r] \in {"remove", "update"} \/ (pc'[r] = "find" /\ call'[r].op = "oauth")
      BY <2>2, <2>3 DEF AfterInsert, Rotate
    <3>2. QED BY <2>2, <3>1 DEF Rotating
  <2>5. QED BY <2>4 DEF Held
<1>5. CASE db[u] # NoRow /\ ~(\E r \in Requests : Update(r) /\ uid[r] = u)
  <2>1. Held(u)
    BY <1>1, <1>5 DEF HeldInv
  <2>2. db'[u] = db[u]
    BY <1>2, <1>5 DEF Next, Serve, Arrive, IsExist, Insert, Find, CacheGet, Read,
       ReadFails, CacheSet, Remove, RemoveFails, Update, Respond, Expire
  <2>3. \A r \in Requests : Rotating(r, u) => Rotating(r, u)'
    BY <1>5, OnTheirWay DEF Rotating
  <2>4. QED BY <1>5, <2>1, <2>2, <2>3, OnTheirWay, HeldFrame
<1>6. QED BY <1>3, <1>4, <1>5

\* Without failures nobody is locked out of an account: some client holds the token
\* in its row, however many rotations ran at once.
THEOREM SomebodyStaysIn == Spec => []SomebodyHoldsTheSession
<1>1. Init => HeldInv
  BY DEF Init, HeldInv
<1>2. IInv /\ HeldInv => SomebodyHoldsTheSession
  BY DEF HeldInv, Held, Rotating, SomebodyHoldsTheSession, InFlight
<1>3. HeldInv /\ UNCHANGED vars => HeldInv'
  BY DEF HeldInv, Held, Rotating, Delivered, vars
<1>4. IInv /\ HeldInv /\ [Next]_vars => HeldInv'
  BY <1>3, HeldStep
<1>5. QED BY Inductive, <1>1, <1>2, <1>4, PTL DEF Spec
=============================================================================
