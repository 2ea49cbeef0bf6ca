--------------------------- MODULE ProfileProofs ----------------------------
(***************************************************************************)
(* Absence is transient and reads that do not overlap with writes show the *)
(* row, for any number of requests, users, nicknames and faults.           *)
(***************************************************************************)
EXTENDS ProfileProps, FiniteSetTheorems, TLAPS

USE FaultsAssumption, FiniteAssumption, ModelValuesAssumption

-----------------------------------------------------------------------------
\* The inductive invariant.

\* Where a request waits fits what it asks.
At(r) ==
  /\ pc[r] # "idle" => call[r] \in Calls
  /\ pc[r] \in {"get", "read", "set", "drop"} => call[r].op = "read"
  /\ pc[r] = "exist" => call[r].op # "read"
  /\ pc[r] = "remove" => call[r].op \in {"patch", "delete"}
  /\ pc[r] = "insert" => call[r].op = "create"
  /\ pc[r] = "update" => call[r].op = "patch"
  /\ pc[r] = "delete" => call[r].op = "delete"
  /\ pc[r] \in {"idle", "get", "read"} => got[r] = Empty
  /\ pc[r] = "set" => got[r] # Empty
  /\ pc[r] \in InFlight \cup {"idle"} => reply[r] = NoReply
  /\ pc[r] = "drop" => got[r] \in {Absent, Empty}
PlaceInv == \A r \in Requests : At(r)

\* Two requests under way for one user have overlapped.
ApartInv ==
  \A q, r \in Requests :
    q # r /\ pc[q] \in InFlight /\ pc[r] \in InFlight /\ Uid(q) = Uid(r)
      => Uid(r) \in overlapped

\* A result is the row, or says that there is none because one of n faults hit.
Right(result, row, n) ==
  /\ result \in Rows => result = row
  /\ result = Absent => row = Absent \/ n > 0

\* Without overlap the entry is right, so is what a reader holds, and a writer about
\* to change the row has emptied the entry.
FreshAt(r) ==
  pc[r] \in InFlight /\ Uid(r) \notin overlapped =>
    /\ pc[r] \in {"set", "drop"} => Right(got[r], db[Uid(r)], faults)
    /\ pc[r] \in {"update", "delete"} => cache[Uid(r)] = Empty
FreshInv ==
  /\ \A u \in Users \ overlapped : Right(cache[u], db[u], faults)
  /\ \A r \in Requests : FreshAt(r)

IInv == TypeOK /\ PlaceInv /\ ApartInv /\ AbsenceIsTransient /\ FreshInv

\* What clients may send.
LEMMA CallFacts ==
  ASSUME NEW c \in Calls
  PROVE  /\ c \in CallType /\ c # NoCall /\ c.user \in Users
         /\ c.op \in {"create", "patch"} => c.nickname \in Nicknames
<1> USE DEF Calls, Call, CallType, Operations
<1>1. c \in CallType
  OBVIOUS
<1>2. QED BY <1>1

LEMMA InitIInv == Init => IInv
<1> SUFFICES ASSUME Init PROVE IInv
  OBVIOUS
<1> USE DEF Init, InFlight
<1>1. TypeOK
  <2>1. db \in [Users -> Rows \cup {Absent}]
    BY DEF Rows
  <2>2. QED BY <2>1 DEF TypeOK
<1>2. PlaceInv /\ ApartInv /\ AbsenceIsTransient
  BY DEF PlaceInv, At, ApartInv, AbsenceIsTransient
<1>3. FreshInv
  BY DEF FreshInv, FreshAt, Right
<1>4. QED BY <1>1, <1>2, <1>3 DEF IInv

-----------------------------------------------------------------------------
\* A step of r.
Step(r) == (\E c \in Calls : Arrive(r, c)) \/ Serve(r)

\* A step of r leaves the other requests alone, and the calls of those that have one.
LEMMA OthersKeep ==
  ASSUME TypeOK, NEW r \in Requests, Step(r), NEW q \in Requests
  PROVE  /\ q # r => pc'[q] = pc[q] /\ got'[q] = got[q] /\ reply'[q] = reply[q]
         /\ q # r \/ pc[q] # "idle" => call'[q] = call[q]
<1> USE DEF TypeOK, Go, Answer, Continue, Return
<1>1. CASE \E c \in Calls : Arrive(r, c)
  BY <1>1 DEF Arrive
<1>2. CASE IsExist(r) \/ Remove(r) \/ Write(r)
  BY <1>2 DEF IsExist, Remove, Write
<1>3. CASE CacheGet(r) \/ Read(r)
  BY <1>3 DEF CacheGet, Read
<1>4. CASE CacheSet(r) \/ Drop(r) \/ Breaks(r)
  BY <1>4 DEF CacheSet, Drop, Breaks
<1>5. QED BY <1>1, <1>2, <1>3, <1>4 DEF Step, Serve


LEMMA UidIsUser ==
  ASSUME PlaceInv, NEW r \in Requests, pc[r] # "idle"
  PROVE  Uid(r) \in Users /\ call[r] \in CallType
BY CallFacts DEF PlaceInv, At, Uid

\* What a statement makes of the row of its user; no other row changes.
LEMMA StatementEffect ==
  ASSUME TypeOK, PlaceInv, NEW r \in Requests, Statement(r)
  PROVE  /\ db' \in [Users -> Rows \cup {Absent}]
         /\ pc[r] \in {"insert", "update", "delete"} /\ Uid(r) \in Users
         /\ pc[r] = "insert" => db[Uid(r)] = Absent
         /\ \A u \in Users : u # Uid(r) => db'[u] = db[u]
<1>1. pc[r] \in {"insert", "update", "delete"} /\ pc[r] # "idle"
  BY DEF Statement, Insert, Update, Delete
<1>2. Uid(r) \in Users
  BY <1>1, UidIsUser
<1>3. CASE Delete(r)
  BY <1>1, <1>2, <1>3 DEF TypeOK, Delete
<1>4. CASE db' = db /\ Update(r)
  BY <1>1, <1>2, <1>4 DEF TypeOK, Update
<1>5. CASE Store(r) /\ (Insert(r) \/ Update(r))
  <2>1. call[r].nickname \in Nicknames
    BY <1>5, CallFacts DEF PlaceInv, At, Insert, Update
  <2>2. [nickname |-> call[r].nickname, text |-> r] \in Rows
    BY <2>1 DEF Rows
  <2>3. QED BY <1>1, <1>2, <1>5, <2>2 DEF TypeOK, Store, Insert, Update
<1>6. QED BY <1>3, <1>4, <1>5 DEF Statement, Insert, Update

-----------------------------------------------------------------------------
LEMMA TypeStep ==
  ASSUME TypeOK, PlaceInv, [Next]_vars
  PROVE  TypeOK'
<1> USE DEF TypeOK, Go, Answer, Continue, Return, InFlight, Codes, Forget
<1>1. ASSUME NEW r \in Requests, NEW c \in Calls, Arrive(r, c)
      PROVE  TypeOK'
  BY <1>1, CallFacts DEF Arrive
<1>2. ASSUME NEW r \in Requests, IsExist(r) \/ Remove(r)
      PROVE  TypeOK'
  BY <1>2 DEF IsExist, Remove
<1>3. ASSUME NEW r \in Requests, Write(r)
      PROVE  TypeOK'
  BY <1>3, StatementEffect DEF Write
<1>4. ASSUME NEW r \in Requests, CacheGet(r) \/ Read(r)
      PROVE  TypeOK'
  <2>1. pc[r] # "idle"
    BY <1>4 DEF CacheGet, Read
  <2>2. Uid(r) \in Users
    BY <2>1, UidIsUser
  <2>3. CASE CacheGet(r)
    BY <2>2, <2>3 DEF CacheGet
  <2>4. CASE Read(r)
    BY <2>2, <2>4 DEF Read, Fault
  <2>5. QED BY <1>4, <2>3, <2>4
<1>5. ASSUME NEW r \in Requests, CacheSet(r) \/ Drop(r)
      PROVE  TypeOK'
  BY <1>5 DEF CacheSet, Drop
<1>6. ASSUME NEW r \in Requests, Breaks(r)
      PROVE  TypeOK'
  <2>1. db' \in [Users -> Rows \cup {Absent}] /\ cache' \in [Users -> Rows \cup {Absent, Empty}]
    BY <1>6, StatementEffect DEF Breaks
  <2>2. faults' \in 0..MaxFaults
    BY <1>6 DEF Breaks, Fault
  <2>3. QED BY <1>6, <2>1, <2>2 DEF Breaks
<1>7. ASSUME NEW u \in Users, Expire(u)
      PROVE  TypeOK'
  BY <1>7 DEF Expire
<1>8. CASE UNCHANGED vars
  BY <1>8 DEF vars
<1>9. QED BY <1>1, <1>2, <1>3, <1>4, <1>5, <1>6, <1>7, <1>8 DEF Next, Serve

LEMMA PlaceStep ==
  ASSUME TypeOK, PlaceInv, [Next]_vars
  PROVE  PlaceInv'
<1>1. ASSUME NEW r \in Requests, Step(r), At(r)'
      PROVE  PlaceInv'
  <2> SUFFICES ASSUME NEW q \in Requests, q # r PROVE At(q)'
    BY <1>1 DEF PlaceInv
  <2>1. pc'[q] = pc[q] /\ got'[q] = got[q] /\ call'[q] = call[q] /\ reply'[q] = reply[q]
    BY <1>1, OthersKeep
  <2>2. At(q)
    BY DEF PlaceInv
  <2>3. QED BY <2>1, <2>2 DEF At, InFlight
<1>2. ASSUME NEW r \in Requests, Step(r)
      PROVE  At(r)'
  <2> USE DEF TypeOK, Go, Answer, Continue, Return, InFlight
  <2> At(r) BY DEF PlaceInv
  <2>1. CASE \E c \in Calls : Arrive(r, c)
    <3>1. PICK c \in Calls : Arrive(r, c)
      BY <2>1
    <3>2. call'[r] = c /\ pc'[r] \in {"get", "exist"} /\ (pc'[r] = "get" <=> c.op = "read")
          /\ got'[r] = Empty /\ reply'[r] = NoReply
      BY <3>1 DEF Arrive, At
    <3>3. QED BY <3>2 DEF At
  <2>2. CASE IsExist(r) \/ Remove(r)
    <3>1. call[r] \in CallType
      BY <2>2, UidIsUser DEF IsExist, Remove
    <3>2. call[r].op \in Operations
      BY <3>1 DEF CallType
    <3>3. QED BY <2>2, <3>2 DEF IsExist, Remove, At, Operations
  <2>3. CASE Write(r)
    <3>1. pc'[r] = "done" /\ call' = call /\ pc[r] # "idle"
      BY <2>3 DEF Write, Statement, Refused, Insert, Update, Delete
    <3>2. QED BY <3>1 DEF At
  <2>4. CASE CacheGet(r)
    BY <2>4 DEF CacheGet, At
  <2>5. CASE Read(r)
    <3>1. Uid(r) \in Users /\ pc[r] = "read"
      BY <2>5, UidIsUser DEF Read
    <3>2. CASE pc'[r] = "set"
      <4>1. got'[r] = db[Uid(r)] /\ call' = call /\ reply'[r] = NoReply
        BY <2>5, <3>2 DEF Read, At
      <4>2. QED BY <3>1, <3>2, <4>1 DEF At
    <3>3. CASE pc'[r] = "drop"
      BY <2>5, <3>1, <3>3 DEF Read, At
    <3>4. QED BY <2>5, <3>2, <3>3 DEF Read
  <2>6. CASE CacheSet(r) \/ Drop(r)
    BY <2>6 DEF CacheSet, Drop, At
  <2>7. CASE Breaks(r)
    <3>1. pc'[r] \in {"done", "dead"} /\ call' = call /\ pc[r] # "idle"
      BY <2>7 DEF Breaks
    <3>2. QED BY <3>1 DEF At
  <2>8. QED BY <1>2, <2>1, <2>2, <2>3, <2>4, <2>5, <2>6, <2>7 DEF Step, Serve
<1>3. CASE (\E u \in Users : Expire(u)) \/ UNCHANGED vars
  BY <1>3 DEF PlaceInv, At, Expire, vars
<1>4. QED BY <1>1, <1>2, <1>3 DEF Next, Step

LEMMA ApartStep ==
  ASSUME TypeOK, PlaceInv, ApartInv, [Next]_vars
  PROVE  ApartInv' /\ overlapped \subseteq overlapped'
<1>1. ASSUME NEW r \in Requests, Step(r)
      PROVE  ApartInv' /\ overlapped \subseteq overlapped'
  <2>1. overlapped \subseteq overlapped'
    BY <1>1 DEF Step, Serve, Arrive, IsExist, Remove, Write, CacheGet, Read, CacheSet, Drop, Breaks
  <2>2. ASSUME NEW q \in Requests, q # r, pc'[q] \in InFlight, pc'[r] \in InFlight,
               Uid(q)' = Uid(r)'
        PROVE  Uid(r)' \in overlapped'
    <3>1. pc[q] \in InFlight /\ Uid(q)' = Uid(q)
      BY <1>1, <2>2, OthersKeep DEF Uid
    <3>2. CASE \E c \in Calls : Arrive(r, c)
      <4>1. PICK c \in Calls : Arrive(r, c)
        BY <3>2
      <4>2. Uid(r)' = c.user
        BY <4>1 DEF Arrive, Uid, TypeOK
      <4>3. Busy(c.user)
        BY <2>2, <3>1, <4>2 DEF Busy
      <4>4. QED BY <4>1, <4>2, <4>3 DEF Arrive
    <3>3. CASE Serve(r)
      <4>1. pc[r] \in InFlight
        BY <3>3 DEF Serve, IsExist, Remove, Write, Statement, Refused, Insert, Update, Delete,
                    CacheGet, Read, CacheSet, Drop, Breaks, InFlight
      <4>2. Uid(r)' = Uid(r)
        BY <1>1, <4>1, OthersKeep DEF Uid, InFlight
      <4>3. QED BY <2>1, <2>2, <3>1, <4>1, <4>2 DEF ApartInv
    <3>4. QED BY <1>1, <3>2, <3>3 DEF Step
  <2>3. ASSUME NEW p \in Requests, NEW q \in Requests, p # q, p # r, q # r,
               pc'[p] \in InFlight, pc'[q] \in InFlight, Uid(q)' = Uid(p)'
        PROVE  Uid(p)' \in overlapped'
    <3>1. /\ pc[p] \in InFlight /\ Uid(p)' = Uid(p)
          /\ pc[q] \in InFlight /\ Uid(q)' = Uid(q)
      BY <1>1, <2>3, OthersKeep DEF Uid
    <3>2. QED BY <2>1, <2>3, <3>1 DEF ApartInv
  <2>4. QED BY <2>1, <2>2, <2>3 DEF ApartInv
<1>2. CASE (\E u \in Users : Expire(u)) \/ UNCHANGED vars
  BY <1>2 DEF ApartInv, Uid, Expire, vars
<1>3. QED BY <1>1, <1>2 DEF Next, Step

\* Who caches that there is no profile goes on to take it back, and nobody else gives
\* up a removal without a fault.
LEMMA AbsenceStep ==
  ASSUME TypeOK, PlaceInv, AbsenceIsTransient, [Next]_vars
  PROVE  AbsenceIsTransient'
<1> SUFFICES ASSUME faults' = 0, NEW u \in Users, cache'[u] = Absent
             PROVE  \E q \in Requests : pc'[q] = "drop" /\ Uid(q)' = u
  BY DEF AbsenceIsTransient
<1>1. ASSUME NEW r \in Requests, Step(r)
      PROVE  \E q \in Requests : pc'[q] = "drop" /\ Uid(q)' = u
  <2> USE DEF TypeOK, Go, Answer, Continue
  <2>1. CASE Breaks(r)
    BY <2>1 DEF Breaks, Fault
  <2>2. faults = 0
    BY <1>1 DEF Step, Serve, Arrive, IsExist, Remove, Write, CacheGet, Read, CacheSet, Drop,
                Breaks, Fault
  <2>3. CASE CacheSet(r) /\ u = Uid(r) /\ got[r] = Absent
    <3>1. pc'[r] = "drop" /\ Uid(r)' = Uid(r)
      BY <2>3 DEF CacheSet, Return, Uid
    <3>2. QED BY <2>3, <3>1
  <2>4. CASE cache[u] = Absent /\ ~Breaks(r) /\ ~(Drop(r) /\ Uid(r) = u)
    <3>1. PICK q \in Requests : pc[q] = "drop" /\ Uid(q) = u
      BY <2>2, <2>4 DEF AbsenceIsTransient
    <3>2. q # r
      BY <1>1, <2>4, <3>1 DEF Step, Serve, Arrive, IsExist, Remove, Write, Statement, Refused,
         Insert, Update, Delete, CacheGet, Read, CacheSet
    <3>3. QED BY <1>1, <3>1, <3>2, OthersKeep DEF Uid
  <2>5. CASE Drop(r) /\ Uid(r) = u
    BY <2>5 DEF Drop, Forget
  <2>6. CASE cache[u] # Absent /\ ~Breaks(r) /\ ~(CacheSet(r) /\ u = Uid(r) /\ got[r] = Absent)
    BY <1>1, <2>6 DEF Step, Serve, Arrive, IsExist, Remove, Forget, Write, CacheGet, Read,
                      CacheSet, Drop
  <2>7. QED BY <2>1, <2>3, <2>4, <2>5, <2>6
<1>2. CASE (\E v \in Users : Expire(v)) \/ UNCHANGED vars
  <2>1. cache[u] = Absent /\ faults = 0
    BY <1>2 DEF Expire, vars, TypeOK
  <2>2. QED BY <1>2, <2>1 DEF AbsenceIsTransient, Uid, Expire, vars
<1>3. QED BY <1>1, <1>2 DEF Next, Step

-----------------------------------------------------------------------------
\* A user none of whose requests have overlapped has one request under way at most.
LEMMA Alone ==
  ASSUME ApartInv, NEW q \in Requests, NEW r \in Requests, pc[q] \in InFlight,
         pc[r] \in InFlight, Uid(q) = Uid(r), Uid(r) \notin overlapped
  PROVE  q = r
BY DEF ApartInv

LEMMA FreshStep ==
  ASSUME IInv, [Next]_vars
  PROVE  FreshInv'
<1> TypeOK /\ PlaceInv /\ ApartInv /\ AbsenceIsTransient /\ FreshInv BY DEF IInv
<1>1. TypeOK' /\ overlapped \subseteq overlapped'
  BY TypeStep, ApartStep
<1>2. ASSUME NEW r \in Requests, Step(r)
      PROVE  FreshInv'
  <2> PICK w : w = Uid(r) OBVIOUS   \* the user whose entry and row may change
  <2>0. faults \in Nat /\ faults' \in Nat
    BY <1>1 DEF TypeOK
  <2>1. CASE \E c \in Calls : Arrive(r, c)
    <3>1. PICK c \in Calls : Arrive(r, c)
      BY <2>1
    <3>2. UNCHANGED <<got, db, cache, faults>> /\ pc'[r] \in {"get", "exist"}
      BY <3>1 DEF Arrive, Continue, Go, TypeOK
    <3>3. ASSUME NEW q \in Requests, pc'[q] \in {"set", "drop", "update", "delete"}
          PROVE  pc'[q] = pc[q] /\ Uid(q)' = Uid(q)
      BY <1>2, <3>2, <3>3, OthersKeep DEF Uid
    <3>4. ASSUME NEW u \in Users \ overlapped' PROVE Right(cache'[u], db'[u], faults')
      BY <1>1, <3>2 DEF FreshInv, Right
    <3>5. ASSUME NEW q \in Requests PROVE FreshAt(q)'
      BY <1>1, <3>2, <3>3 DEF FreshInv, FreshAt, Right, InFlight
    <3>6. QED BY <3>4, <3>5 DEF FreshInv
  <2>2. CASE Serve(r)
    <3>1. pc[r] \in InFlight
      BY <2>2 DEF Serve, IsExist, Remove, Write, Statement, Refused, Insert, Update, Delete,
                  CacheGet, Read, CacheSet, Drop, Breaks, InFlight
    <3>2. call'[r] = call[r] /\ w \in Users
      BY <1>2, <3>1, OthersKeep, UidIsUser DEF InFlight
    <3>3. faults' >= faults
      BY <2>0, <2>2 DEF Serve, IsExist, Remove, Write, CacheGet, Read, CacheSet, Drop,
                        Breaks, Fault
    <3>4. \A u \in Users : u # w => db'[u] = db[u] /\ cache'[u] = cache[u]
      BY <2>2, StatementEffect DEF Serve, IsExist, Remove, Forget, Write, CacheGet, Read,
         CacheSet, Drop, Breaks, TypeOK
    <3>5. ASSUME w \notin overlapped PROVE Right(cache'[w], db'[w], faults') /\ FreshAt(r)'
      <4> USE DEF TypeOK, Go, Answer, Continue, Return
      <4> Right(cache[w], db[w], faults) /\ FreshAt(r) /\ At(r) BY <3>2, <3>5 DEF FreshInv, PlaceInv
      <4>0. w = Uid(r) /\ Uid(r)' = w
        BY <3>2 DEF Uid
      <4>1. CASE IsExist(r)
        BY <3>2, <4>0, <4>1 DEF IsExist, FreshAt, Right
      <4>2. CASE Remove(r) \/ Drop(r)
        <5>1. cache'[w] = Empty /\ pc'[r] \in {"update", "delete", "done"}
          BY <3>2, <4>0, <4>2 DEF Remove, Drop, Forget
        <5>2. QED BY <4>0, <5>1 DEF FreshAt, Right
      <4>3. CASE Write(r)
        <5>1. pc'[r] = "done" /\ cache' = cache /\ faults' = faults
          BY <4>3 DEF Write, Statement, Refused, Insert, Update, Delete
        <5>2. CASE db' = db
          BY <4>0, <5>1, <5>2 DEF FreshAt, Right
        <5>3. CASE Statement(r) /\ pc[r] = "insert"
          <6>1. db[w] = Absent /\ cache[w] \notin Rows
            BY <4>0, <5>3, StatementEffect DEF Right
          <6>2. cache[w] = Absent => faults > 0
            <7> SUFFICES ASSUME cache[w] = Absent, faults = 0 PROVE FALSE
              BY <2>0
            <7>1. PICK q \in Requests : pc[q] = "drop" /\ Uid(q) = w
              BY <3>2 DEF AbsenceIsTransient
            <7>2. q = r
              BY <3>1, <3>5, <4>0, <7>1, Alone DEF InFlight
            <7>3. QED BY <5>3, <7>1, <7>2
          <6>3. QED BY <4>0, <5>1, <6>1, <6>2 DEF FreshAt, Right
        <5>4. CASE Statement(r) /\ pc[r] # "insert"
          <6>1. cache[w] = Empty
            BY <3>1, <3>5, <4>0, <5>4, StatementEffect DEF FreshAt
          <6>2. QED BY <4>0, <5>1, <6>1 DEF FreshAt, Right
        <5>5. QED BY <4>3, <5>2, <5>3, <5>4 DEF Write
      <4>4. CASE CacheGet(r)
        <5>1. /\ UNCHANGED <<db, cache, faults>>
              /\ pc'[r] = "drop" => got'[r] = cache[w]
              /\ pc'[r] \in {"drop", "done", "read"}
          BY <3>2, <4>0, <4>4 DEF CacheGet
        <5>2. QED BY <4>0, <5>1 DEF FreshAt, Right
      <4>5. CASE Read(r)
        <5>1. /\ UNCHANGED <<db, cache>>
              /\ got'[r] \in {db[w], Empty}
              /\ pc'[r] \in {"set", "drop"}
          BY <3>2, <4>0, <4>5 DEF Read, At
        <5>2. QED BY <2>0, <3>3, <4>0, <5>1 DEF FreshAt, Right
      <4>6. CASE CacheSet(r)
        <5>1. Right(got[r], db[w], faults)
          BY <3>1, <3>5, <4>0, <4>6 DEF FreshAt, CacheSet
        <5>2. /\ UNCHANGED <<db, faults, got>> /\ cache'[w] \in {cache[w], got[r]}
              /\ pc'[r] \in {"done", "drop"}
          BY <3>2, <4>0, <4>6 DEF CacheSet
        <5>3. QED BY <4>0, <5>1, <5>2 DEF FreshAt, Right
      <4>7. CASE Breaks(r)
        <5>1. pc'[r] \in {"done", "dead"} /\ faults' > 0
          BY <2>0, <4>7 DEF Breaks, Fault
        <5>2. \/ UNCHANGED <<db, cache>>
              \/ Statement(r) /\ cache' = cache
              \/ cache'[w] = Empty
              \/ pc[r] = "set" /\ db' = db /\ cache'[w] = got[r]
          BY <3>2, <4>0, <4>7 DEF Breaks, Forget
        <5>3. Right(cache'[w], db'[w], faults')
          <6>1. CASE Statement(r) /\ cache' = cache /\ cache[w] \in Rows
            <7>1. pc[r] = "insert" /\ db[w] = Absent
              BY <3>1, <3>5, <4>0, <6>1, StatementEffect DEF FreshAt
            <7>2. QED BY <6>1, <7>1 DEF Right
          <6>2. CASE pc[r] = "set" /\ db' = db /\ cache'[w] = got[r]
            BY <3>1, <3>5, <4>0, <5>1, <6>2 DEF FreshAt, Right
          <6>3. QED BY <5>1, <5>2, <6>1, <6>2 DEF Right
        <5>4. QED BY <4>0, <5>1, <5>3 DEF FreshAt, InFlight
      <4>8. QED BY <2>2, <4>1, <4>2, <4>3, <4>4, <4>5, <4>6, <4>7 DEF Serve
    <3>6. Uid(r)' = w
      BY <3>2 DEF Uid
    <3>7. ASSUME NEW u \in Users \ overlapped' PROVE Right(cache'[u], db'[u], faults')
      <4>1. CASE u = w
        BY <1>1, <3>5, <4>1
      <4>2. CASE u # w
        BY <1>1, <2>0, <3>3, <3>4, <4>2 DEF FreshInv, Right
      <4>3. QED BY <4>1, <4>2
    <3>8. ASSUME NEW q \in Requests, q # r, pc'[q] \in InFlight, Uid(q)' \notin overlapped'
          PROVE  FreshAt(q)'
      <4>1. pc'[q] = pc[q] /\ got'[q] = got[q] /\ Uid(q)' = Uid(q)
        BY <1>2, <3>8, OthersKeep DEF Uid
      <4>2. Uid(q) # w /\ Uid(q) \notin overlapped
        BY <1>1, <3>1, <3>8, <4>1, Alone
      <4>3. Uid(q) \in Users
        BY <3>8, <4>1, UidIsUser DEF InFlight
      <4>4. QED BY <2>0, <3>3, <3>4, <4>1, <4>2, <4>3 DEF FreshInv, FreshAt, Right
    <3>9. w \notin overlapped' => FreshAt(r)'
      BY <1>1, <3>5
    <3>10. QED BY <3>6, <3>7, <3>8, <3>9 DEF FreshInv, FreshAt
  <2>3. QED BY <1>2, <2>1, <2>2 DEF Step
<1>3. CASE (\E u \in Users : Expire(u)) \/ UNCHANGED vars
  <2>1. /\ UNCHANGED <<pc, call, got, db, faults, overlapped>>
        /\ \A u \in Users : cache'[u] \in {cache[u], Empty}
    BY <1>3 DEF Expire, vars, TypeOK
  <2>2. ASSUME NEW r \in Requests PROVE FreshAt(r)'
    <3>1. pc[r] \in InFlight => Uid(r) \in Users
      BY UidIsUser DEF InFlight
    <3>2. Uid(r)' = Uid(r)
      BY <2>1 DEF Uid
    <3>3. QED BY <2>1, <3>1, <3>2 DEF FreshInv, FreshAt, Right
  <2>3. QED BY <2>1, <2>2 DEF FreshInv, Right
<1>4. QED BY <1>2, <1>3 DEF Next, Step

-----------------------------------------------------------------------------
\* The inductive invariant holds.
THEOREM Inductive == Spec => []IInv
<1>1. IInv /\ [Next]_vars => IInv'
  BY TypeStep, PlaceStep, ApartStep, AbsenceStep, FreshStep DEF IInv
<1>2. QED BY InitIInv, <1>1, PTL DEF Spec

\* Every variable keeps its type.
THEOREM TypeCorrect == Spec => []TypeOK
<1>1. IInv => TypeOK
  BY DEF IInv
<1>2. QED BY Inductive, <1>1, PTL

\* Without faults, a cached absence has a reader under way that takes it back, however
\* many read and write.
THEOREM AbsencePasses == Spec => []AbsenceIsTransient
<1>1. IInv => AbsenceIsTransient
  BY DEF IInv
<1>2. QED BY Inductive, <1>1, PTL

\* A read of a user whose requests have not overlapped shows the row.
THEOREM ReadsShowTheRow == Spec => ReadShowsTheRow
<1> DEFINE Shows ==
      \A r \in Requests :
        pc[r] \in InFlight /\ call[r].op = "read" /\ Uid(r) \notin overlapped =>
          /\ reply'[r] = "SUCCESS" => got'[r] = db[Uid(r)]
          /\ reply'[r] = "USER_INFO_NOT_FOUND" => db[Uid(r)] = Absent \/ faults > 0
<1>1. IInv /\ [Next]_vars => [Shows]_vars
  <2> SUFFICES ASSUME IInv, Next, NEW r \in Requests, pc[r] \in InFlight,
                      call[r].op = "read", Uid(r) \notin overlapped,
                      reply'[r] \in {"SUCCESS", "USER_INFO_NOT_FOUND"}
               PROVE  /\ reply'[r] = "SUCCESS" => got'[r] = db[Uid(r)]
                      /\ reply'[r] = "USER_INFO_NOT_FOUND" => db[Uid(r)] = Absent \/ faults > 0
    OBVIOUS
  <2> TypeOK /\ PlaceInv /\ At(r) BY DEF IInv, PlaceInv
  <2> PICK w : w = Uid(r) OBVIOUS
  <2>1. w \in Users /\ Right(cache[w], db[w], faults) /\ FreshAt(r)
    BY UidIsUser DEF IInv, FreshInv, InFlight
  <2>2. reply[r] = NoReply /\ NoReply \notin {"SUCCESS", "USER_INFO_NOT_FOUND"}
    BY DEF At, Codes
  <2>3. Serve(r)
    <3>1. PICK q \in Requests : Step(q)
      BY <2>2 DEF Next, Step, Expire
    <3>2. q = r
      BY <2>2, <3>1, OthersKeep
    <3>3. QED BY <3>1, <3>2 DEF Step, Arrive, InFlight
  <2> USE DEF TypeOK, Go, Answer, Continue, Return
  <2>4. CASE CacheGet(r)
    BY <2>1, <2>2, <2>4 DEF CacheGet, Right
  <2>5. CASE CacheSet(r)
    <3>1. pc[r] = "set" /\ got'[r] = got[r] /\ got[r] \in Rows \cup {Absent}
      BY <2>5 DEF CacheSet, At
    <3>2. reply'[r] = "SUCCESS" /\ got[r] # Absent
      BY <2>2, <2>5 DEF CacheSet
    <3>3. QED BY <2>1, <3>1, <3>2 DEF FreshAt, Right
  <2>6. CASE Drop(r)
    <3>1. pc[r] = "drop" /\ reply'[r] = "USER_INFO_NOT_FOUND" /\ got[r] = Absent
      BY <2>2, <2>6 DEF Drop
    <3>2. QED BY <2>1, <3>1 DEF FreshAt, Right
  <2>7. ~Breaks(r)
    BY <2>2 DEF Breaks
  <2>8. ~Read(r)
    BY <2>2 DEF Read
  <2>9. ~IsExist(r) /\ ~Remove(r)
    BY DEF IsExist, Remove, At
  <2>10. ~Write(r)
    <3>1. pc[r] # "delete"
      BY DEF At
    <3>2. QED BY <3>1 DEF Write, Statement, Refused, Insert, Update, Delete, At
  <2>11. QED BY <2>3, <2>4, <2>5, <2>6, <2>7, <2>8, <2>9, <2>10 DEF Serve
<1>2. QED BY Inductive, <1>1, PTL DEF Spec, ReadShowsTheRow
-----------------------------------------------------------------------------
\* The answers and the table.

\* What a step of r may do to the row of its user, and to the answers about it.
Inserted(r) ==
  /\ call[r].op = "create" /\ call'[r] = call[r] /\ call[r].nickname \in Nicknames
  /\ db[Uid(r)] = Absent /\ ~Taken(r) /\ Store(r)
Updated(r) ==
  /\ call[r].op = "patch" /\ call'[r] = call[r] /\ call[r].nickname \in Nicknames
  /\ db[Uid(r)] # Absent /\ ~Taken(r) /\ Store(r)
  /\ \A u \in Users : u = Uid(r) => r \in Reached("patch", u)'
Deleted(r) ==
  /\ call[r].op = "delete" /\ call'[r] = call[r]
  /\ db' = [db EXCEPT ![Uid(r)] = Absent]
  /\ \A u \in Users : u = Uid(r) => r \in Reached("delete", u)'
NoWrite(r) ==
  /\ db' = db
  /\ ~(reply'[r] = "SUCCESS" /\ call'[r].op = "create")

LEMMA NotReached ==
  ASSUME TypeOK, PlaceInv, NEW r \in Requests, Step(r), NEW op, NEW u
  PROVE  /\ r \notin Reached(op, u)
         /\ pc[r] = "idle" \/ call'[r] = call[r]
         /\ \A q \in Requests \ {r} : q \in Reached(op, u)' <=> q \in Reached(op, u)
<1>1. pc[r] \in InFlight \cup {"idle"}
  BY DEF Step, Serve, Arrive, IsExist, Remove, Write, Statement, Refused, Insert, Update,
         Delete, CacheGet, Read, CacheSet, Drop, Breaks, InFlight
<1>2. pc[r] # "dead" /\ reply[r] = NoReply /\ NoReply \notin {"SUCCESS", "COMMON_INTERNAL_ERROR"}
  BY <1>1 DEF PlaceInv, At, InFlight, Codes
<1>3. r \notin Reached(op, u)
  BY <1>2 DEF Reached
<1>4. ASSUME NEW q \in Requests \ {r}
      PROVE  q \in Reached(op, u)' <=> q \in Reached(op, u)
  <2>1. pc'[q] = pc[q] /\ reply'[q] = reply[q] /\ call'[q] = call[q]
    BY OthersKeep
  <2>2. QED BY <2>1 DEF Reached
<1>5. pc[r] = "idle" \/ call'[r] = call[r]
  BY OthersKeep
<1>6. QED BY <1>3, <1>4, <1>5

LEMMA RowStep ==
  ASSUME TypeOK, PlaceInv, NEW r \in Requests, Step(r)
  PROVE  Inserted(r) \/ Updated(r) \/ Deleted(r) \/ NoWrite(r)
<1> USE DEF TypeOK, Go, Answer, Continue, Return
<1> At(r) BY DEF PlaceInv
<1>1. NoReply # "SUCCESS"
  BY DEF Codes
<1>2. ASSUME Statement(r), Write(r) \/ Breaks(r)
      PROVE  Inserted(r) \/ Updated(r) \/ Deleted(r) \/ NoWrite(r)
  <2>1. /\ pc[r] \in {"insert", "update", "delete"} /\ UNCHANGED call /\ call[r] # NoCall
        /\ pc'[r] = "dead" \/ reply'[r] \in {"SUCCESS", "COMMON_INTERNAL_ERROR"}
    <3>1. pc[r] \in {"insert", "update", "delete"}
      BY <1>2 DEF Statement, Insert, Update, Delete
    <3>2. call[r] # NoCall
      BY <3>1, CallFacts DEF At
    <3>3. UNCHANGED call
      BY <1>2 DEF Write, Breaks
    <3>4. pc'[r] = "dead" \/ reply'[r] \in {"SUCCESS", "COMMON_INTERNAL_ERROR"}
      BY <1>2 DEF Write, Breaks
    <3>5. QED BY <3>1, <3>2, <3>3, <3>4
  <2>0. call[r].op \in {"create", "patch"} => call[r].nickname \in Nicknames
    BY <2>1, CallFacts DEF At
  <2>2. ASSUME NEW u \in Users, u = Uid(r) PROVE r \in Reached(call[r].op, u)'
    BY <2>1, <2>2 DEF Reached, Uid
  <2>3. CASE Insert(r)
    BY <2>0, <2>1, <2>3 DEF Insert, Inserted, At
  <2>4. CASE Update(r)
    BY <2>0, <2>1, <2>2, <2>4 DEF Update, Updated, NoWrite, At
  <2>5. CASE Delete(r)
    BY <2>1, <2>2, <2>5 DEF Delete, Deleted, At
  <2>6. QED BY <1>2, <2>3, <2>4, <2>5 DEF Statement
<1>3. CASE (\E c \in Calls : Arrive(r, c)) \/ IsExist(r) \/ Remove(r)
  BY <1>1, <1>3 DEF Arrive, IsExist, Remove, NoWrite, At, InFlight
<1>4. CASE CacheGet(r) \/ Read(r) \/ CacheSet(r) \/ Drop(r)
  <2>1. UNCHANGED <<call, db>> /\ call[r].op = "read"
    BY <1>4 DEF CacheGet, Read, CacheSet, Drop, At
  <2>2. QED BY <2>1 DEF NoWrite
<1>5. CASE ~Statement(r) /\ (Write(r) \/ Breaks(r))
  BY <1>1, <1>5 DEF Write, Breaks, NoWrite, At, InFlight
<1>6. QED BY <1>2, <1>3, <1>4, <1>5 DEF Step, Serve

\* ProfilesMatchAnswers for one user, with what the row adds to its first clause.
MatchAt(u) ==
  /\ Cardinality(Created(u))
       <= Cardinality(Reached("delete", u)) + (IF db[u] # Absent THEN 1 ELSE 0)
  /\ Created(u) # {} /\ Reached("delete", u) = {} => db[u] # Absent
  /\ \A r \in Created(u) :
       Reached("delete", u) \cup Reached("patch", u) = {} =>
         db[u] = [nickname |-> call[r].nickname, text |-> r]
MatchInv == Unique(db) /\ \A u \in Users : MatchAt(u)

LEMMA MatchStep ==
  ASSUME TypeOK, PlaceInv, NEW u \in Users, MatchAt(u), NEW r \in Requests, Step(r)
  PROVE  MatchAt(u)'
<1> DEFINE created == Created(u)
           deletes == Reached("delete", u)
           patches == Reached("patch", u)
<1>1. /\ created \subseteq Requests /\ created' \subseteq Requests
      /\ deletes \subseteq Requests /\ deletes' \subseteq Requests
      /\ patches \subseteq Requests /\ patches' \subseteq Requests
  BY DEF Created, Reached
<1>2. /\ r \notin created /\ r \notin deletes
      /\ \A q \in Requests \ {r} : q \in deletes' <=> q \in deletes
      /\ \A q \in Requests \ {r} : q \in patches' <=> q \in patches
  BY NotReached DEF Created
<1>3. \A q \in Requests \ {r} : (q \in created' <=> q \in created) /\ call'[q] = call[q]
  BY NotReached, OthersKeep DEF Created
<1>4. /\ created' = created \/ created' = created \cup {r}
      /\ r \notin created' => created' = created
      /\ deletes' = deletes \/ deletes' = deletes \cup {r}
      /\ r \notin deletes' => deletes' = deletes
  BY <1>1, <1>2, <1>3
<1>5. /\ IsFiniteSet(created) /\ Cardinality(created) \in Nat
      /\ IsFiniteSet(deletes) /\ Cardinality(deletes) \in Nat
  BY <1>1, FS_Subset, FS_CardinalityType
<1>6. /\ Cardinality(created \cup {r}) = Cardinality(created) + 1
      /\ Cardinality(deletes \cup {r}) = Cardinality(deletes) + 1
  BY <1>2, <1>5, FS_AddElement
<1>7. r \notin patches
  BY NotReached
<1>8. CASE db'[u] = db[u] /\ r \notin created'
  <2>1. created' = created
    BY <1>4, <1>8
  <2>2. deletes \subseteq deletes' /\ Cardinality(deletes) <= Cardinality(deletes')
        /\ Cardinality(deletes') \in Nat
    <3>1. CASE deletes' = deletes
      BY <1>5, <3>1
    <3>2. CASE deletes' = deletes \cup {r}
      BY <1>5, <1>6, <3>2
    <3>3. QED BY <1>4, <3>1, <3>2
  <2>3. \A q \in created : call'[q] = call[q]
    BY <1>1, <1>2, <1>3
  <2>4. patches \subseteq patches'
    BY <1>1, <1>2, <1>7
  <2>5. QED BY <1>5, <1>8, <2>1, <2>2, <2>3, <2>4 DEF MatchAt
<1>9. CASE Inserted(r) /\ Uid(r) = u
  <2>1. db'[u] = [nickname |-> call[r].nickname, text |-> r] /\ db'[u] # Absent
    <3>1. db'[u] = [nickname |-> call[r].nickname, text |-> r]
      BY <1>9 DEF Inserted, Store, TypeOK
    <3>2. db'[u] \in Rows
      BY <1>9, <3>1 DEF Inserted, Rows
    <3>3. QED BY <3>1, <3>2
  <2>2. deletes' = deletes
    BY <1>4, <1>9 DEF Inserted, Reached
  <2>3. Cardinality(created') <= Cardinality(created) + 1 /\ Cardinality(created') \in Nat
    <3>1. CASE created' = created
      BY <1>5, <3>1
    <3>2. CASE created' = created \cup {r}
      BY <1>5, <1>6, <3>2
    <3>3. QED BY <1>4, <3>1, <3>2
  <2>4. db[u] = Absent
    BY <1>9 DEF Inserted
  <2>5. deletes = {} => created' \subseteq {r}
    BY <1>4, <2>4 DEF MatchAt
  <2>6. call'[r] = call[r]
    BY <1>9 DEF Inserted
  <2>7. QED BY <1>5, <2>1, <2>2, <2>3, <2>4, <2>5, <2>6 DEF MatchAt
<1>10. CASE Updated(r) /\ Uid(r) = u
  <2>1. db'[u] # Absent /\ db[u] # Absent
    <3>1. db'[u] = [nickname |-> call[r].nickname, text |-> r]
      BY <1>10 DEF Updated, Store, TypeOK
    <3>2. db'[u] \in Rows
      BY <1>10, <3>1 DEF Updated, Rows
    <3>3. QED BY <1>10, <3>2 DEF Updated
  <2>2. deletes' = deletes /\ created' = created
    BY <1>4, <1>10 DEF Updated, Reached, Created
  <2>3. patches' # {}
    BY <1>10 DEF Updated
  <2>4. QED BY <2>1, <2>2, <2>3 DEF MatchAt
<1>11. CASE Deleted(r) /\ Uid(r) = u
  <2>1. r \in deletes' /\ deletes' = deletes \cup {r}
    BY <1>2, <1>4, <1>11 DEF Deleted
  <2>2. created' = created
    BY <1>4, <1>11 DEF Deleted, Reached, Created
  <2>3. Cardinality(created) <= Cardinality(deletes) + 1
    BY <1>5 DEF MatchAt
  <2>4. Cardinality(created') <= Cardinality(deletes') /\ Cardinality(deletes') \in Nat
        /\ Cardinality(created') \in Nat
    <3>1. Cardinality(deletes') = Cardinality(deletes) + 1
      BY <1>6, <2>1
    <3>2. Cardinality(created') = Cardinality(created)
      BY <2>2
    <3>3. QED BY <1>5, <2>3, <3>1, <3>2
  <2>5. QED BY <2>1, <2>4 DEF MatchAt
<1>12. CASE (Inserted(r) \/ Updated(r) \/ Deleted(r)) /\ Uid(r) # u
  <2>1. db'[u] = db[u]
    BY <1>12 DEF Inserted, Updated, Deleted, Store, TypeOK
  <2>2. r \notin created'
    BY <1>12 DEF Inserted, Updated, Deleted, Created, Reached, Uid
  <2>3. QED BY <1>8, <2>1, <2>2
<1>13. CASE NoWrite(r)
  BY <1>8, <1>13 DEF NoWrite, Created, Reached
<1>14. QED BY <1>9, <1>10, <1>11, <1>12, <1>13, RowStep

LEMMA UniqueStep ==
  ASSUME TypeOK, PlaceInv, Unique(db), NEW r \in Requests, Step(r)
  PROVE  Unique(db)'
<1>1. CASE Inserted(r) \/ Updated(r)
  <2>1. ~Taken(r) /\ Store(r) /\ (Inserted(r) \/ Updated(r))
    BY <1>1 DEF Inserted, Updated
  <2>2. ASSUME NEW u \in Users
        PROVE  IF u = Uid(r) THEN db'[u].nickname = call[r].nickname ELSE db'[u] = db[u]
    BY <2>1 DEF Store, TypeOK
  <2>3. \A v \in Users \ {Uid(r)} : db[v] # Absent => db[v].nickname # call[r].nickname
    BY <2>1 DEF Taken
  <2>4. QED BY <2>2, <2>3 DEF Unique
<1>2. CASE Deleted(r) \/ NoWrite(r)
  BY <1>2 DEF Deleted, NoWrite, Unique, TypeOK
<1>3. QED BY <1>1, <1>2, RowStep

\* Whatever overlaps or fails, the table holds what clients were told of their
\* profiles, and no nickname twice.
THEOREM ProfilesAreAsAnswered == Spec => []ProfilesMatchAnswers
<1>1. Init => MatchInv
  <2> SUFFICES ASSUME Init PROVE MatchInv
    OBVIOUS
  <2>1. \A u \in Users : Created(u) = {} /\ Reached("delete", u) = {}
    BY DEF Init, Created, Reached, Codes
  <2>2. Cardinality({}) = 0
    BY FS_EmptySet
  <2>3. \A u \in Users : MatchAt(u)
    BY <2>1, <2>2 DEF MatchAt
  <2>4. QED BY <2>3 DEF Init, MatchInv
<1>2. IInv /\ MatchInv /\ [Next]_vars => MatchInv'
  <2> SUFFICES ASSUME IInv, MatchInv, [Next]_vars PROVE MatchInv'
    OBVIOUS
  <2>1. ASSUME NEW r \in Requests, Step(r)
        PROVE  MatchInv'
    <3>1. Unique(db)'
      BY <2>1, UniqueStep DEF IInv, MatchInv
    <3>2. ASSUME NEW u \in Users PROVE MatchAt(u)'
      BY <2>1, MatchStep DEF IInv, MatchInv
    <3>3. QED BY <3>1, <3>2 DEF MatchInv
  <2>2. CASE (\E u \in Users : Expire(u)) \/ UNCHANGED vars
    <3>1. UNCHANGED <<pc, call, db, reply>>
      BY <2>2 DEF Expire, vars
    <3>2. QED BY <3>1 DEF MatchInv, MatchAt, Created, Reached, Unique
  <2>3. QED BY <2>1, <2>2 DEF Next, Step
<1>3. MatchInv => ProfilesMatchAnswers
  <2> SUFFICES ASSUME MatchInv PROVE ProfilesMatchAnswers
    OBVIOUS
  <2>1. ASSUME NEW u \in Users
        PROVE  Cardinality(Created(u)) <= Cardinality(Reached("delete", u)) + 1
    <3>1. /\ IsFiniteSet(Created(u)) /\ IsFiniteSet(Reached("delete", u))
      BY FS_Subset DEF Created, Reached
    <3>2. Cardinality(Created(u)) \in Nat /\ Cardinality(Reached("delete", u)) \in Nat
      BY <3>1, FS_CardinalityType
    <3>3. QED BY <3>2 DEF MatchInv, MatchAt
  <2>2. QED BY <2>1 DEF MatchInv, MatchAt, ProfilesMatchAnswers
<1>4. QED BY <1>1, <1>2, <1>3, Inductive, PTL DEF Spec

=============================================================================
