------------------------------ MODULE Profile -------------------------------
(***************************************************************************)
(* Profiles and their cached row: src/src/user/service/                    *)
(* user-info.service.ts and src/src/user/repository/                       *)
(* user-info.repository.ts, over the table USER_INFO.                      *)
(*                                                                         *)
(* A request is a process and an await ends a step.  A profile is read     *)
(* through TypeORM's query cache (GET, SELECT, SET), which also keeps the  *)
(* answer that there is no row; findUserInfoEntity takes that one back.    *)
(* Updates and deletions remove the entry first; a creation leaves it.     *)
(* A text names the request that wrote it.                                 *)
(***************************************************************************)
EXTENDS Integers, FiniteSets, TLC

CONSTANTS
  Requests,      \* HTTP requests that passed the guards, and reads for the likes of a post
  Users,         \* values of uid; each has its row in USER_AUTH
  Nicknames,     \* nicknames clients use
  MaxFaults,     \* bound: failing commands and crashes
  NoName,        \* no nickname
  Old,           \* the writer of the profiles of the start
  Absent,        \* no row
  Empty,         \* no cache entry
  NoCall, NoReply  \* model values

ASSUME FaultsAssumption == MaxFaults \in Nat
ASSUME FiniteAssumption == IsFiniteSet(Requests)

Rows == [nickname : Nicknames, text : Requests \cup {Old}]
Operations == {"create", "read", "patch", "delete"}
CallType == [op : Operations, user : Users, nickname : Nicknames \cup {NoName}]

Call(op, u, n) == [op |-> op, user |-> u, nickname |-> n]
Calls ==
  {Call(op, u, n) : op \in {"create", "patch"}, u \in Users, n \in Nicknames}
  \cup {Call(op, u, NoName) : op \in {"read", "delete"}, u \in Users}

Codes == {"SUCCESS", "USER_INFO_ALREADY_EXISTS", "USER_INFO_NOT_FOUND",
          "COMMON_INTERNAL_ERROR"}

ASSUME ModelValuesAssumption ==
  /\ Absent \notin Rows /\ Empty \notin Rows \cup {Absent}
  /\ NoCall \notin CallType /\ NoReply \notin Codes /\ NoName \notin Nicknames

VARIABLES
  pc,       \* where each request is
  call,     \* what it asks
  got,      \* the result a read has got, of the SELECT or of the cache
  db,       \* USER_INFO
  cache,    \* the entry UserInfoEntity_{uid}: a row, Absent, or Empty
  reply,    \* what its client was told
  faults,   \* faults so far
  overlapped \* history: the users two of whose requests were under way at once

vars == <<pc, call, got, db, cache, reply, faults, overlapped>>

InFlight == {"exist", "insert", "get", "read", "set", "drop", "remove", "update", "delete"}

Unique(table) ==
  \A u, v \in Users :
    u # v /\ table[u] # Absent /\ table[v] # Absent => table[u].nickname # table[v].nickname

Init ==
  /\ pc    = [r \in Requests |-> "idle"]
  /\ call  = [r \in Requests |-> NoCall]
  /\ got   = [r \in Requests |-> Empty]
  /\ db \in [Users -> {Absent} \cup [nickname : Nicknames, text : {Old}]] /\ Unique(db)
  /\ cache = [u \in Users |-> Empty]
  /\ reply = [r \in Requests |-> NoReply]
  /\ faults = 0
  /\ overlapped = {}

Go(r, to) == pc' = [pc EXCEPT ![r] = to]
Answer(r, code) == Go(r, "done") /\ reply' = [reply EXCEPT ![r] = code]
Continue(r, to) == Go(r, to) /\ UNCHANGED reply
Fault == faults < MaxFaults /\ faults' = faults + 1

Uid(r) == call[r].user
Busy(u) == \E q \in Requests : pc[q] \in InFlight /\ Uid(q) = u

Arrive(r, c) ==
  /\ pc[r] = "idle"
  /\ call' = [call EXCEPT ![r] = c]
  /\ overlapped' = IF Busy(c.user) THEN overlapped \cup {c.user} ELSE overlapped
  /\ Continue(r, IF c.op = "read" THEN "get" ELSE "exist")
  /\ UNCHANGED <<got, db, cache, faults>>

-----------------------------------------------------------------------------
\* createUserInfo, updateUserInfo, deleteUserInfoByUid.

IsExist(r) ==
  LET exists == db[Uid(r)] # Absent IN
  /\ pc[r] = "exist"
  /\ \/ call[r].op = "create" /\ exists /\ Answer(r, "USER_INFO_ALREADY_EXISTS")
     \/ call[r].op = "create" /\ ~exists /\ Continue(r, "insert")
     \/ call[r].op # "create" /\ exists /\ Continue(r, "remove")
     \/ call[r].op # "create" /\ ~exists /\ Answer(r, "USER_INFO_NOT_FOUND")
  /\ UNCHANGED <<call, got, db, cache, faults, overlapped>>

Forget(r) == cache' = [cache EXCEPT ![Uid(r)] = Empty]

RemoveNothing(r) ==   \* mutant: the entry of another id is removed
  /\ pc[r] = "remove"
  /\ Continue(r, IF call[r].op = "patch" THEN "update" ELSE "delete")
  /\ UNCHANGED <<call, got, db, cache, faults, overlapped>>

Remove(r) ==
  /\ pc[r] = "remove" /\ Forget(r)
  /\ Continue(r, IF call[r].op = "patch" THEN "update" ELSE "delete")
  /\ UNCHANGED <<call, got, db, faults, overlapped>>

\* The two unique keys of USER_INFO.
Taken(r) ==
  \E v \in Users \ {Uid(r)} : db[v] # Absent /\ db[v].nickname = call[r].nickname

StoreNameless(r) ==   \* mutant: the DAO forgets the nickname
  db' = [db EXCEPT ![Uid(r)] = [nickname |-> NoName, text |-> r]]
Store(r) == db' = [db EXCEPT ![Uid(r)] = [nickname |-> call[r].nickname, text |-> r]]

InsertSaves(r) ==   \* mutant: repository.save instead of insert, an upsert
  pc[r] = "insert" /\ ~Taken(r) /\ Store(r)
Insert(r) ==
  pc[r] = "insert" /\ db[Uid(r)] = Absent /\ ~Taken(r) /\ Store(r)

\* An UPDATE of a row that is gone succeeds.
Update(r) ==
  /\ pc[r] = "update"
  /\ \/ db[Uid(r)] = Absent /\ UNCHANGED db
     \/ db[Uid(r)] # Absent /\ ~Taken(r) /\ Store(r)

Delete(r) == pc[r] = "delete" /\ db' = [db EXCEPT ![Uid(r)] = Absent]

Statement(r) == Insert(r) \/ Update(r) \/ Delete(r)

\* A duplicate is an unhandled error.
Refused(r) ==
  \/ pc[r] = "insert" /\ (db[Uid(r)] # Absent \/ Taken(r))
  \/ pc[r] = "update" /\ db[Uid(r)] # Absent /\ Taken(r)

Write(r) ==
  /\ \/ Statement(r) /\ Answer(r, "SUCCESS")
     \/ Refused(r) /\ Answer(r, "COMMON_INTERNAL_ERROR") /\ UNCHANGED db
  /\ UNCHANGED <<call, got, cache, faults, overlapped>>

-----------------------------------------------------------------------------
\* getUserInfoByUid, for a client or for the likes of a post.

\* findOneOrFail throws on no row; the catch removes the entry, then rethrows.
ReturnAbsent(r, value) ==   \* mutant: no removal in the catch
  Answer(r, IF value = Absent THEN "USER_INFO_NOT_FOUND" ELSE "SUCCESS")
Return(r, value) ==
  \/ value # Absent /\ Answer(r, "SUCCESS")
  \/ value = Absent /\ Continue(r, "drop")

\* No entry, a failing GET (ignoreErrors) and no cache at all are one.
CacheGet(r) ==
  /\ pc[r] = "get"
  /\ \/ /\ cache[Uid(r)] # Empty
        /\ got' = [got EXCEPT ![r] = cache[Uid(r)]]
        /\ Return(r, cache[Uid(r)])
     \/ UNCHANGED got /\ Continue(r, "read")
  /\ UNCHANGED <<call, db, cache, faults, overlapped>>

Read(r) ==
  /\ pc[r] = "read"
  /\ \/ /\ got' = [got EXCEPT ![r] = db[Uid(r)]]
        /\ Continue(r, "set") /\ UNCHANGED faults
     \/ Fault /\ Continue(r, "drop") /\ UNCHANGED got
  /\ UNCHANGED <<call, db, cache, overlapped>>

\* Whatever has been written since the SELECT.  A failing SET is ignored.
CacheSet(r) ==
  /\ pc[r] = "set"
  /\ UNCHANGED cache \/ cache' = [cache EXCEPT ![Uid(r)] = got[r]]
  /\ Return(r, got[r])
  /\ UNCHANGED <<call, got, db, faults, overlapped>>

Drop(r) ==
  /\ pc[r] = "drop" /\ Forget(r)
  /\ Answer(r, IF got[r] = Absent THEN "USER_INFO_NOT_FOUND" ELSE "COMMON_INTERNAL_ERROR")
  /\ UNCHANGED <<call, got, db, faults, overlapped>>

-----------------------------------------------------------------------------
\* A command fails, and its error is the answer, or the server dies.  Either way
\* the command may have been executed.
Breaks(r) ==
  /\ Fault
  /\ \/ pc[r] \in InFlight \ {"get", "read", "set"} /\ Answer(r, "COMMON_INTERNAL_ERROR")
     \/ pc[r] \in InFlight /\ Continue(r, "dead")
  /\ \/ UNCHANGED <<db, cache>>
     \/ Statement(r) /\ UNCHANGED cache
     \/ pc[r] \in {"remove", "drop"} /\ Forget(r) /\ UNCHANGED db
     \/ /\ pc[r] = "set" /\ UNCHANGED db
        /\ cache' = [cache EXCEPT ![Uid(r)] = got[r]]
  /\ UNCHANGED <<call, got, overlapped>>

\* The 24 hours of an entry run out.
Expire(u) ==
  /\ cache[u] # Empty
  /\ cache' = [cache EXCEPT ![u] = Empty]
  /\ UNCHANGED <<pc, call, got, db, reply, faults, overlapped>>

Serve(r) ==
  \/ IsExist(r) \/ Remove(r) \/ Write(r)
  \/ CacheGet(r) \/ Read(r) \/ CacheSet(r) \/ Drop(r) \/ Breaks(r)

Next ==
  \/ \E r \in Requests : (\E c \in Calls : Arrive(r, c)) \/ Serve(r)
  \/ \E u \in Users : Expire(u)

Spec == Init /\ [][Next]_vars
=============================================================================
