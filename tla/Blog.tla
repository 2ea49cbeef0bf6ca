-------------------------------- MODULE Blog --------------------------------
(***************************************************************************)
(* Posts, their likes and their cached pages:                              *)
(* src/src/blog/{controller,service,repository,entities} and               *)
(* src/src/utils/pagination.utils.ts, over the tables POST and POST_LIKE   *)
(* with the keys of src/src/migrations.                                    *)
(*                                                                         *)
(* A request is a process and an await ends a step.  A page is read through *)
(* TypeORM's query cache: the list and the number of rows are two queries   *)
(* with an entry each (GET, SELECT, SET), and no write removes an entry.    *)
(* A text names the request that wrote it.                                 *)
(***************************************************************************)
EXTENDS Integers, FiniteSets, TLC

CONSTANTS
  Requests,      \* HTTP requests that passed the guards
  Users,         \* values of uid
  Ops,           \* the operations clients call, a subset of Operations
  MaxPage,       \* bound: the largest ?page=
  Asked,         \* bound: those of 1..MaxPage that clients ask for
  OldPosts,      \* posts there are at the start: 1..OldPosts
  OldLikes,      \* bound: likes there are at the start
  MaxPosts,      \* bound: postIds are 1..MaxPosts
  Take,          \* PaginationUtils.TAKE
  Nameless,      \* the users whose profile a read may miss (module Profile says when)
  MaxLists,      \* bound: requests for a list
  MaxFaults,     \* bound: failing statements
  All,           \* the feed of GET /posts; that of a user is named by the uid
  Old,           \* the text of a post of the start
  NoCall, NoReply  \* model values

Operations == {"create", "patch", "delete", "like", "unlike", "read", "list"}

ASSUME ParametersAssumption ==
  /\ Ops \subseteq Operations
  /\ MaxPage \in Nat \ {0} /\ Asked \subseteq 1..MaxPage
  /\ OldPosts \in Nat /\ MaxPosts \in Nat /\ OldPosts <= MaxPosts
  /\ Take \in Nat \ {0}
  /\ OldLikes \in Nat /\ MaxLists \in Nat /\ MaxFaults \in Nat
ASSUME ValuesAssumption ==
  /\ All \notin Users /\ Old \notin Requests /\ Nameless \subseteq Users
  /\ IsFiniteSet(Users) /\ IsFiniteSet(Requests)

Ids   == 1..MaxPosts
Pages == 1..MaxPage   \* PageQueryDto: @IsInt @Min(1)
Feeds == Users \cup {All}
Posts == [id : Ids, owner : Users, text : Requests \cup {Old}]

\* user: the authenticated user of a write, the feed of a list.
CallType == [op : Operations, user : Feeds, id : Ids \cup {0}, page : Pages]

Call(op, u, i, n) == [op |-> op, user |-> u, id |-> i, page |-> n]

\* Any id may be asked for, also one of a post that does not exist.
Calls ==
  {c \in {Call("create", u, 0, 1) : u \in Users}
         \cup {Call(op, u, i, 1) :
                 op \in {"patch", "delete", "like", "unlike"}, u \in Users, i \in Ids}
         \cup {Call("read", All, i, 1) : i \in Ids}
         \cup {Call("list", f, 0, n) : f \in Feeds, n \in Asked} : c.op \in Ops}

Codes ==
  {"SUCCESS", "POST_NOT_FOUND", "POST_LIKE_ALREADY_EXISTS", "POST_LIKE_NOT_FOUND",
   "USER_INFO_NOT_FOUND", "COMMON_INTERNAL_ERROR"}

ASSUME ModelValuesAssumption ==
  NoCall \notin CallType /\ NoReply \notin Codes

VARIABLES
  pc,      \* where each request is
  call,    \* what it asks
  got,     \* the page it is reading: number, list, row count and answered total
  posts,   \* POST
  lastId,  \* AUTO_INCREMENT
  likes,   \* POST_LIKE
  lists,   \* the query cache: no list or one for each feed and page
  counts,  \* the same for the number of rows
  reply,   \* what its client was told
  faults,  \* faults so far
  past     \* history: every content POST has had

vars == <<pc, call, got, posts, lastId, likes, lists, counts, reply, faults, past>>

-----------------------------------------------------------------------------
\* PaginationUtils and the two findAndCount.

InFeed(table, feed) == {p \in table : feed = All \/ p.owner = feed}

SkipFromZero(page) == page * Take   \* mutant: pages counted from 0
Skip(page)     == (page - 1) * Take
LastPage(total) ==
  LET n == (total + Take - 1) \div Take IN IF n > 1 THEN n ELSE 1

\* ORDER BY postId DESC, OFFSET Skip(page), LIMIT Take.
Newer(p, rows) == {q \in rows : q.id > p.id}
Page(table, feed, page) ==
  LET rows == InFeed(table, feed) IN
  {p \in rows : Cardinality(Newer(p, rows)) \in Skip(page)..(Skip(page) + Take - 1)}

\* toPaginationDto: the page number answered.
AdjustedPage(page, total) == IF page < LastPage(total) THEN page ELSE LastPage(total)

NoPage == [page |-> 1, list |-> {}, count |-> 0, total |-> 0]

-----------------------------------------------------------------------------
Init ==
  /\ pc     = [r \in Requests |-> "idle"]
  /\ call   = [r \in Requests |-> NoCall]
  /\ got    = [r \in Requests |-> NoPage]
  /\ \E owner \in [1..OldPosts -> Users] :
       posts = {[id |-> i, owner |-> owner[i], text |-> Old] : i \in 1..OldPosts}
  /\ lastId = OldPosts
  /\ likes \in SUBSET ((1..OldPosts) \X Users) /\ Cardinality(likes) <= OldLikes
  /\ lists  = [f \in Feeds |-> [n \in Pages |-> {}]]
  /\ counts = [f \in Feeds |-> [n \in Pages |-> {}]]
  /\ reply  = [r \in Requests |-> NoReply]
  /\ faults = 0
  /\ past   = {posts}

Go(r, to) == pc' = [pc EXCEPT ![r] = to]
Answer(r, code) == Go(r, "done") /\ reply' = [reply EXCEPT ![r] = code]
Continue(r, to) == Go(r, to) /\ UNCHANGED reply

IsList(r) == call[r] # NoCall /\ call[r].op = "list"

Arrive(r, c) ==
  /\ pc[r] = "idle"
  /\ c.op = "list" => Cardinality({q \in Requests : IsList(q)}) < MaxLists
  /\ call' = [call EXCEPT ![r] = c]
  /\ got' = [got EXCEPT ![r].page = c.page]
  /\ \/ c.op \in {"create", "patch", "delete"} /\ Continue(r, "write")
     \/ c.op \in {"like", "unlike"} /\ Continue(r, "check")
     \/ c.op = "read" /\ Continue(r, "post")
     \/ c.op = "list" /\ Continue(r, "lookup")
     \/ c.op = "patch" /\ Answer(r, "SUCCESS")   \* an empty body: no statement
  /\ UNCHANGED <<posts, lastId, likes, lists, counts, faults, past>>

-----------------------------------------------------------------------------
\* The statements that write.  What MySQL refuses reaches the client as an
\* unhandled error.

AnybodysPost(r) == {p \in posts : p.id = call[r].id}   \* mutant: WHERE without postUid
Mine(r) == {p \in posts : p.id = call[r].id /\ p.owner = call[r].user}
LikedSwapped(r) == <<call[r].user, call[r].id>>   \* mutant: swapped columns
Liked(r) == <<call[r].id, call[r].user>>
Exists(id) == \E p \in posts : p.id = id

NewPost(r) == [id |-> lastId + 1, owner |-> call[r].user, text |-> r]

Create(r) ==
  /\ call[r].op = "create" /\ lastId < MaxPosts
  /\ lastId' = lastId + 1
  /\ posts' = posts \cup {NewPost(r)}
  /\ UNCHANGED likes

\* No row matches: the statement succeeds and so does the request.
Patch(r) ==
  /\ call[r].op = "patch"
  /\ posts' = (posts \ Mine(r)) \cup {[p EXCEPT !.text = r] : p \in Mine(r)}
  /\ UNCHANGED <<lastId, likes>>

\* The foreign key of POST_LIKE: ON DELETE NO ACTION.
Delete(r) ==
  /\ call[r].op = "delete"
  /\ \A l \in likes : \A p \in Mine(r) : l[1] # p.id
  /\ posts' = posts \ Mine(r)
  /\ UNCHANGED <<lastId, likes>>

SaveLike(r) ==   \* mutant: repository.save instead of insert, an upsert
  /\ call[r].op = "like" /\ Exists(call[r].id)
  /\ likes' = likes \cup {Liked(r)}
  /\ UNCHANGED <<posts, lastId>>

InsertLikeUnreferenced(r) ==   \* mutant: a schema without the foreign key
  /\ call[r].op = "like" /\ Liked(r) \notin likes
  /\ likes' = likes \cup {Liked(r)}
  /\ UNCHANGED <<posts, lastId>>

\* The primary key of POST_LIKE, and its foreign key to POST.
InsertLike(r) ==
  /\ call[r].op = "like" /\ Liked(r) \notin likes /\ Exists(call[r].id)
  /\ likes' = likes \cup {Liked(r)}
  /\ UNCHANGED <<posts, lastId>>

DeleteLike(r) ==
  /\ call[r].op = "unlike"
  /\ likes' = likes \ {Liked(r)}
  /\ UNCHANGED <<posts, lastId>>

Statement(r) ==
  /\ Create(r) \/ Patch(r) \/ Delete(r) \/ InsertLike(r) \/ DeleteLike(r)
  /\ past' = past \cup {posts'}

Refused(r) ==
  \/ call[r].op = "delete" /\ \E l \in likes : \E p \in Mine(r) : l[1] = p.id
  \/ call[r].op = "like" /\ (Liked(r) \in likes \/ ~Exists(call[r].id))

Write(r) ==
  /\ pc[r] = "write"
  /\ \/ Statement(r) /\ Answer(r, "SUCCESS")
     \/ /\ Refused(r) /\ Answer(r, "COMMON_INTERNAL_ERROR")
        /\ UNCHANGED <<posts, lastId, likes, past>>
  /\ UNCHANGED <<call, got, lists, counts, faults>>

\* addPostLikeUser, removePostLikeUser: isExist, then the statement above.  The
\* entry removed in between is one that nobody stores.
Check(r) ==
  /\ pc[r] = "check"
  /\ \/ (Liked(r) \in likes) = (call[r].op = "unlike") /\ Continue(r, "write")
     \/ /\ call[r].op = "like" /\ Liked(r) \in likes
        /\ Answer(r, "POST_LIKE_ALREADY_EXISTS")
     \/ /\ call[r].op = "unlike" /\ Liked(r) \notin likes
        /\ Answer(r, "POST_LIKE_NOT_FOUND")
  /\ UNCHANGED <<call, got, posts, lastId, likes, lists, counts, faults, past>>

-----------------------------------------------------------------------------
\* findAndCount of the feed and page r is at, through the query cache.

\* TypeORM's lazy count: the number of rows follows from a list that is not full,
\* unless it is that of a page past the end.
Full(list) == Cardinality(list) = Take
MayInferAlways(r, list) == ~Full(list)   \* mutant: a page past the end counts too
MayInfer(r, list) == ~Full(list) /\ (list # {} \/ Skip(got[r].page) = 0)

CountedTurnsBack(r, n) ==   \* mutant: past the last page the first one is read
  \/ /\ got[r].page = call[r].page /\ call[r].page > LastPage(n)
     /\ got' = [got EXCEPT ![r] = [page |-> 1, list |-> {}, count |-> 0, total |-> n]]
     /\ Continue(r, "lookup")
  \/ /\ got[r].page = call[r].page => call[r].page <= LastPage(n)
     /\ got' = [got EXCEPT ![r].count = 0,
                          ![r].total = IF got[r].page = call[r].page THEN n ELSE @]
     /\ Continue(r, "likes")

\* getPostPageListByPage, getPostPageListByPostUid: past the last page, that one is
\* read instead; the total stays the first one.
Counted(r, n) ==
  LET first == got[r].page = call[r].page IN
  \/ /\ first /\ call[r].page > LastPage(n)
     /\ got' = [got EXCEPT ![r] = [page |-> LastPage(n), list |-> {}, count |-> 0,
                                   total |-> n]]
     /\ Continue(r, "lookup")
  \/ /\ first /\ call[r].page <= LastPage(n)
     /\ got' = [got EXCEPT ![r].total = n, ![r].count = 0]
     /\ Continue(r, "likes")
  \/ /\ ~first
     /\ got' = [got EXCEPT ![r].count = 0]
     /\ Continue(r, "likes")

\* A hit, or no entry, a failing GET (ignoreErrors) or no cache at all.
Lookup(r) ==
  /\ pc[r] = "lookup"
  /\ \/ /\ \E list \in lists[call[r].user][got[r].page] :
             got' = [got EXCEPT ![r].list = list]
        /\ Continue(r, "count")
     \/ UNCHANGED got /\ Continue(r, "select")
  /\ UNCHANGED <<call, posts, lastId, likes, lists, counts, faults, past>>

Select(r) ==
  /\ pc[r] = "select"
  /\ got' = [got EXCEPT ![r].list = Page(posts, call[r].user, got[r].page)]
  /\ Continue(r, "keep")
  /\ UNCHANGED <<call, posts, lastId, likes, lists, counts, faults, past>>

\* The SET, whatever has been written since the SELECT; a failing one is ignored.
Keep(r) ==
  /\ pc[r] = "keep"
  /\ \/ lists' = [lists EXCEPT ![call[r].user][got[r].page] = {got[r].list}]
     \/ UNCHANGED lists
  /\ Continue(r, "count")
  /\ UNCHANGED <<call, got, posts, lastId, likes, counts, faults, past>>

Count(r) ==
  /\ pc[r] = "count"
  /\ \/ /\ MayInfer(r, got[r].list)
        /\ Counted(r, Skip(got[r].page) + Cardinality(got[r].list))
     \/ \E n \in counts[call[r].user][got[r].page] : Counted(r, n)
     \/ /\ got' = [got EXCEPT ![r].count = Cardinality(InFeed(posts, call[r].user))]
        /\ Continue(r, "keepCount")
  /\ UNCHANGED <<call, posts, lastId, likes, lists, counts, faults, past>>

KeepCount(r) ==
  /\ pc[r] = "keepCount"
  /\ \/ counts' = [counts EXCEPT ![call[r].user][got[r].page] = {got[r].count}]
     \/ UNCHANGED counts
  /\ Counted(r, got[r].count)
  /\ UNCHANGED <<call, posts, lastId, likes, lists, faults, past>>

\* getPostByPostId.
Find(r) ==
  /\ pc[r] = "post"
  /\ \/ /\ ~Exists(call[r].id)
        /\ Answer(r, "POST_NOT_FOUND") /\ UNCHANGED got
     \/ /\ Exists(call[r].id)
        /\ got' = [got EXCEPT ![r].list = {p \in posts : p.id = call[r].id}]
        /\ Continue(r, "likes")
  /\ UNCHANGED <<call, posts, lastId, likes, lists, counts, faults, past>>

\* getPostLikeMapByPostIds: the profiles of all those who like a post that is shown
\* are read, and one that is missing fails the request.
AllLikers(list) == {u \in Users : \E i \in Ids : <<i, u>> \in likes}   \* mutant: no WHERE
Likers(list) == {u \in Users : \E p \in list : <<p.id, u>> \in likes}

LikesOf(r) ==
  /\ pc[r] = "likes"
  /\ \/ Answer(r, "SUCCESS")
     \/ Likers(got[r].list) \cap Nameless # {} /\ Answer(r, "USER_INFO_NOT_FOUND")
  /\ UNCHANGED <<call, got, posts, lastId, likes, lists, counts, faults, past>>

-----------------------------------------------------------------------------
\* A statement fails, or is applied and its answer lost.  Removing the entry of a
\* like may fail too, before the statement.
Fails(r) ==
  /\ pc[r] \in {"write", "check", "post", "select", "count", "likes"}
  /\ faults < MaxFaults /\ faults' = faults + 1
  /\ Answer(r, "COMMON_INTERNAL_ERROR")
  /\ \/ UNCHANGED <<posts, lastId, likes, past>>
     \/ pc[r] = "write" /\ Statement(r)
  /\ got' = [got EXCEPT ![r] = NoPage]
  /\ UNCHANGED <<call, lists, counts>>

\* 5 minutes for a page of all posts, 24 hours for a page of a user.
Expire(f, n) ==
  /\ \/ /\ lists[f][n] # {}
        /\ lists' = [lists EXCEPT ![f][n] = {}] /\ UNCHANGED counts
     \/ /\ counts[f][n] # {}
        /\ counts' = [counts EXCEPT ![f][n] = {}] /\ UNCHANGED lists
  /\ UNCHANGED <<pc, call, got, posts, lastId, likes, reply, faults, past>>

Serve(r) ==
  \/ Check(r) \/ Write(r) \/ Find(r) \/ LikesOf(r) \/ Fails(r)
  \/ Lookup(r) \/ Select(r) \/ Keep(r) \/ Count(r) \/ KeepCount(r)

Next ==
  \/ \E r \in Requests : (\E c \in Calls : Arrive(r, c)) \/ Serve(r)
  \/ \E f \in Feeds, n \in Pages : Expire(f, n)

Spec == Init /\ [][Next]_vars
=============================================================================
