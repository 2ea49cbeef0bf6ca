----------------------------- MODULE BlogProofs -----------------------------
(***************************************************************************)
(* Likes have posts, only owners write and shown pages were true, for any  *)
(* number of requests, users, posts and pages.                             *)
(***************************************************************************)
EXTENDS BlogProps, FiniteSetTheorems, FunctionTheorems, TLAPS

LEMMA SizeOfInterval ==
  ASSUME NEW n \in Nat
  PROVE  IsFiniteSet(0..(n - 1)) /\ Cardinality(0..(n - 1)) = n
<1>1. IsFiniteSet(0..(n - 1))
  BY FS_Interval
<1>2. CASE n = 0
  <2>1. 0..(n - 1) = {}
    BY <1>2
  <2>2. QED BY <1>2, <2>1, FS_EmptySet
<1>3. CASE n # 0
  <2>1. Cardinality(0..(n - 1)) = (n - 1) - 0 + 1
    BY <1>3, FS_Interval
  <2>2. QED BY <1>1, <2>1
<1>4. QED BY <1>2, <1>3

USE ParametersAssumption, ValuesAssumption, ModelValuesAssumption

\* A request that has arrived asks one of the calls, and where it waits fits it.
CallAt(r) ==
  /\ pc[r] # "idle" => call[r] \in Calls
  /\ pc[r] = "idle" => call[r] = NoCall
  /\ pc[r] = "write" => call[r].op \in {"create", "patch", "delete", "like", "unlike"}
  /\ pc[r] = "check" => call[r].op \in {"like", "unlike"}
  /\ pc[r] = "post" => call[r].op = "read"
  /\ pc[r] = "likes" => call[r].op \in {"read", "list"}
  /\ pc[r] \in {"lookup", "select", "keep", "count", "keepCount"} => IsList(r)
  /\ pc[r] # "done" => reply[r] = NoReply

\* Every table there has been is finite, so its rows can be counted.
PastInv == \A table \in past : IsFiniteSet(table)

\* A list that was the page of a feed at some moment.
WasPage(list, feed, page) == \E table \in past : list = Page(table, feed, page)

CachedInv ==
  \A f \in Feeds, n \in Pages : \A list \in lists[f][n] : WasPage(list, f, n)

HoldsList(r) == pc[r] \in {"keep", "count", "keepCount", "likes"} \/ reply[r] = "SUCCESS"
ReadAt(r) ==
  IsList(r) /\ HoldsList(r) => WasPage(got[r].list, call[r].user, got[r].page)

\* The page read last is the one asked for or, past the end, the last page of the
\* total answered; at the end it is the page number answered.
TurnAt(r) ==
  IsList(r) =>
    /\ pc[r] \in {"lookup", "select", "keep", "count", "keepCount"} =>
         got[r].page \in {call[r].page, AdjustedPage(call[r].page, got[r].total)}
    /\ pc[r] = "likes" \/ reply[r] = "SUCCESS" =>
         got[r].page = AdjustedPage(call[r].page, got[r].total)

RequestsInv == \A r \in Requests : CallAt(r) /\ ReadAt(r) /\ TurnAt(r)

IInv == TypeOK /\ PastInv /\ LikesHavePosts /\ CachedInv /\ RequestsInv

-----------------------------------------------------------------------------
LEMMA CallsAreTyped ==
  ASSUME NEW c \in Calls
  PROVE  /\ c \in CallType
         /\ c.op \in {"create", "patch", "delete", "like", "unlike"} => c.user \in Users
         /\ c.op \in {"patch", "delete", "like", "unlike", "read"} => c.id \in Ids
  BY DEF Calls, CallType, Call, Operations, Feeds, Pages, Ids

LEMMA LastPageIsPositive ==
  ASSUME NEW total \in Nat
  PROVE  LastPage(total) \in Nat \ {0}
  BY DEF LastPage

LEMMA FeedIsFinite ==
  ASSUME NEW table, IsFiniteSet(table), NEW feed
  PROVE  /\ IsFiniteSet(InFeed(table, feed))
         /\ \A p : Cardinality(Newer(p, InFeed(table, feed))) \in Nat
<1>1. IsFiniteSet(InFeed(table, feed))
  BY FS_Subset DEF InFeed
<1>2. ASSUME NEW p
      PROVE  Cardinality(Newer(p, InFeed(table, feed))) \in Nat
  <2>1. IsFiniteSet(Newer(p, InFeed(table, feed)))
    BY <1>1, FS_Subset DEF Newer
  <2>2. QED BY <2>1, FS_CardinalityType
<1>3. QED BY <1>1, <1>2

\* The window of getSkip and TAKE is the page that readers expect.
LEMMA WindowIsPage ==
  ASSUME NEW k \in Nat, NEW page \in Nat \ {0}
  PROVE  k \in Skip(page)..(Skip(page) + Take - 1) <=> k \div Take + 1 = page
<1> DEFINE q == k \div Take
           m == k % Take
<1>1. q \in Nat /\ m \in 0..(Take - 1) /\ k = Take * q + m
  OBVIOUS
<1>2. Skip(page) = Take * (page - 1)
  BY DEF Skip
<1> HIDE DEF q, m
<1>3. CASE q = page - 1
  BY <1>1, <1>2, <1>3 DEF q
<1>4. CASE q < page - 1
  <2>1. Take * (q + 1) <= Take * (page - 1)
    BY <1>1, <1>4
  <2>2. k < Skip(page)
    BY <1>1, <1>2, <2>1
  <2>3. QED BY <1>1, <1>2, <1>4, <2>2 DEF q
<1>5. CASE q > page - 1
  <2>1. Take * page <= Take * q
    BY <1>1, <1>5
  <2>2. k >= Skip(page) + Take
    BY <1>1, <1>2, <2>1
  <2>3. QED BY <1>1, <1>2, <1>5, <2>2 DEF q
<1>6. QED BY <1>1, <1>3, <1>4, <1>5

LEMMA PageIsTruePage ==
  ASSUME NEW table, IsFiniteSet(table), NEW feed, NEW page \in Pages
  PROVE  Page(table, feed, page) = TruePage(table, feed, page)
<1> DEFINE rows == InFeed(table, feed)
<1>1. page \in Nat \ {0}
  BY DEF Pages
<1>2. \A p : Cardinality(Newer(p, rows)) \in Nat
  BY FeedIsFinite
<1>3. \A p : Cardinality(Newer(p, rows)) \in Skip(page)..(Skip(page) + Take - 1)
               <=> Cardinality(Newer(p, rows)) \div Take + 1 = page
  BY <1>1, <1>2, WindowIsPage
<1>4. QED BY <1>3 DEF Page, TruePage, PageNumber

-----------------------------------------------------------------------------
LEMMA InitIInv == Init => IInv
<1> SUFFICES ASSUME Init PROVE IInv
  OBVIOUS
<1> USE DEF Init
<1>1. PICK owner \in [1..OldPosts -> Users] :
        posts = {[id |-> i, owner |-> owner[i], text |-> Old] : i \in 1..OldPosts}
  OBVIOUS
<1>2. posts \subseteq Posts
  BY <1>1 DEF Posts, Ids
<1>3. IsFiniteSet(posts)
  <2> DEFINE row(i) == [id |-> i, owner |-> owner[i], text |-> Old]
             rows == [i \in 1..OldPosts |-> row(i)]
  <2>1. IsFiniteSet(1..OldPosts)
    BY FS_Interval
  <2>2. rows \in Surjection(1..OldPosts, posts)
    BY <1>1 DEF Surjection
  <2>3. QED BY <2>1, <2>2, FS_Surjection
<1>4. NoPage \in PageReads
  BY DEF NoPage, PageReads, Pages
<1>5. TypeOK
  BY <1>2, <1>4 DEF TypeOK, Places, Ids
<1>6. LikesHavePosts
  <2>1. ASSUME NEW i \in 1..OldPosts
        PROVE  Exists(i)
    <3>1. [id |-> i, owner |-> owner[i], text |-> Old] \in posts
      BY <1>1
    <3>2. QED BY <3>1 DEF Exists
  <2>2. \A l \in likes : l[1] \in 1..OldPosts
    OBVIOUS
  <2>3. QED BY <2>1, <2>2 DEF LikesHavePosts
<1>7. CachedInv
  BY DEF CachedInv
<1>8. PastInv
  BY <1>3 DEF PastInv
<1>9. RequestsInv
  BY DEF RequestsInv, CallAt, ReadAt, TurnAt, IsList
<1>10. QED BY <1>5, <1>6, <1>7, <1>8, <1>9 DEF IInv

\* A statement keeps the tables typed and finite and every like with its post.
LEMMA StatementIsSound ==
  ASSUME IInv, NEW r \in Requests, pc[r] = "write", Statement(r)
  PROVE  /\ posts' \subseteq Posts /\ lastId' \in OldPosts..MaxPosts
         /\ likes' \subseteq Ids \X Users
         /\ posts' \in past' /\ past' \subseteq SUBSET Posts /\ past \subseteq past'
         /\ PastInv' /\ LikesHavePosts'
<1>1. /\ posts \subseteq Posts /\ lastId \in OldPosts..MaxPosts
      /\ likes \subseteq Ids \X Users
      /\ posts \in past /\ past \subseteq SUBSET Posts
  BY DEF IInv, TypeOK
<1>2. /\ call[r] \in Calls
      /\ call[r].op \in {"create", "patch", "delete", "like", "unlike"}
  BY DEF IInv, RequestsInv, CallAt
<1>3. /\ call[r].user \in Users
      /\ call[r].op # "create" => call[r].id \in Ids
  BY <1>2, CallsAreTyped
<1>4. IsFiniteSet(posts) /\ \A l \in likes : Exists(l[1])
  BY <1>1 DEF IInv, PastInv, LikesHavePosts
<1>5. /\ posts' \subseteq Posts /\ lastId' \in OldPosts..MaxPosts
      /\ likes' \subseteq Ids \X Users
      /\ IsFiniteSet(posts') /\ \A l \in likes' : Exists(l[1])'
  <2>1. CASE Create(r)
    <3>1. NewPost(r) \in Posts
      BY <1>1, <1>3, <2>1 DEF Create, NewPost, Posts, Ids
    <3>2. IsFiniteSet(posts')
      BY <1>4, <2>1, FS_AddElement DEF Create
    <3>3. QED BY <1>1, <1>4, <2>1, <3>1, <3>2 DEF Create, Exists
  <2>2. CASE Patch(r)
    <3> DEFINE new == {[p EXCEPT !.text = r] : p \in Mine(r)}
    <3>1. Mine(r) \subseteq posts /\ IsFiniteSet(Mine(r))
      BY <1>4, FS_Subset DEF Mine
    <3>2. IsFiniteSet(new)
      <4>1. [p \in Mine(r) |-> [p EXCEPT !.text = r]] \in Surjection(Mine(r), new)
        BY DEF Surjection
      <4>2. QED BY <3>1, <4>1, FS_Surjection
    <3>3. IsFiniteSet(posts \ Mine(r))
      BY <1>4, FS_Difference
    <3>4. IsFiniteSet(posts')
      BY <2>2, <3>2, <3>3, FS_Union DEF Patch
    <3>5. new \subseteq Posts
      BY <1>1, <3>1 DEF Posts
    <3>6. ASSUME NEW p \in posts
          PROVE  \E q \in posts' : q.id = p.id
      <4>1. CASE p \in Mine(r)
        <5>1. [p EXCEPT !.text = r] \in posts'
          BY <2>2, <4>1 DEF Patch
        <5>2. [p EXCEPT !.text = r].id = p.id
          BY <1>1 DEF Posts
        <5>3. QED BY <5>1, <5>2
      <4>2. CASE p \notin Mine(r)
        BY <2>2, <4>2 DEF Patch
      <4>3. QED BY <4>1, <4>2
    <3>7. \A i : Exists(i) => Exists(i)'
      BY <3>6 DEF Exists
    <3>8. posts' \subseteq Posts
      BY <1>1, <2>2, <3>5 DEF Patch
    <3>9. QED BY <1>1, <1>4, <2>2, <3>4, <3>7, <3>8 DEF Patch
  <2>3. CASE Delete(r)
    <3>1. IsFiniteSet(posts')
      BY <1>4, <2>3, FS_Difference DEF Delete
    <3>2. QED BY <1>1, <1>4, <2>3, <3>1 DEF Delete, Exists
  <2>4. CASE InsertLike(r)
    BY <1>1, <1>2, <1>3, <1>4, <2>4 DEF InsertLike, Liked, Exists
  <2>5. CASE DeleteLike(r)
    BY <1>1, <1>4, <2>5 DEF DeleteLike, Exists
  <2>6. QED BY <2>1, <2>2, <2>3, <2>4, <2>5 DEF Statement
<1>6. past' = past \cup {posts'}
  BY DEF Statement
<1>7. QED BY <1>1, <1>5, <1>6 DEF IInv, PastInv, LikesHavePosts

\* The rows only ever gain a past, so a page that was true stays one that was.
LEMMA PagesStayTrue ==
  ASSUME past \subseteq past', NEW list, NEW feed, NEW page, WasPage(list, feed, page)
  PROVE  WasPage(list, feed, page)'
  BY DEF WasPage

\* What a step of r leaves alone in the other requests.
Local(r) ==
  \A q \in Requests \ {r} :
    pc'[q] = pc[q] /\ call'[q] = call[q] /\ got'[q] = got[q] /\ reply'[q] = reply[q]

LEMMA OthersKeep ==
  ASSUME IInv, NEW r \in Requests, past \subseteq past', Local(r),
         CallAt(r)', ReadAt(r)', TurnAt(r)'
  PROVE  RequestsInv'
<1> SUFFICES ASSUME NEW q \in Requests, q # r
             PROVE  (CallAt(q) /\ ReadAt(q) /\ TurnAt(q))'
  BY DEF RequestsInv
<1>1. CallAt(q) /\ ReadAt(q) /\ TurnAt(q)
  BY DEF IInv, RequestsInv
<1>2. /\ pc'[q] = pc[q] /\ call'[q] = call[q] /\ got'[q] = got[q] /\ reply'[q] = reply[q]
  BY DEF Local
<1>3. CallAt(q)' /\ TurnAt(q)'
  BY <1>1, <1>2 DEF CallAt, TurnAt, IsList
<1>4. ReadAt(q)'
  <2> SUFFICES ASSUME IsList(q)', HoldsList(q)'
               PROVE  WasPage(got[q].list, call[q].user, got[q].page)'
    BY DEF ReadAt
  <2>1. WasPage(got[q].list, call[q].user, got[q].page)
    BY <1>1, <1>2 DEF ReadAt, IsList, HoldsList
  <2>2. QED BY <1>2, <2>1 DEF WasPage
<1>5. QED BY <1>3, <1>4

\* The tables are left alone.
Idle == UNCHANGED <<posts, lastId, likes, past>>

LEMMA IdleKeeps ==
  ASSUME IInv, Idle
  PROVE  /\ PastInv' /\ LikesHavePosts' /\ past \subseteq past'
         /\ UNCHANGED lists => CachedInv'
  BY DEF IInv, Idle, PastInv, LikesHavePosts, Exists, CachedInv, WasPage

\* After the number of rows is known the request turns to the last page, or the
\* page it has read is not past it.
LEMMA CountedIsSound ==
  ASSUME IInv, NEW r \in Requests, pc[r] \in {"count", "keepCount"}, NEW n \in Nat,
         Counted(r, n), UNCHANGED <<call, past>>
  PROVE  /\ got' \in [Requests -> PageReads]
         /\ pc' \in [Requests -> Places]
         /\ UNCHANGED reply /\ Local(r)
         /\ CallAt(r)' /\ ReadAt(r)' /\ TurnAt(r)'
<1>1. /\ IsList(r) /\ call[r] \in Calls /\ reply[r] = NoReply
      /\ WasPage(got[r].list, call[r].user, got[r].page)
      /\ got[r].page \in {call[r].page, AdjustedPage(call[r].page, got[r].total)}
  BY DEF IInv, RequestsInv, CallAt, ReadAt, TurnAt, HoldsList
<1>2. /\ got[r] \in PageReads
      /\ got \in [Requests -> PageReads]
      /\ pc \in [Requests -> Places]
  BY DEF IInv, TypeOK
<1>3. call[r].page \in Pages /\ LastPage(n) \in Nat \ {0} /\ NoReply # "SUCCESS"
  BY <1>1, CallsAreTyped, LastPageIsPositive DEF CallType, Codes
<1> USE DEF Continue, Go
<1>4. CASE got[r].page = call[r].page /\ call[r].page > LastPage(n)
  <2>1. LastPage(n) \in Pages
    BY <1>3, <1>4 DEF Pages
  <2>2. /\ got' = [got EXCEPT ![r] = [page |-> LastPage(n), list |-> {}, count |-> 0,
                                      total |-> n]]
        /\ pc' = [pc EXCEPT ![r] = "lookup"] /\ UNCHANGED reply
    BY <1>3, <1>4 DEF Counted, Pages
  <2>3. got'[r].page = AdjustedPage(call[r].page, got'[r].total) /\ pc'[r] = "lookup"
    BY <1>2, <1>3, <1>4, <2>2 DEF PageReads, AdjustedPage, Pages
  <2>4. CallAt(r)' /\ ReadAt(r)' /\ TurnAt(r)'
    BY <1>1, <1>3, <2>2, <2>3 DEF CallAt, ReadAt, TurnAt, IsList, HoldsList
  <2>5. QED BY <1>2, <2>1, <2>2, <2>4 DEF Local, Places, PageReads
<1>5. CASE ~(got[r].page = call[r].page /\ call[r].page > LastPage(n))
  <2>1. /\ \/ got' = [got EXCEPT ![r].total = n, ![r].count = 0]
              /\ got[r].page = call[r].page /\ call[r].page <= LastPage(n)
           \/ got' = [got EXCEPT ![r].count = 0] /\ got[r].page # call[r].page
        /\ pc' = [pc EXCEPT ![r] = "likes"] /\ UNCHANGED reply
    BY <1>5 DEF Counted
  <2>2. /\ pc'[r] = "likes" /\ got'[r].page = got[r].page /\ got'[r].list = got[r].list
        /\ got' \in [Requests -> PageReads]
    BY <1>1, <1>2, <2>1 DEF PageReads
  <2>5. got'[r].page = AdjustedPage(call[r].page, got'[r].total)
    <3>1. CASE got' = [got EXCEPT ![r].total = n, ![r].count = 0]
               /\ got[r].page = call[r].page /\ call[r].page <= LastPage(n)
      <4>1. got'[r].page = call[r].page /\ got'[r].total = n
        BY <1>2, <3>1 DEF PageReads
      <4>2. AdjustedPage(call[r].page, n) = call[r].page
        BY <1>3, <3>1 DEF AdjustedPage, Pages
      <4>3. QED BY <4>1, <4>2
    <3>2. CASE got' = [got EXCEPT ![r].count = 0] /\ got[r].page # call[r].page
      BY <1>1, <1>2, <3>2 DEF PageReads
    <3>3. QED BY <2>1, <3>1, <3>2
  <2>3. CallAt(r)' /\ ReadAt(r)' /\ TurnAt(r)'
    BY <1>1, <1>3, <2>1, <2>2, <2>5 DEF CallAt, ReadAt, TurnAt, IsList, HoldsList, WasPage
  <2>4. QED BY <1>2, <2>1, <2>2, <2>3 DEF Local, Places
<1>6. QED BY <1>4, <1>5

-----------------------------------------------------------------------------
\* Every step keeps the invariant: the actions that leave the tables alone, those
\* of the page reader, and those that write.
LEMMA MovesAreTyped ==
  ASSUME TypeOK, NEW r \in Requests
  PROVE  /\ \A to \in Places : Continue(r, to) =>
              pc' \in [Requests -> Places] /\ reply' \in [Requests -> Codes \cup {NoReply}]
         /\ \A code \in Codes : Answer(r, code) =>
              pc' \in [Requests -> Places] /\ reply' \in [Requests -> Codes \cup {NoReply}]
<1> USE DEF TypeOK, Go
<1>1. "done" \in Places
  BY DEF Places
<1>2. ASSUME NEW to \in Places, Continue(r, to)
      PROVE  pc' \in [Requests -> Places] /\ reply' \in [Requests -> Codes \cup {NoReply}]
  BY <1>2 DEF Continue
<1>3. ASSUME NEW code \in Codes, Answer(r, code)
      PROVE  pc' \in [Requests -> Places] /\ reply' \in [Requests -> Codes \cup {NoReply}]
  BY <1>1, <1>3 DEF Answer
<1>4. QED BY <1>2, <1>3

LEMMA ArriveKeeps ==
  ASSUME IInv, NEW r \in Requests, NEW c \in Calls, Arrive(r, c)
  PROVE  IInv'
<1>1. Idle /\ UNCHANGED lists /\ Local(r)
  BY DEF Arrive, Idle, Local, Continue, Answer, Go, IInv, TypeOK
<1>2. PastInv' /\ LikesHavePosts' /\ past \subseteq past' /\ CachedInv'
  BY <1>1, IdleKeeps
<1>3. c \in CallType /\ c.page \in Pages /\ NoReply # "SUCCESS"
  BY CallsAreTyped DEF CallType, Codes
<1>4. TypeOK'
  <2>1. call' \in [Requests -> CallType \cup {NoCall}]
    BY <1>3 DEF IInv, TypeOK, Arrive
  <2>3. got' \in [Requests -> PageReads]
    <3>1. got[r] \in PageReads
      BY DEF IInv, TypeOK
    <3>2. [got[r] EXCEPT !.page = c.page] \in PageReads
      BY <1>3, <3>1 DEF PageReads
    <3>3. QED BY <3>2 DEF IInv, TypeOK, Arrive
  <2>2. pc' \in [Requests -> Places] /\ reply' \in [Requests -> Codes \cup {NoReply}]
    BY MovesAreTyped DEF IInv, Arrive, Places, Codes
  <2>4. QED BY <2>1, <2>2, <2>3 DEF IInv, TypeOK, Arrive
<1>5. /\ call'[r] = c /\ got'[r].page = c.page /\ reply[r] = NoReply /\ c # NoCall
      /\ \/ pc'[r] = "write" /\ c.op \in {"create", "patch", "delete"} /\ UNCHANGED reply
         \/ pc'[r] = "check" /\ c.op \in {"like", "unlike"} /\ UNCHANGED reply
         \/ pc'[r] = "post" /\ c.op = "read" /\ UNCHANGED reply
         \/ pc'[r] = "lookup" /\ c.op = "list" /\ UNCHANGED reply
         \/ pc'[r] = "done" /\ c.op = "patch"
  BY <1>3 DEF IInv, TypeOK, PageReads, RequestsInv, CallAt, Arrive, Continue, Answer, Go
<1>6. CallAt(r)' /\ ReadAt(r)' /\ TurnAt(r)'
  BY <1>3, <1>5 DEF CallAt, ReadAt, TurnAt, HoldsList, IsList
<1>7. QED BY <1>1, <1>2, <1>4, <1>6, OthersKeep DEF IInv

LEMMA LookKeeps ==
  ASSUME IInv, NEW r \in Requests, Check(r) \/ Find(r) \/ LikesOf(r)
  PROVE  IInv'
<1>1. Idle /\ UNCHANGED lists /\ Local(r)
  BY DEF Check, Find, LikesOf, Idle, Local, Continue, Answer, Go, IInv, TypeOK
<1>2. PastInv' /\ LikesHavePosts' /\ past \subseteq past' /\ CachedInv'
  BY <1>1, IdleKeeps
<1>3. CallAt(r) /\ ReadAt(r) /\ TurnAt(r) /\ call[r] \in Calls /\ NoReply # "SUCCESS"
  BY DEF IInv, RequestsInv, CallAt, Check, Find, LikesOf, Codes
<1>4. TypeOK'
  <2>1. pc' \in [Requests -> Places] /\ reply' \in [Requests -> Codes \cup {NoReply}]
    BY MovesAreTyped DEF IInv, Check, Find, LikesOf, Places, Codes
  <2>2. got' \in [Requests -> PageReads]
    BY DEF IInv, TypeOK, Check, Find, LikesOf, PageReads
  <2>3. QED BY <2>1, <2>2 DEF IInv, TypeOK, Check, Find, LikesOf
<1>5. CallAt(r)' /\ ReadAt(r)' /\ TurnAt(r)'
  <2>1. CASE Check(r)
    <3>1. /\ UNCHANGED <<call, got>> /\ call[r].op \in {"like", "unlike"}
          /\ pc'[r] \in {"write", "done"}
          /\ pc'[r] # "done" => reply'[r] = NoReply
      BY <1>3, <2>1 DEF IInv, TypeOK, Check, Continue, Answer, Go, CallAt
    <3>2. QED BY <1>3, <3>1 DEF CallAt, ReadAt, TurnAt, IsList
  <2>2. CASE Find(r)
    <3>1. /\ UNCHANGED call /\ call[r].op = "read"
          /\ pc'[r] \in {"likes", "done"}
          /\ pc'[r] # "done" => reply'[r] = NoReply
      BY <1>3, <2>2 DEF IInv, TypeOK, Find, Continue, Answer, Go, CallAt
    <3>2. QED BY <1>3, <3>1 DEF CallAt, ReadAt, TurnAt, IsList
  <2>3. CASE LikesOf(r)
    <3>1. UNCHANGED <<call, got, past>> /\ pc[r] = "likes" /\ pc'[r] = "done"
      BY <2>3 DEF IInv, TypeOK, LikesOf, Answer, Go
    <3>2. QED BY <1>3, <3>1 DEF CallAt, ReadAt, TurnAt, IsList, HoldsList, WasPage
  <2>4. QED BY <2>1, <2>2, <2>3
<1>6. QED BY <1>1, <1>2, <1>4, <1>5, OthersKeep DEF IInv

LEMMA ReadPageKeeps ==
  ASSUME IInv, NEW r \in Requests, Lookup(r) \/ Select(r) \/ Keep(r)
  PROVE  IInv'
<1>1. Idle /\ Local(r) /\ UNCHANGED <<call, reply>>
  BY DEF Lookup, Select, Keep, Idle, Local, Continue, Go, IInv, TypeOK
<1>2. PastInv' /\ LikesHavePosts' /\ past \subseteq past'
  BY <1>1, IdleKeeps
<1>3. /\ CallAt(r) /\ ReadAt(r) /\ TurnAt(r) /\ call[r] \in Calls /\ IsList(r)
      /\ reply[r] = NoReply /\ NoReply # "SUCCESS"
  BY DEF IInv, RequestsInv, CallAt, Lookup, Select, Keep, Codes
<1>4. /\ call[r].user \in Feeds /\ got[r] \in PageReads
      /\ got[r].page \in Pages /\ got[r].list \in SUBSET Posts
      /\ posts \in past /\ posts \subseteq Posts
      /\ lists \in [Feeds -> [Pages -> SUBSET (SUBSET Posts)]]
  BY <1>3, CallsAreTyped DEF IInv, TypeOK, PageReads, CallType
<1>5. Page(posts, call[r].user, got[r].page) \subseteq posts
  BY DEF Page, InFeed
<1>6. TypeOK'
  <2>1. pc' \in [Requests -> Places] /\ reply' \in [Requests -> Codes \cup {NoReply}]
    BY MovesAreTyped DEF IInv, Lookup, Select, Keep, Places
  <2>2. got' \in [Requests -> PageReads]
    <3>1. \A list \in SUBSET Posts : [got[r] EXCEPT !.list = list] \in PageReads
      BY <1>4 DEF PageReads
    <3>2. lists[call[r].user][got[r].page] \subseteq SUBSET Posts
      BY <1>4
    <3>3. got \in [Requests -> PageReads]
      BY DEF IInv, TypeOK
    <3>4. CASE Lookup(r)
      BY <3>1, <3>2, <3>3, <3>4 DEF Lookup
    <3>5. CASE Select(r)
      BY <1>4, <1>5, <3>1, <3>3, <3>5 DEF Select
    <3>6. CASE Keep(r)
      BY <3>3, <3>6 DEF Keep
    <3>7. QED BY <3>4, <3>5, <3>6
  <2>3. lists' \in [Feeds -> [Pages -> SUBSET (SUBSET Posts)]]
    BY <1>4 DEF Lookup, Select, Keep
  <2>4. QED BY <2>1, <2>2, <2>3 DEF IInv, TypeOK, Lookup, Select, Keep
<1>7. CachedInv'
  <2>1. CASE UNCHANGED lists
    BY <1>1, <2>1, IdleKeeps
  <2>2. CASE Keep(r) /\ lists' = [lists EXCEPT ![call[r].user][got[r].page] = {got[r].list}]
    <3>1. WasPage(got[r].list, call[r].user, got[r].page)
      BY <1>3, <2>2 DEF ReadAt, HoldsList, Keep
    <3>2. ASSUME NEW f \in Feeds, NEW n \in Pages, NEW list \in lists'[f][n]
          PROVE  WasPage(list, f, n)
      BY <1>4, <2>2, <3>1, <3>2 DEF IInv, CachedInv
    <3>3. QED BY <1>1, <3>2 DEF CachedInv, WasPage, Idle
  <2>3. QED BY <2>1, <2>2 DEF Lookup, Select, Keep
<1>8. /\ pc'[r] \in {"count", "select", "keep"}
      /\ got'[r].page = got[r].page /\ got'[r].total = got[r].total
      /\ pc'[r] \in {"keep", "count"} => WasPage(got'[r].list, call[r].user, got[r].page)
  <2>1. CASE Lookup(r)
    BY <1>4, <2>1 DEF IInv, TypeOK, CachedInv, Lookup, Continue, Go, PageReads
  <2>2. CASE Select(r)
    <3>1. WasPage(Page(posts, call[r].user, got[r].page), call[r].user, got[r].page)
      BY <1>4 DEF WasPage
    <3>2. QED BY <1>4, <2>2, <3>1 DEF IInv, TypeOK, Select, Continue, Go, PageReads
  <2>3. CASE Keep(r)
    BY <1>3, <2>3 DEF IInv, TypeOK, Keep, Continue, Go, ReadAt, HoldsList
  <2>4. QED BY <2>1, <2>2, <2>3
<1>9. CallAt(r)' /\ ReadAt(r)' /\ TurnAt(r)'
  BY <1>1, <1>3, <1>8
     DEF CallAt, ReadAt, TurnAt, IsList, HoldsList, WasPage, Idle, Lookup, Select, Keep
<1>10. QED BY <1>1, <1>2, <1>6, <1>7, <1>9, OthersKeep DEF IInv

LEMMA CountKeeps ==
  ASSUME IInv, NEW r \in Requests, Count(r) \/ KeepCount(r)
  PROVE  IInv'
<1>1. Idle /\ UNCHANGED <<call, lists, faults>>
  BY DEF Count, KeepCount, Idle
<1>2. PastInv' /\ LikesHavePosts' /\ past \subseteq past' /\ CachedInv'
  BY <1>1, IdleKeeps
<1>3. /\ CallAt(r) /\ ReadAt(r) /\ TurnAt(r) /\ call[r] \in Calls /\ IsList(r)
      /\ reply[r] = NoReply /\ NoReply # "SUCCESS"
  BY DEF IInv, RequestsInv, CallAt, Count, KeepCount, Codes
<1>4. /\ call[r].user \in Feeds /\ got[r] \in PageReads
      /\ got[r].page \in Pages /\ got[r].list \in SUBSET Posts /\ got[r].count \in Nat
      /\ posts \in past /\ IsFiniteSet(posts)
      /\ counts \in [Feeds -> [Pages -> SUBSET Nat]]
      /\ got \in [Requests -> PageReads] /\ pc \in [Requests -> Places]
  BY <1>3, CallsAreTyped DEF IInv, TypeOK, PageReads, CallType, PastInv
<1>5. counts' \in [Feeds -> [Pages -> SUBSET Nat]]
  BY <1>4 DEF Count, KeepCount
<1>6. ASSUME NEW n \in Nat, Counted(r, n)
      PROVE  IInv'
  <2>1. pc[r] \in {"count", "keepCount"} /\ UNCHANGED <<call, past>>
    BY <1>1 DEF Count, KeepCount, Idle
  <2>2. /\ got' \in [Requests -> PageReads] /\ pc' \in [Requests -> Places]
        /\ UNCHANGED reply /\ Local(r) /\ CallAt(r)' /\ ReadAt(r)' /\ TurnAt(r)'
    BY <1>6, <2>1, CountedIsSound
  <2>3. TypeOK'
    BY <1>1, <1>5, <2>2 DEF IInv, TypeOK, Idle
  <2>4. QED BY <1>2, <2>2, <2>3, OthersKeep DEF IInv
<1>7. CASE KeepCount(r)
  BY <1>4, <1>6, <1>7 DEF KeepCount
<1>8. CASE Count(r) /\ \E n \in counts[call[r].user][got[r].page] : Counted(r, n)
  BY <1>4, <1>6, <1>8
<1>9. CASE /\ Count(r) /\ MayInfer(r, got[r].list)
           /\ Counted(r, Skip(got[r].page) + Cardinality(got[r].list))
  <2>1. WasPage(got[r].list, call[r].user, got[r].page)
    BY <1>3, <1>9 DEF ReadAt, HoldsList, Count
  <2>2. IsFiniteSet(got[r].list)
    <3>1. PICK table \in past : got[r].list = Page(table, call[r].user, got[r].page)
      BY <2>1 DEF WasPage
    <3>2. IsFiniteSet(table) /\ got[r].list \subseteq table
      BY <3>1 DEF IInv, PastInv, Page, InFeed
    <3>3. QED BY <3>2, FS_Subset
  <2>3. Skip(got[r].page) \in Nat
    <3>1. got[r].page - 1 \in Nat
      BY <1>4 DEF Pages
    <3>2. ASSUME NEW k \in Nat
          PROVE  k * Take \in Nat
      OBVIOUS
    <3>3. QED BY <3>1, <3>2 DEF Skip
  <2>4. Skip(got[r].page) + Cardinality(got[r].list) \in Nat
    BY <2>2, <2>3, FS_CardinalityType
  <2>5. QED BY <1>6, <1>9, <2>4
<1>10. CASE /\ Count(r)
            /\ got' = [got EXCEPT ![r].count = Cardinality(InFeed(posts, call[r].user))]
            /\ Continue(r, "keepCount")
  <2>1. Cardinality(InFeed(posts, call[r].user)) \in Nat
    BY <1>4, FeedIsFinite, FS_CardinalityType
  <2>2. /\ Local(r) /\ UNCHANGED reply /\ pc[r] = "count" /\ pc'[r] = "keepCount"
        /\ got'[r].page = got[r].page /\ got'[r].list = got[r].list
        /\ got'[r].total = got[r].total
        /\ got' \in [Requests -> PageReads] /\ pc' \in [Requests -> Places]
    BY <1>1, <1>4, <1>10, <2>1 DEF Count, Continue, Go, Local, PageReads, Places
  <2>3. TypeOK'
    BY <1>1, <1>5, <2>2 DEF IInv, TypeOK, Idle
  <2>4. CallAt(r)' /\ ReadAt(r)' /\ TurnAt(r)'
    BY <1>1, <1>3, <2>2 DEF CallAt, ReadAt, TurnAt, IsList, HoldsList, WasPage, Idle
  <2>5. QED BY <1>2, <2>2, <2>3, <2>4, OthersKeep DEF IInv
<1>11. QED BY <1>7, <1>8, <1>9, <1>10 DEF Count

LEMMA WriteKeeps ==
  ASSUME IInv, NEW r \in Requests, Write(r) \/ Fails(r)
  PROVE  IInv'
<1>1. UNCHANGED <<call, lists, counts>> /\ Local(r) /\ pc'[r] = "done"
  BY DEF Write, Fails, Local, Answer, Go, IInv, TypeOK
<1>2. /\ posts' \subseteq Posts /\ lastId' \in OldPosts..MaxPosts
      /\ likes' \subseteq Ids \X Users
      /\ posts' \in past' /\ past' \subseteq SUBSET Posts /\ past \subseteq past'
      /\ PastInv' /\ LikesHavePosts'
  <2>1. CASE pc[r] = "write" /\ Statement(r)
    BY <2>1, StatementIsSound
  <2>2. CASE Idle
    <3>1. PastInv' /\ LikesHavePosts' /\ past \subseteq past'
      BY <2>2, IdleKeeps
    <3>2. QED BY <2>2, <3>1 DEF Idle, IInv, TypeOK
  <2>3. QED BY <2>1, <2>2 DEF Write, Fails, Idle
<1>3. TypeOK'
  <2>1. pc' \in [Requests -> Places] /\ reply' \in [Requests -> Codes \cup {NoReply}]
    BY MovesAreTyped DEF IInv, Write, Fails, Codes
  <2>2. NoPage \in PageReads
    BY DEF NoPage, PageReads, Pages
  <2>3. got' \in [Requests -> PageReads]
    BY <2>2 DEF IInv, TypeOK, Write, Fails
  <2>4. faults' \in 0..MaxFaults
    BY DEF IInv, TypeOK, Write, Fails
  <2>5. QED BY <1>1, <1>2, <2>1, <2>3, <2>4 DEF IInv, TypeOK
<1>4. CachedInv'
  <2>1. ASSUME NEW f \in Feeds, NEW n \in Pages, NEW list \in lists[f][n]
        PROVE  WasPage(list, f, n)'
    BY <1>2 DEF IInv, CachedInv, WasPage
  <2>2. QED BY <1>1, <2>1 DEF CachedInv
<1>5. CallAt(r)' /\ ReadAt(r)' /\ TurnAt(r)'
  <2>1. CallAt(r) /\ call[r] \in Calls
    BY DEF IInv, RequestsInv, CallAt, Write, Fails
  <2>2. CASE Write(r)
    <3>1. ~IsList(r)'
      BY <1>1, <2>1, <2>2 DEF Write, CallAt, IsList
    <3>2. QED BY <1>1, <2>1, <3>1 DEF CallAt, ReadAt, TurnAt
  <2>3. CASE Fails(r)
    <3>1. reply'[r] = "COMMON_INTERNAL_ERROR"
      BY <2>3 DEF IInv, TypeOK, Fails, Answer
    <3>2. QED BY <1>1, <2>1, <3>1 DEF CallAt, ReadAt, TurnAt, HoldsList
  <2>4. QED BY <2>2, <2>3
<1>6. QED BY <1>1, <1>2, <1>3, <1>4, <1>5, OthersKeep DEF IInv

LEMMA ExpireKeeps ==
  ASSUME IInv, NEW f \in Feeds, NEW n \in Pages, Expire(f, n)
  PROVE  IInv'
<1>1. Idle /\ UNCHANGED <<pc, call, got, reply, faults>>
  BY DEF Expire, Idle
<1>2. PastInv' /\ LikesHavePosts'
  BY <1>1, IdleKeeps
<1>3. TypeOK'
  <2>1. /\ lists' \in [Feeds -> [Pages -> SUBSET (SUBSET Posts)]]
        /\ counts' \in [Feeds -> [Pages -> SUBSET Nat]]
    <3> USE DEF IInv, TypeOK
    <3>1. CASE lists' = [lists EXCEPT ![f][n] = {}] /\ UNCHANGED counts
      BY <3>1
    <3>2. CASE counts' = [counts EXCEPT ![f][n] = {}] /\ UNCHANGED lists
      BY <3>2
    <3>3. QED BY <3>1, <3>2 DEF Expire
  <2>2. QED BY <1>1, <2>1 DEF IInv, TypeOK, Idle
<1>4. CachedInv'
  <2>1. \A g \in Feeds, m \in Pages : lists'[g][m] \subseteq lists[g][m]
    BY DEF IInv, TypeOK, Expire
  <2>2. QED BY <1>1, <2>1 DEF IInv, CachedInv, WasPage, Idle
<1>5. RequestsInv'
  BY <1>1 DEF IInv, RequestsInv, CallAt, ReadAt, TurnAt, IsList, HoldsList, WasPage, Idle
<1>6. QED BY <1>2, <1>3, <1>4, <1>5 DEF IInv

LEMMA StutterKeeps == IInv /\ UNCHANGED vars => IInv'
<1> SUFFICES ASSUME IInv, UNCHANGED vars PROVE IInv'
  OBVIOUS
<1>1. TypeOK' /\ PastInv' /\ LikesHavePosts' /\ CachedInv'
  BY DEF vars, IInv, TypeOK, PastInv, LikesHavePosts, Exists, CachedInv, WasPage
<1>2. RequestsInv'
  BY DEF vars, IInv, RequestsInv, CallAt, ReadAt, TurnAt, IsList, HoldsList, WasPage
<1>3. QED BY <1>1, <1>2 DEF IInv

-----------------------------------------------------------------------------
\* IInv is an invariant of the blog, for any requests, users, posts and pages.
THEOREM Inductive == Spec => []IInv
<1>1. IInv /\ [Next]_vars => IInv'
  <2> SUFFICES ASSUME IInv, [Next]_vars PROVE IInv'
    OBVIOUS
  <2>1. ASSUME NEW r \in Requests, NEW c \in Calls, Arrive(r, c)
        PROVE  IInv'
    BY <2>1, ArriveKeeps
  <2>2. ASSUME NEW r \in Requests, Serve(r)
        PROVE  IInv'
    BY <2>2, LookKeeps, ReadPageKeeps, CountKeeps, WriteKeeps DEF Serve
  <2>3. ASSUME NEW f \in Feeds, NEW n \in Pages, Expire(f, n)
        PROVE  IInv'
    BY <2>3, ExpireKeeps
  <2>4. QED BY <2>1, <2>2, <2>3, StutterKeeps DEF Next
<1>2. QED BY <1>1, InitIInv, PTL DEF Spec

\* Every variable keeps its type.
THEOREM TypeCorrect == Spec => []TypeOK
<1>1. IInv => TypeOK
  BY DEF IInv
<1>2. QED BY <1>1, Inductive, PTL

\* No interleaving of likes and deletions leaves a like without its post: the two
\* foreign key checks, at the INSERT and at the DELETE, are enough.
THEOREM LikesKeepPosts == Spec => []LikesHavePosts
<1>1. IInv => LikesHavePosts
  BY DEF IInv
<1>2. QED BY <1>1, Inductive, PTL

\* The page number answered is that of the page asked for, and of the list shown.
LEMMA ShownPage ==
  ASSUME IInv, NEW r \in Requests, Shown(r)
  PROVE  LET page == AdjustedPage(call[r].page, got[r].total) IN
         /\ AdjustedPage(got[r].page, got[r].total) = page
         /\ \E table \in past : got[r].list = TruePage(table, call[r].user, page)
<1>1. CallAt(r) /\ ReadAt(r) /\ TurnAt(r) /\ reply[r] = "SUCCESS" /\ call[r].op = "list"
  BY DEF IInv, RequestsInv, Shown
<1>2. IsList(r) /\ call[r] \in Calls
  BY <1>1, CallsAreTyped DEF CallAt, IsList, Codes
<1>3. got[r].page \in Pages /\ got[r].total \in Nat /\ call[r].page \in Pages
  BY <1>2, CallsAreTyped DEF IInv, TypeOK, PageReads, CallType
<1>4. got[r].page = AdjustedPage(call[r].page, got[r].total)
  BY <1>1, <1>2 DEF TurnAt
<1>5. AdjustedPage(got[r].page, got[r].total) = got[r].page
  <2>1. LastPage(got[r].total) \in Nat
    BY <1>3, LastPageIsPositive
  <2>2. QED BY <1>3, <1>4, <2>1 DEF AdjustedPage, Pages
<1>6. PICK table \in past : got[r].list = Page(table, call[r].user, got[r].page)
  BY <1>1, <1>2 DEF ReadAt, HoldsList, WasPage
<1>7. IsFiniteSet(table)
  BY DEF IInv, PastInv
<1>8. QED BY <1>3, <1>4, <1>5, <1>6, <1>7, PageIsTruePage

\* Whatever is cached, expires or is written in between, a page that is shown was
\* that page of its feed at some moment.
THEOREM ShownPagesWereTrue == Spec => []PageWasTrue
<1>1. IInv => PageWasTrue
  BY ShownPage DEF PageWasTrue
<1>2. QED BY <1>1, Inductive, PTL

\* Only its owner's request changes or removes a post, whoever else names its id.
THEOREM OwnersWrite == Spec => OnlyTheOwnerWrites
<1> DEFINE Owned ==
      \A p \in posts : p \notin posts' =>
        \E r \in Requests :
          /\ pc[r] = "write" /\ pc'[r] = "done"
          /\ call[r].op \in {"patch", "delete"}
          /\ call[r].id = p.id /\ call[r].user = p.owner
<1>1. IInv /\ [Next]_vars => [Owned]_vars
  <2> SUFFICES ASSUME IInv, Next PROVE Owned
    OBVIOUS
  <2>1. CASE UNCHANGED posts
    BY <2>1
  <2>2. ASSUME NEW r \in Requests, pc[r] = "write", Statement(r), pc'[r] = "done"
        PROVE  Owned
    <3>1. \A p \in posts : p \notin posts' =>
            call[r].op \in {"patch", "delete"} /\ p \in Mine(r)
      BY <2>2 DEF Statement, Create, Patch, Delete, InsertLike, DeleteLike
    <3>2. QED BY <2>2, <3>1 DEF Mine
  <2>3. ASSUME NEW r \in Requests, Serve(r)
        PROVE  UNCHANGED posts \/ (pc[r] = "write" /\ Statement(r) /\ pc'[r] = "done")
    BY <2>3 DEF IInv, TypeOK, Serve, Check, Write, Find, LikesOf, Fails, Lookup, Select,
                Keep, Count, KeepCount, Answer, Go
  <2>4. QED BY <2>1, <2>2, <2>3 DEF Next, Arrive, Expire
<1>2. QED BY <1>1, Inductive, PTL DEF Spec, OnlyTheOwnerWrites
-----------------------------------------------------------------------------
\* The likes and the answers.  A step touches one request that is not done, or none.

Answered(r) == reply[r] \in {"SUCCESS", "COMMON_INTERNAL_ERROR"}

LikeAdded(r) ==
  /\ call[r].op = "like" /\ UNCHANGED call
  /\ Liked(r) \notin likes /\ likes' = likes \cup {Liked(r)}
  /\ Answered(r)'

LikeRemoved(r) ==
  /\ call[r].op = "unlike" /\ UNCHANGED call
  /\ likes' \in {likes, likes \ {Liked(r)}}
  /\ Answered(r)'

NoLike(r) ==
  /\ UNCHANGED likes
  /\ ~(reply'[r] = "SUCCESS" /\ call'[r].op = "like")
  /\ ~(Answered(r)' /\ call'[r].op = "unlike")

LEMMA StepOfOne ==
  ASSUME IInv, NEW r \in Requests, NEW c \in Calls, Arrive(r, c) \/ Serve(r)
  PROVE  Local(r) /\ pc[r] # "done" /\ reply[r] = NoReply
<1>1. pc[r] # "done"
  BY DEF Arrive, Serve, Check, Write, Find, LikesOf, Fails, Lookup, Select, Keep, Count,
         KeepCount
<1>2. reply[r] = NoReply
  BY <1>1 DEF IInv, RequestsInv, CallAt
<1>3. Local(r)
  <2> USE DEF IInv, TypeOK, Local, Answer, Continue, Go
  <2>1. CASE Arrive(r, c)
    BY <2>1 DEF Arrive
  <2>2. CASE Check(r) \/ Write(r) \/ Find(r) \/ LikesOf(r) \/ Fails(r)
    BY <2>2 DEF Check, Write, Find, LikesOf, Fails
  <2>3. CASE Lookup(r) \/ Select(r) \/ Keep(r)
    BY <2>3 DEF Lookup, Select, Keep
  <2>4. CASE Count(r) \/ KeepCount(r)
    BY <2>4 DEF Count, KeepCount, Counted
  <2>5. QED BY <2>1, <2>2, <2>3, <2>4 DEF Serve
<1>4. QED BY <1>1, <1>2, <1>3

\* Who serves a request has a call, so that some call there is.
LEMMA ServeMeansCall ==
  ASSUME IInv, NEW r \in Requests, Serve(r)
  PROVE  \E c \in Calls : TRUE
<1>1. pc[r] # "idle"
  BY DEF Serve, Check, Write, Find, LikesOf, Fails, Lookup, Select, Keep, Count, KeepCount
<1>2. QED BY <1>1 DEF IInv, RequestsInv, CallAt

\* What a step may do to the likes, and to the answers about them.
LEMMA LikeStep ==
  ASSUME IInv, NEW r \in Requests, NEW c \in Calls, Arrive(r, c) \/ Serve(r)
  PROVE  LikeAdded(r) \/ LikeRemoved(r) \/ NoLike(r)
<1>1. /\ pc \in [Requests -> Places] /\ reply \in [Requests -> Codes \cup {NoReply}]
      /\ call \in [Requests -> CallType \cup {NoCall}]
      /\ reply[r] = NoReply /\ NoReply \notin Codes /\ CallAt(r)
  BY StepOfOne DEF IInv, TypeOK, RequestsInv
<1>2. CASE Arrive(r, c)
  BY <1>1, <1>2 DEF Arrive, Answer, Continue, Go, NoLike, Answered, Codes
<1>3. CASE Statement(r) /\ UNCHANGED call /\ Answered(r)'
  BY <1>3 DEF Statement, Create, Patch, Delete, InsertLike, DeleteLike, LikeAdded,
              LikeRemoved, NoLike
<1>4. CASE Write(r) /\ ~Statement(r)
  BY <1>1, <1>4 DEF Write, Refused, Answer, Go, NoLike, Answered
<1>5. CASE Fails(r) /\ UNCHANGED likes
  BY <1>1, <1>5 DEF Fails, Answer, Go, NoLike, LikeRemoved, Answered
<1>6. CASE Check(r) \/ Find(r)
  BY <1>1, <1>6 DEF Check, Find, Answer, Continue, Go, NoLike, Answered, Codes
<1>7. CASE Lookup(r) \/ Select(r) \/ Keep(r)
  BY <1>1, <1>7 DEF Lookup, Select, Keep, Continue, Go, NoLike, Answered, Codes
<1>8. CASE Count(r) \/ KeepCount(r)
  BY <1>1, <1>8 DEF Count, KeepCount, Counted, Continue, Go, NoLike, Answered, Codes
<1>9. CASE LikesOf(r)
  BY <1>1, <1>9 DEF LikesOf, Answer, Go, NoLike, Answered, CallAt
<1>10. (Write(r) \/ Fails(r)) /\ Statement(r) => UNCHANGED call /\ Answered(r)'
  BY <1>1 DEF Write, Fails, Answer, Go, Answered
<1>11. QED BY <1>2, <1>3, <1>4, <1>5, <1>6, <1>7, <1>8, <1>9, <1>10 DEF Serve, Fails

\* A step of no request leaves the likes and the requests alone.
LEMMA QuietStep ==
  ASSUME (\E f \in Feeds, n \in Pages : Expire(f, n)) \/ UNCHANGED vars
  PROVE  UNCHANGED <<pc, call, got, likes, reply>>
  BY DEF Expire, vars

\* The first two clauses of LikesMatchAnswers, with what each like of the table
\* adds to the second.
MatchAt(id, u) ==
  LET accepted == Accepted("like", id, u) IN
  /\ accepted # {} /\ Unlikes(id, u) = {} => <<id, u>> \in likes
  /\ Cardinality(accepted)
       <= Cardinality(Unlikes(id, u)) + (IF <<id, u>> \in likes THEN 1 ELSE 0)

MatchInv == \A id \in Ids, u \in Users : MatchAt(id, u)

LEMMA SetsOfRequests ==
  ASSUME NEW op, NEW id, NEW u
  PROVE  /\ IsFiniteSet(Accepted(op, id, u)) /\ Cardinality(Accepted(op, id, u)) \in Nat
         /\ IsFiniteSet(Unlikes(id, u)) /\ Cardinality(Unlikes(id, u)) \in Nat
<1>1. Accepted(op, id, u) \subseteq Requests /\ Unlikes(id, u) \subseteq Requests
  BY DEF Accepted, Unlikes
<1>2. QED BY <1>1, FS_Subset, FS_CardinalityType

LEMMA MatchStep ==
  ASSUME IInv, NEW id \in Ids, NEW u \in Users, MatchAt(id, u),
         NEW r \in Requests, Local(r), reply[r] = NoReply,
         LikeAdded(r) \/ LikeRemoved(r) \/ NoLike(r)
  PROVE  MatchAt(id, u)'
<1> DEFINE accepted == Accepted("like", id, u)
           unlikes  == Unlikes(id, u)
<1>1. /\ r \notin accepted /\ r \notin unlikes
      /\ \A q \in Requests \ {r} : q \in accepted' <=> q \in accepted
      /\ \A q \in Requests \ {r} : q \in unlikes' <=> q \in unlikes
      /\ accepted \subseteq Requests /\ accepted' \subseteq Requests
      /\ unlikes \subseteq Requests /\ unlikes' \subseteq Requests
  <2>1. NoReply \notin {"SUCCESS", "COMMON_INTERNAL_ERROR"}
    BY DEF Codes
  <2>2. QED BY <2>1 DEF Accepted, Unlikes, Local
<1>2. /\ IsFiniteSet(accepted) /\ Cardinality(accepted) \in Nat
      /\ IsFiniteSet(unlikes) /\ Cardinality(unlikes) \in Nat
  BY SetsOfRequests
<1>3. /\ accepted' = accepted \/ accepted' = accepted \cup {r}
      /\ unlikes' = unlikes \/ unlikes' = unlikes \cup {r}
      /\ r \notin accepted' => accepted' = accepted
      /\ r \notin unlikes' => unlikes' = unlikes
  BY <1>1
<1>4. /\ Cardinality(accepted \cup {r}) = Cardinality(accepted) + 1
      /\ Cardinality(unlikes \cup {r}) = Cardinality(unlikes) + 1
  BY <1>1, <1>2, FS_AddElement
<1>5. /\ accepted # {} /\ unlikes = {} => <<id, u>> \in likes
      /\ Cardinality(accepted)
           <= Cardinality(unlikes) + (IF <<id, u>> \in likes THEN 1 ELSE 0)
  BY DEF MatchAt
<1>6. CASE LikeAdded(r)
  <2>1. r \notin unlikes'
    BY <1>6 DEF LikeAdded, Unlikes
  <2>2. r \in accepted' => Liked(r) = <<id, u>>
    BY <1>6 DEF LikeAdded, Accepted, Liked
  <2>3. CASE Liked(r) = <<id, u>>
    <3>1. <<id, u>> \notin likes /\ <<id, u>> \in likes'
      BY <1>6, <2>3 DEF LikeAdded
    <3>2. Cardinality(accepted') <= Cardinality(accepted) + 1
      BY <1>2, <1>3, <1>4
    <3>3. Cardinality(accepted') \in Nat
      <4>1. CASE accepted' = accepted
        BY <1>2, <4>1
      <4>2. CASE accepted' = accepted \cup {r}
        BY <1>2, <1>4, <4>2
      <4>3. QED BY <1>3, <4>1, <4>2
    <3>4. QED BY <1>2, <1>3, <1>5, <2>1, <3>1, <3>2, <3>3 DEF MatchAt
  <2>4. CASE Liked(r) # <<id, u>>
    <3>1. <<id, u>> \in likes' <=> <<id, u>> \in likes
      BY <1>6, <2>4 DEF LikeAdded
    <3>2. QED BY <1>3, <1>5, <2>1, <2>2, <2>4, <3>1 DEF MatchAt
  <2>5. QED BY <2>3, <2>4
<1>7. CASE LikeRemoved(r)
  <2>1. r \notin accepted'
    BY <1>7 DEF LikeRemoved, Accepted
  <2>2. r \in unlikes' <=> Liked(r) = <<id, u>>
    BY <1>7 DEF LikeRemoved, Unlikes, Liked, Answered
  <2>3. CASE Liked(r) = <<id, u>>
    <3>1. unlikes' = unlikes \cup {r}
      BY <1>3, <2>2, <2>3
    <3>2. QED BY <1>2, <1>3, <1>4, <1>5, <2>1, <3>1 DEF MatchAt
  <2>4. CASE Liked(r) # <<id, u>>
    <3>1. <<id, u>> \in likes' <=> <<id, u>> \in likes
      BY <1>7, <2>4 DEF LikeRemoved
    <3>2. QED BY <1>3, <1>5, <2>1, <2>2, <2>4, <3>1 DEF MatchAt
  <2>5. QED BY <2>3, <2>4
<1>8. CASE NoLike(r)
  <2>1. r \notin accepted' /\ r \notin unlikes'
    BY <1>8 DEF NoLike, Accepted, Unlikes, Answered
  <2>2. QED BY <1>3, <1>5, <1>8, <2>1 DEF MatchAt, NoLike
<1>9. QED BY <1>6, <1>7, <1>8

\* One like per user and post, whatever overlaps and fails: an accepted like is in
\* the table until an unlike, and no second one is accepted before that.
THEOREM LikesAreOnce == Spec => []LikesMatchAnswers
<1>1. Init => MatchInv
  <2> SUFFICES ASSUME Init, NEW id \in Ids, NEW u \in Users
               PROVE  MatchAt(id, u)
    BY DEF MatchInv
  <2>1. Accepted("like", id, u) = {} /\ Unlikes(id, u) = {}
    <3>1. NoReply \notin {"SUCCESS", "COMMON_INTERNAL_ERROR"}
      BY DEF Codes
    <3>2. QED BY <3>1 DEF Init, Accepted, Unlikes
  <2>2. QED BY <2>1, FS_EmptySet DEF MatchAt
<1>2. IInv /\ MatchInv /\ [Next]_vars => MatchInv'
  <2> SUFFICES ASSUME IInv, MatchInv, [Next]_vars, NEW id \in Ids, NEW u \in Users
               PROVE  MatchAt(id, u)'
    BY DEF MatchInv
  <2>1. MatchAt(id, u)
    BY DEF MatchInv
  <2>2. ASSUME NEW r \in Requests, NEW c \in Calls, Arrive(r, c) \/ Serve(r)
        PROVE  MatchAt(id, u)'
    BY <2>1, <2>2, StepOfOne, LikeStep, MatchStep
  <2>3. CASE UNCHANGED <<pc, call, got, likes, reply>>
    BY <2>1, <2>3 DEF MatchAt, Accepted, Unlikes
  <2>4. QED BY <2>2, <2>3, QuietStep, ServeMeansCall DEF Next
<1>3. IInv /\ MatchInv => LikesMatchAnswers
  <2> SUFFICES ASSUME IInv, MatchInv, NEW id \in Ids, NEW u \in Users
               PROVE  LET accepted == Accepted("like", id, u) IN
                      /\ accepted # {} /\ Unlikes(id, u) = {} => <<id, u>> \in likes
                      /\ Cardinality(accepted) <= Cardinality(Unlikes(id, u)) + 1
    BY DEF LikesMatchAnswers
  <2>1. MatchAt(id, u)
    BY DEF MatchInv
  <2>2. QED BY <2>1, SetsOfRequests DEF MatchAt
<1>4. QED BY <1>1, <1>2, <1>3, Inductive, PTL DEF Spec

\* Every like of the table was asked for by a request that has been answered, and
\* what a reader of one post holds is that post.
GivenBy(l, q) ==
  call[q].op = "like" /\ Liked(q) = l /\ Answered(q)
HiddenAt(r) ==
  \E q \in Requests :
    GivenBy(<<call[r].id, call[q].user>>, q) /\ call[q].user \in Nameless
ReaderAt(r) ==
  call[r].op = "read" =>
    /\ pc[r] = "likes" => \A p \in got[r].list : p.id = call[r].id
    /\ reply[r] = "USER_INFO_NOT_FOUND" => HiddenAt(r)
HiddenInv ==
  /\ \A l \in likes : \E q \in Requests : GivenBy(l, q)
  /\ \A r \in Requests : ReaderAt(r)

LEMMA GivenStays ==
  ASSUME IInv, NEW r \in Requests, Local(r), reply[r] = NoReply,
         NEW l, NEW q \in Requests, GivenBy(l, q)
  PROVE  q # r /\ GivenBy(l, q)' /\ call'[q] = call[q]
<1>1. NoReply \notin {"SUCCESS", "COMMON_INTERNAL_ERROR"}
  BY DEF Codes
<1>2. q # r
  BY <1>1 DEF GivenBy, Answered
<1>3. QED BY <1>2 DEF GivenBy, Answered, Local, Liked

LEMMA HiddenStep ==
  ASSUME IInv, HiddenInv, NEW r \in Requests, NEW c \in Calls, Arrive(r, c) \/ Serve(r)
  PROVE  HiddenInv'
<1>1. Local(r) /\ reply[r] = NoReply /\ (LikeAdded(r) \/ LikeRemoved(r) \/ NoLike(r))
  BY StepOfOne, LikeStep
<1>2. \A l \in likes' : \E q \in Requests : GivenBy(l, q)'
  <2> SUFFICES ASSUME NEW l \in likes'
               PROVE  \E q \in Requests : GivenBy(l, q)'
    OBVIOUS
  <2>1. CASE l \in likes
    BY <1>1, <2>1, GivenStays DEF HiddenInv
  <2>2. CASE l \notin likes
    BY <1>1, <2>2 DEF LikeAdded, LikeRemoved, NoLike, GivenBy, Liked
  <2>3. QED BY <2>1, <2>2
<1>3. ASSUME NEW q \in Requests, q # r
      PROVE  ReaderAt(q)'
  <2>1. ReaderAt(q) /\ pc'[q] = pc[q] /\ call'[q] = call[q] /\ got'[q] = got[q]
        /\ reply'[q] = reply[q]
    BY <1>1, <1>3 DEF HiddenInv, Local
  <2>2. HiddenAt(q) => HiddenAt(q)'
    BY <1>1, <2>1, GivenStays DEF HiddenAt
  <2>3. QED BY <2>1, <2>2 DEF ReaderAt
<1>4. ReaderAt(r)'
  <2> USE DEF IInv, TypeOK
  <2>1. CallAt(r) /\ ReaderAt(r)
    BY DEF RequestsInv, HiddenInv
  <2>2. CASE Find(r)
    BY <1>1, <2>1, <2>2 DEF Find, Answer, Continue, Go, ReaderAt, CallAt, PageReads, Codes
  <2>3. CASE LikesOf(r) /\ reply'[r] = "USER_INFO_NOT_FOUND" /\ call[r].op = "read"
    <3>1. PICK u \in Nameless, p \in got[r].list : <<p.id, u>> \in likes
      BY <2>3 DEF LikesOf, Answer, Likers, Codes
    <3>2. p.id = call[r].id
      BY <2>1, <2>3, <3>1 DEF LikesOf, ReaderAt
    <3>3. PICK l \in likes : l = <<call[r].id, u>>
      BY <3>1, <3>2
    <3>4. PICK q \in Requests : GivenBy(l, q)
      BY DEF HiddenInv
    <3>5. call[q].user = u
      BY <3>3, <3>4 DEF GivenBy, Liked
    <3>6. GivenBy(l, q)' /\ call'[q] = call[q]
      BY <1>1, <3>4, GivenStays
    <3>7. UNCHANGED call /\ pc'[r] = "done"
      BY <2>3 DEF LikesOf, Answer, Go
    <3>8. HiddenAt(r)'
      BY <3>1, <3>3, <3>5, <3>6, <3>7 DEF HiddenAt
    <3>9. QED BY <3>7, <3>8 DEF ReaderAt
  <2>4. CASE LikesOf(r) /\ ~(reply'[r] = "USER_INFO_NOT_FOUND" /\ call[r].op = "read")
    BY <2>4 DEF LikesOf, Answer, Go, ReaderAt
  <2>5. CASE Arrive(r, c) \/ Write(r) \/ Check(r) \/ Fails(r)
    BY <1>1, <2>1, <2>5 DEF Arrive, Write, Check, Fails, Answer, Continue, Go, ReaderAt,
                            CallAt, Codes
  <2>6. CASE Lookup(r) \/ Select(r) \/ Keep(r) \/ Count(r) \/ KeepCount(r)
    <3>1. UNCHANGED <<call, reply>> /\ call[r].op = "list"
      BY <2>1, <2>6 DEF Lookup, Select, Keep, Count, KeepCount, Counted, Continue, CallAt,
                        IsList
    <3>2. QED BY <3>1 DEF ReaderAt
  <2>7. QED BY <2>2, <2>3, <2>4, <2>5, <2>6 DEF Serve
<1>5. QED BY <1>2, <1>3, <1>4 DEF HiddenInv

\* A missing profile takes a post from its readers only by a like of that post.
THEOREM LikesHide == Spec => []HiddenByALike
<1>1. OldLikes = 0 /\ Init => HiddenInv
  <2> SUFFICES ASSUME OldLikes = 0, Init PROVE HiddenInv
    OBVIOUS
  <2>1. likes = {}
    <3>1. IsFiniteSet(likes)
      <4>1. IsFiniteSet(1..OldPosts) /\ IsFiniteSet(Users)
        BY FS_Interval
      <4>2. IsFiniteSet((1..OldPosts) \X Users)
        BY <4>1, FS_Product
      <4>3. QED BY <4>2, FS_Subset DEF Init
    <3>2. Cardinality(likes) = 0
      BY <3>1, FS_CardinalityType DEF Init
    <3>3. QED BY <3>1, <3>2, FS_EmptySet
  <2>2. QED BY <2>1 DEF Init, HiddenInv, ReaderAt, Codes
<1>2. IInv /\ HiddenInv /\ [Next]_vars => HiddenInv'
  <2> SUFFICES ASSUME IInv, HiddenInv, [Next]_vars PROVE HiddenInv'
    OBVIOUS
  <2>1. ASSUME NEW r \in Requests, NEW c \in Calls, Arrive(r, c) \/ Serve(r)
        PROVE  HiddenInv'
    BY <2>1, HiddenStep
  <2>2. CASE UNCHANGED <<pc, call, got, likes, reply>>
    BY <2>2 DEF HiddenInv, ReaderAt, HiddenAt, GivenBy, Liked, Answered
  <2>3. QED BY <2>1, <2>2, QuietStep, ServeMeansCall DEF Next
<1>3. HiddenInv => HiddenByALike
  BY DEF HiddenInv, ReaderAt, HiddenAt, GivenBy, Answered, Liked, HiddenByALike
<1>4. CASE OldLikes = 0
  BY <1>1, <1>2, <1>3, <1>4, Inductive, PTL DEF Spec
<1>5. CASE OldLikes # 0
  <2>1. HiddenByALike
    BY <1>5 DEF HiddenByALike
  <2>2. QED BY <2>1, PTL
<1>6. QED BY <1>4, <1>5

-----------------------------------------------------------------------------
\* The total.  The rank of a row, the number of newer ones, numbers the rows of a
\* feed from 0 on; so a list that is not full ends its feed.

Distinct(table) == \A p, q \in table : p.id = q.id => p = q
Rank(p, rows) == Cardinality(Newer(p, rows))

LEMMA RanksNumberTheRows ==
  ASSUME NEW rows \in SUBSET Posts, IsFiniteSet(rows), Distinct(rows)
  PROVE  [p \in rows |-> Rank(p, rows)] \in Bijection(rows, 0..(Cardinality(rows) - 1))
<1> DEFINE n == Cardinality(rows)
           f == [p \in rows |-> Rank(p, rows)]
<1>1. n \in Nat
  BY FS_CardinalityType
<1>2. ASSUME NEW p \in rows
      PROVE  /\ IsFiniteSet(Newer(p, rows)) /\ Rank(p, rows) \in Nat
             /\ Rank(p, rows) < n
  <2>1. Newer(p, rows) \subseteq rows /\ p \notin Newer(p, rows)
    BY DEF Newer, Posts, Ids
  <2>2. IsFiniteSet(Newer(p, rows)) /\ Rank(p, rows) <= n /\ Rank(p, rows) # n
    BY <2>1, FS_Subset DEF Rank
  <2>3. Rank(p, rows) \in Nat
    BY <2>2, FS_CardinalityType DEF Rank
  <2>4. QED BY <1>1, <2>2, <2>3
<1>3. ASSUME NEW p \in rows, NEW q \in rows, p.id < q.id
      PROVE  Rank(q, rows) < Rank(p, rows)
  <2>1. Newer(q, rows) \subseteq Newer(p, rows)
    BY <1>3 DEF Newer, Posts, Ids
  <2>2. q \in Newer(p, rows) /\ q \notin Newer(q, rows)
    BY <1>3 DEF Newer, Posts, Ids
  <2>3. Rank(q, rows) <= Rank(p, rows) /\ Rank(q, rows) # Rank(p, rows)
    BY <1>2, <2>1, <2>2, FS_Subset DEF Rank
  <2>4. QED BY <1>2, <2>3
<1>4. f \in [rows -> 0..(n - 1)]
  BY <1>1, <1>2
<1>5. ASSUME NEW p \in rows, NEW q \in rows, f[p] = f[q]
      PROVE  p = q
  <2>1. Rank(p, rows) = Rank(q, rows) /\ Rank(p, rows) \in Nat
    BY <1>2, <1>5
  <2>2. p.id \in Int /\ q.id \in Int
    BY DEF Posts, Ids
  <2>3. ~(p.id < q.id) /\ ~(q.id < p.id)
    BY <1>2, <1>3, <2>1
  <2>4. QED BY <2>2, <2>3 DEF Distinct
<1>6. f \in Injection(rows, 0..(n - 1))
  BY <1>4, <1>5, Fun_IsInj
<1>7. IsFiniteSet(0..(n - 1)) /\ Cardinality(0..(n - 1)) = n
  BY <1>1, SizeOfInterval
<1>8. f \in Surjection(rows, 0..(n - 1))
  BY <1>6, <1>7, FS_Injection
<1>9. QED BY <1>6, <1>8, Fun_IsBij

\* What lazyCount infers: the rows before a list that is not full, and its own.
LEMMA InferredTotal ==
  ASSUME NEW table \in SUBSET Posts, IsFiniteSet(table), Distinct(table),
         NEW feed, NEW page \in Nat \ {0}, NEW list, list = Page(table, feed, page),
         ~Full(list), list # {} \/ Skip(page) = 0
  PROVE  Skip(page) + Cardinality(list) = Cardinality(InFeed(table, feed))
<1> DEFINE rows == InFeed(table, feed)
           n == Cardinality(rows)
           a == Skip(page)
           window == {k \in 0..(n - 1) : k \in a..(a + Take - 1)}
           f == [p \in rows |-> Rank(p, rows)]
           g == [p \in list |-> Rank(p, rows)]
<1>1. rows \in SUBSET Posts /\ IsFiniteSet(rows) /\ Distinct(rows) /\ n \in Nat
  BY FS_Subset, FS_CardinalityType DEF InFeed, Distinct
<1>2. a \in Nat
  <2>1. page - 1 \in Nat
    OBVIOUS
  <2>2. ASSUME NEW k \in Nat
        PROVE  k * Take \in Nat
    OBVIOUS
  <2>3. QED BY <2>1, <2>2 DEF Skip
<1>3. f \in Bijection(rows, 0..(n - 1))
  BY <1>1, RanksNumberTheRows
<1>4. /\ list \subseteq rows
      /\ \A p \in rows : p \in list <=> f[p] \in a..(a + Take - 1)
  BY DEF Page, Rank
<1>5. /\ f \in [rows -> 0..(n - 1)]
      /\ \A p, q \in rows : f[p] = f[q] => p = q
      /\ \A k \in 0..(n - 1) : \E p \in rows : f[p] = k
  <2> DEFINE ranks == 0..(n - 1)
  <2>1. f \in Bijection(rows, ranks)
    BY <1>3
  <2> HIDE DEF f, ranks, rows
  <2>2. f \in [rows -> ranks]
    BY <2>1, Fun_BijectionProperties
  <2>3. \A p, q \in rows : f[p] = f[q] => p = q
    BY <2>1, Fun_BijectionProperties
  <2>4. \A k \in ranks : \E p \in rows : f[p] = k
    BY <2>1, Fun_BijectionProperties
  <2>5. QED BY <2>2, <2>3, <2>4 DEF ranks
<1>6. g \in Bijection(list, window)
  <2> HIDE DEF rows, a, n
  <2>1. \A p \in list : g[p] = f[p]
    BY <1>4
  <2>2. g \in [list -> window]
    <3>1. \A p \in list : g[p] \in window
      BY <1>4, <1>5, <2>1
    <3>2. QED BY <3>1
  <2>3. \A p, q \in list : g[p] = g[q] => p = q
    BY <1>4, <1>5, <2>1
  <2>4. \A k \in window : \E p \in list : g[p] = k
    BY <1>4, <1>5, <2>1
  <2>5. QED BY <2>2, <2>3, <2>4, Fun_IsBij
<1>7. IsFiniteSet(list)
  BY <1>1, <1>4, FS_Subset
<1>8. Cardinality(window) = Cardinality(list) /\ (window = {} => list = {})
  <2>1. ExistsBijection(list, window)
    BY <1>6, Fun_ExistsBij
  <2>2. Cardinality(window) = Cardinality(list)
    BY <1>7, <2>1, FS_Bijection
  <2>3. window = {} => list = {}
    BY <1>6, Fun_BijectionProperties
  <2>4. QED BY <2>2, <2>3
<1>9. CASE a >= n
  <2>1. window = {}
    BY <1>1, <1>2, <1>9
  <2>2. list = {} /\ Cardinality(list) = 0
    BY <1>8, <2>1, FS_EmptySet
  <2> HIDE DEF a, n
  <2>3. a = 0 /\ n = 0
    BY <1>1, <1>2, <1>9, <2>2 DEF a
  <2>4. QED BY <2>2, <2>3 DEF a, n
<1>10. CASE a < n
  <2> DEFINE last == IF a + Take <= n THEN a + Take - 1 ELSE n - 1
  <2>1. window = a..last /\ last \in Nat /\ a <= last
    BY <1>1, <1>2, <1>10
  <2>2. Cardinality(list) = last - a + 1
    <3> HIDE DEF last, a
    <3>1. Cardinality(a..last) = last - a + 1
      BY <1>2, <2>1, FS_Interval
    <3>2. QED BY <1>8, <2>1, <3>1
  <2>3. last # a + Take - 1
    BY <1>2, <2>1, <2>2 DEF Full
  <2>4. QED BY <1>1, <1>2, <2>2, <2>3
<1>11. QED BY <1>1, <1>2, <1>9, <1>10

WasTotal(n, feed) == \E table \in past : n = Cardinality(InFeed(table, feed))

DistinctInv ==
  /\ \A table \in past : Distinct(table)
  /\ \A p \in posts : p.id <= lastId
CountsInv == \A f \in Feeds, n \in Pages : \A k \in counts[f][n] : WasTotal(k, f)

\* What r has counted, and the total of the page it was turned from or answers.
HasTotal(r) ==
  \/ pc[r] \in {"lookup", "select", "keep", "count", "keepCount"}
     /\ got[r].page # call[r].page
  \/ pc[r] = "likes"
  \/ reply[r] = "SUCCESS"
TotalAt(r) ==
  IsList(r) =>
    /\ pc[r] = "keepCount" => WasTotal(got[r].count, call[r].user)
    /\ HasTotal(r) => WasTotal(got[r].total, call[r].user)

TotalInv == DistinctInv /\ CountsInv /\ \A r \in Requests : TotalAt(r)

LEMMA StatementKeepsDistinct ==
  ASSUME IInv, DistinctInv, NEW r \in Requests, pc[r] = "write", Statement(r)
  PROVE  DistinctInv'
<1>1. /\ posts \subseteq Posts /\ lastId \in Nat /\ Distinct(posts)
      /\ \A p \in posts : p.id \in Nat /\ p.id <= lastId
  BY DEF IInv, TypeOK, DistinctInv, Posts, Ids
<1>2. Distinct(posts') /\ \A p \in posts' : p.id <= lastId'
  <2>1. CASE Create(r)
    <3>1. NewPost(r).id = lastId + 1 /\ lastId' = lastId + 1
      BY <2>1 DEF Create, NewPost
    <3>2. posts' = posts \cup {NewPost(r)}
      BY <2>1 DEF Create
    <3>3. QED BY <1>1, <3>1, <3>2 DEF Distinct
  <2>2. CASE Patch(r)
    <3>1. ASSUME NEW q \in posts'
          PROVE  \E p \in posts : /\ p.id = q.id
                                  /\ q = IF p \in Mine(r) THEN [p EXCEPT !.text = r] ELSE p
      BY <1>1, <2>2 DEF Patch, Mine, Posts
    <3>2. lastId' = lastId
      BY <2>2 DEF Patch
    <3>3. QED BY <1>1, <3>1, <3>2 DEF Distinct
  <2>3. CASE posts' \subseteq posts /\ lastId' = lastId
    BY <1>1, <2>3 DEF Distinct
  <2>4. QED BY <2>1, <2>2, <2>3 DEF Statement, Delete, InsertLike, DeleteLike
<1>3. QED BY <1>2 DEF Statement, DistinctInv

\* A total that was true stays one that was.
LEMMA TotalsStayTrue ==
  ASSUME past \subseteq past', CountsInv, NEW r \in Requests, Local(r),
         \A q \in Requests : TotalAt(q), TotalAt(r)'
  PROVE  /\ counts' = counts => CountsInv'
         /\ \A q \in Requests : TotalAt(q)'
<1>1. \A n, feed : WasTotal(n, feed) => WasTotal(n, feed)'
  BY DEF WasTotal
<1>2. counts' = counts => CountsInv'
  BY <1>1 DEF CountsInv
<1>3. ASSUME NEW q \in Requests, q # r
      PROVE  TotalAt(q)'
  <2>1. TotalAt(q) /\ pc'[q] = pc[q] /\ call'[q] = call[q] /\ got'[q] = got[q]
        /\ reply'[q] = reply[q]
    BY <1>3 DEF Local
  <2>2. QED BY <1>1, <2>1 DEF TotalAt, HasTotal, IsList, WasTotal
<1>4. QED BY <1>2, <1>3

LEMMA CountedTotal ==
  ASSUME IInv, NEW r \in Requests, pc[r] \in {"count", "keepCount"}, TotalAt(r),
         NEW n \in Nat, WasTotal(n, call[r].user), Counted(r, n), UNCHANGED <<call, past>>
  PROVE  TotalAt(r)'
<1>1. /\ IsList(r) /\ reply[r] = NoReply /\ NoReply # "SUCCESS"
      /\ got \in [Requests -> PageReads] /\ pc \in [Requests -> Places]
  BY DEF IInv, TypeOK, RequestsInv, CallAt, Codes
<1> USE DEF Continue, Go
<1>2. CASE got[r].page = call[r].page
  <2>1. pc'[r] # "keepCount" /\ got'[r].total = n /\ UNCHANGED <<call, past>>
    BY <1>1, <1>2 DEF Counted, PageReads
  <2>2. QED BY <2>1 DEF TotalAt, WasTotal
<1>3. CASE got[r].page # call[r].page
  <2>1. WasTotal(got[r].total, call[r].user)
    BY <1>1, <1>3 DEF TotalAt, HasTotal
  <2>2. pc'[r] # "keepCount" /\ got'[r].total = got[r].total /\ UNCHANGED <<call, past>>
    BY <1>1, <1>3 DEF Counted, PageReads
  <2>3. QED BY <2>1, <2>2 DEF TotalAt, WasTotal
<1>4. QED BY <1>2, <1>3

LEMMA CountTotal ==
  ASSUME IInv, TotalInv, NEW r \in Requests, Count(r) \/ KeepCount(r)
  PROVE  TotalAt(r)' /\ CountsInv'
<1>1. /\ IsList(r) /\ reply[r] = NoReply /\ NoReply # "SUCCESS" /\ call[r] \in Calls
      /\ ReadAt(r) /\ TotalAt(r) /\ pc[r] \in {"count", "keepCount"}
      /\ UNCHANGED <<call, past>>
  BY DEF IInv, RequestsInv, CallAt, Count, KeepCount, Codes, TotalInv
<1>2. /\ call[r].user \in Feeds /\ got[r] \in PageReads /\ posts \in past
      /\ got[r].page \in Pages /\ got[r].page \in Nat \ {0} /\ got[r].count \in Nat
      /\ got \in [Requests -> PageReads] /\ pc \in [Requests -> Places]
      /\ counts \in [Feeds -> [Pages -> SUBSET Nat]] /\ past \subseteq SUBSET Posts
  BY <1>1, CallsAreTyped DEF IInv, TypeOK, PageReads, CallType, Pages
<1>3. CASE KeepCount(r)
  <2>1. WasTotal(got[r].count, call[r].user)
    BY <1>1, <1>3 DEF TotalAt, KeepCount
  <2>2. TotalAt(r)'
    BY <1>1, <1>2, <1>3, <2>1, CountedTotal DEF KeepCount
  <2>3. \A f \in Feeds, n \in Pages : \A k \in counts'[f][n] : WasTotal(k, f)
    BY <1>2, <1>3, <2>1 DEF KeepCount, TotalInv, CountsInv
  <2>4. QED BY <1>1, <2>2, <2>3 DEF CountsInv, WasTotal
<1>4. CASE Count(r)
  <2>1. CountsInv'
    BY <1>1, <1>4 DEF TotalInv, Count, CountsInv, WasTotal
  <2>2. ASSUME NEW n \in Nat, WasTotal(n, call[r].user), Counted(r, n)
        PROVE  TotalAt(r)'
    BY <1>1, <2>2, CountedTotal
  <2>3. ASSUME NEW n \in counts[call[r].user][got[r].page], Counted(r, n)
        PROVE  TotalAt(r)'
    BY <1>2, <2>2, <2>3 DEF TotalInv, CountsInv
  <2>4. CASE /\ MayInfer(r, got[r].list)
             /\ Counted(r, Skip(got[r].page) + Cardinality(got[r].list))
    <3>1. PICK table \in past : got[r].list = Page(table, call[r].user, got[r].page)
      BY <1>1, <1>4 DEF ReadAt, HoldsList, WasPage, Count
    <3>2. IsFiniteSet(table) /\ table \in SUBSET Posts /\ Distinct(table)
      BY <1>2, <3>1 DEF IInv, PastInv, TotalInv, DistinctInv
    <3>3. Skip(got[r].page) + Cardinality(got[r].list)
            = Cardinality(InFeed(table, call[r].user))
      BY <1>2, <2>4, <3>1, <3>2, InferredTotal DEF MayInfer
    <3>4. Cardinality(InFeed(table, call[r].user)) \in Nat
      BY <3>2, FeedIsFinite, FS_CardinalityType
    <3>5. QED BY <2>1, <2>2, <2>4, <3>3, <3>4 DEF WasTotal
  <2>5. CASE /\ got' = [got EXCEPT ![r].count = Cardinality(InFeed(posts, call[r].user))]
             /\ Continue(r, "keepCount")
    <3>1. /\ got'[r].count = Cardinality(InFeed(posts, call[r].user))
          /\ got'[r].page = got[r].page /\ got'[r].total = got[r].total
          /\ UNCHANGED reply /\ pc'[r] = "keepCount" /\ pc[r] = "count"
      BY <1>2, <1>4, <2>5 DEF PageReads, Continue, Go, Count
    <3>2. WasTotal(got'[r].count, call[r].user)
      BY <1>2, <3>1 DEF WasTotal
    <3>3. HasTotal(r)' => HasTotal(r)
      BY <1>1, <3>1 DEF HasTotal
    <3>4. QED BY <1>1, <2>1, <3>1, <3>2, <3>3 DEF TotalAt, WasTotal
  <2>6. QED BY <1>4, <2>1, <2>3, <2>4, <2>5 DEF Count
<1>5. QED BY <1>3, <1>4

LEMMA TotalStep ==
  ASSUME IInv, TotalInv, NEW r \in Requests, NEW c \in Calls, Arrive(r, c) \/ Serve(r)
  PROVE  TotalInv'
<1>1. /\ Local(r) /\ reply[r] = NoReply /\ NoReply # "SUCCESS" /\ CallAt(r) /\ TotalAt(r)
      /\ got \in [Requests -> PageReads] /\ pc \in [Requests -> Places]
      /\ reply \in [Requests -> Codes \cup {NoReply}]
      /\ call \in [Requests -> CallType \cup {NoCall}]
  BY StepOfOne DEF IInv, TypeOK, RequestsInv, TotalInv, Codes
<1>2. DistinctInv' /\ past \subseteq past'
  <2>1. CASE pc[r] = "write" /\ Statement(r)
    BY <2>1, StatementKeepsDistinct DEF TotalInv, Statement
  <2>2. CASE Idle
    BY <2>2 DEF Idle, TotalInv, DistinctInv
  <2>3. QED BY <2>1, <2>2 DEF Arrive, Serve, Check, Write, Find, LikesOf, Fails, Lookup,
                              Select, Keep, Count, KeepCount, Idle
<1>3. CASE Count(r) \/ KeepCount(r)
  BY <1>1, <1>2, <1>3, CountTotal, TotalsStayTrue DEF TotalInv
<1>4. CASE ~(Count(r) \/ KeepCount(r))
  <2>1. counts' = counts
    BY <1>4 DEF Arrive, Serve, Check, Write, Find, LikesOf, Fails, Lookup, Select, Keep
  <2>2. TotalAt(r)'
    <3>1. CASE Arrive(r, c)
      <4>1. /\ call'[r] = c /\ got'[r].page = c.page /\ c # NoCall
            /\ pc'[r] = "done" => c.op = "patch"
            /\ pc'[r] # "done" => reply'[r] = NoReply
            /\ pc'[r] \in {"write", "check", "post", "lookup", "done"}
        BY <1>1, <3>1, CallsAreTyped DEF Arrive, Answer, Continue, Go, PageReads
      <4>2. QED BY <1>1, <4>1 DEF TotalAt, HasTotal, IsList, CallAt
    <3>2. CASE Check(r) \/ Write(r) \/ Find(r)
      <4>1. ~IsList(r) /\ UNCHANGED call
        BY <1>1, <3>2 DEF Check, Write, Find, CallAt, IsList
      <4>2. QED BY <4>1 DEF TotalAt, IsList
    <3>3. CASE Fails(r)
      <4>1. pc'[r] = "done" /\ reply'[r] # "SUCCESS"
        BY <1>1, <3>3 DEF Fails, Answer, Go
      <4>2. QED BY <4>1 DEF TotalAt, HasTotal
    <3>4. CASE LikesOf(r)
      <4>1. UNCHANGED <<call, got, past>> /\ pc[r] = "likes" /\ pc'[r] = "done"
        BY <1>1, <3>4 DEF LikesOf, Answer, Go
      <4>2. QED BY <1>1, <4>1 DEF TotalAt, HasTotal, IsList, WasTotal
    <3>5. CASE Lookup(r) \/ Select(r) \/ Keep(r)
      <4>1. /\ UNCHANGED <<call, past, reply>> /\ pc'[r] \in {"select", "keep", "count"}
            /\ got'[r].page = got[r].page /\ got'[r].total = got[r].total
            /\ pc[r] \in {"lookup", "select", "keep"}
        BY <1>1, <3>5 DEF Lookup, Select, Keep, Continue, Go, PageReads
      <4>2. QED BY <1>1, <4>1 DEF TotalAt, HasTotal, IsList, WasTotal
    <3>6. QED BY <1>4, <3>1, <3>2, <3>3, <3>4, <3>5 DEF Serve
  <2>3. QED BY <1>1, <1>2, <2>1, <2>2, TotalsStayTrue DEF TotalInv
<1>5. QED BY <1>3, <1>4

\* What was counted, cached or inferred was the number of posts at some moment.
THEOREM TotalsInductive == Spec => []TotalInv
<1>1. Init => TotalInv
  <2> SUFFICES ASSUME Init PROVE TotalInv
    OBVIOUS
  <2>1. DistinctInv
    BY DEF Init, DistinctInv, Distinct
  <2>2. CountsInv
    BY DEF Init, CountsInv
  <2>3. \A r \in Requests : TotalAt(r)
    BY DEF Init, TotalAt, IsList
  <2>4. QED BY <2>1, <2>2, <2>3 DEF TotalInv
<1>2. IInv /\ TotalInv /\ [Next]_vars => TotalInv'
  <2> SUFFICES ASSUME IInv, TotalInv, [Next]_vars PROVE TotalInv'
    OBVIOUS
  <2>1. ASSUME NEW r \in Requests, NEW c \in Calls, Arrive(r, c) \/ Serve(r)
        PROVE  TotalInv'
    BY <2>1, TotalStep
  <2>2. CASE UNCHANGED <<pc, call, got, posts, lastId, reply, past>>
             /\ \A f \in Feeds, n \in Pages : counts'[f][n] \subseteq counts[f][n]
    <3>1. DistinctInv' /\ CountsInv'
      BY <2>2 DEF TotalInv, DistinctInv, CountsInv, WasTotal
    <3>2. \A r \in Requests : TotalAt(r)'
      BY <2>2 DEF TotalInv, TotalAt, HasTotal, IsList, WasTotal
    <3>3. QED BY <3>1, <3>2 DEF TotalInv
  <2>3. ASSUME NEW f \in Feeds, NEW n \in Pages, Expire(f, n)
        PROVE  \A g \in Feeds, m \in Pages : counts'[g][m] \subseteq counts[g][m]
    BY <2>3 DEF Expire, IInv, TypeOK
  <2>4. CASE UNCHANGED vars
    BY <2>2, <2>4 DEF vars
  <2>5. QED BY <2>1, <2>2, <2>3, <2>4, ServeMeansCall DEF Next, Expire
<1>3. QED BY <1>1, <1>2, Inductive, PTL DEF Spec

LEMMA ShownTotal ==
  ASSUME IInv, TotalInv, NEW r \in Requests, Shown(r)
  PROVE  WasTotal(got[r].total, call[r].user)
<1>1. IsList(r)
  BY CallsAreTyped DEF IInv, RequestsInv, CallAt, Shown, IsList, Codes
<1>2. QED BY <1>1 DEF TotalInv, TotalAt, HasTotal, Shown

\* The total beside a page was the feed's number of posts at some moment, counted,
\* cached or inferred.
THEOREM TotalsWereTrue == Spec => []TotalWasTrue
<1>1. IInv /\ TotalInv => TotalWasTrue
  BY ShownTotal DEF TotalWasTrue, WasTotal
<1>2. QED BY <1>1, Inductive, TotalsInductive, PTL

\* However its pages are cached, expire or are read twice, a feed nobody writes to is
\* answered exactly: its total, and the page asked for or the last one.
THEOREM QuietFeedsAreExact == Spec => []QuietFeedIsExact
<1>1. IInv /\ TotalInv => QuietFeedIsExact
  <2> SUFFICES ASSUME IInv, TotalInv, NEW r \in Requests, Shown(r),
                      NEW rows, rows = InFeed(posts, call[r].user),
                      \A table \in past : InFeed(table, call[r].user) = rows
               PROVE  /\ got[r].total = Cardinality(rows)
                      /\ got[r].list = TruePage(posts, call[r].user,
                                          AdjustedPage(call[r].page, Cardinality(rows)))
    BY DEF QuietFeedIsExact
  <2>1. got[r].total = Cardinality(rows)
    BY ShownTotal DEF WasTotal
  <2>2. PICK table \in past :
          got[r].list = TruePage(table, call[r].user,
                                 AdjustedPage(call[r].page, Cardinality(rows)))
    BY <2>1, ShownPage
  <2>3. InFeed(table, call[r].user) = InFeed(posts, call[r].user)
    OBVIOUS
  <2>4. QED BY <2>1, <2>2, <2>3 DEF TruePage
<1>2. QED BY <1>1, Inductive, TotalsInductive, PTL

=============================================================================
