------------------------------ MODULE Pipeline ------------------------------
(***************************************************************************)
(* A request on its way through the application (src/src/app.module.ts):   *)
(* AuthGuard, CustomThrottlerGuard, the interceptor of Idempotency,        *)
(* the pipes and the parameter decorators, the handler, and on the way     *)
(* back EncryptPrimaryKeyInterceptor and the exception filters.            *)
(*                                                                         *)
(* The steps between the guards and the handler are those of Idempotency,  *)
(* whose variables this module shares; it adds what stands before and      *)
(* behind them: what the client sent, the authenticatedUser header that    *)
(* the guard hands on, and what the handler was called with.               *)
(***************************************************************************)
EXTENDS Idempotency

CONSTANTS
  Sends,     \* what clients may send
  Posts,
  AuthorOf,  \* the account that wrote each post
  RoleOf,    \* the role in the session row of each account
  OldIds,    \* ids a client has from elsewhere: a bookmark, or made up
  NoId,      \* no path parameter
  Clear,     \* the salt of an id that is not encrypted
  NoHandler, NoSend \* model values

-----------------------------------------------------------------------------
\* The routes, named after their handlers, and the decorators on them.

PostController     == {"getAllPosts", "getUserPosts", "getPost", "createPost",
                       "patchPost", "deletePost"}
PostLikeController == {"addPostLikeUser", "deletePostLikeUser"}
UserInfoController == {"createUserInfo", "getUserInfo", "updateUserInfo",
                       "deleteUserInfo"}
UserAuthController == {"join", "login", "refresh", "googleOauthLogin"}
Public             == UserAuthController \cup {"getHello"}
Routes == PostController \cup PostLikeController \cup UserInfoController \cup Public

SkipIdempotency == {"login", "refresh", "googleOauthLogin"}

\* getAllAndMerge(['roles']): no @Roles, no role.
Roles(route) ==
  CASE route \in PostController \cup PostLikeController -> {"USER"}
    [] route \in UserInfoController -> {"USER", "ADMIN"}
    [] OTHER -> {}

HttpMethod(route) ==
  CASE route \in {"getAllPosts", "getUserPosts", "getPost", "getUserInfo", "getHello"}
         -> "GET"
    [] route \in {"patchPost", "updateUserInfo"} -> "PATCH"
    [] route \in {"deletePost", "deletePostLikeUser", "deleteUserInfo"} -> "DELETE"
    [] OTHER -> "POST"

\* The path without its parameter: routes that share one differ by method.
Resource(route) ==
  CASE route \in {"getAllPosts", "createPost"} -> "posts"
    [] route \in {"getPost", "patchPost", "deletePost"} -> "posts/:postId"
    [] route \in PostLikeController -> "posts/:postId/likes"
    [] route \in UserInfoController -> "users/info"
    [] OTHER -> route

TakesPostId == {"getPost", "patchPost", "deletePost"} \cup PostLikeController
TakesUid    == {"getUserPosts"}
\* @AuthenticatedUserValidation
TakesUser   == {"createPost", "patchPost", "deletePost"}
                 \cup PostLikeController \cup UserInfoController

-----------------------------------------------------------------------------
\* Ids.  CryptoUtils draws a new salt each time it encrypts, so that one id has
\* many ciphertexts; here the salt is the request whose response carries it.

Id(kind, value, salt) == [kind |-> kind, value |-> value, salt |-> salt]
Encrypt(id, salt) == [id EXCEPT !.salt = salt]
Decrypts(id) == id # NoId /\ id.salt # Clear

\* The @EncryptField fields of a PostDto.
PostDto(p) ==
  [postId  |-> Id("post", p, Clear), postUid |-> Id("user", AuthorOf[p], Clear)]
EncryptObject(dto, salt) == [field \in DOMAIN dto |-> Encrypt(dto[field], salt)]

\* What a handler of PostController returns: a PostDto, a PaginationDto with
\* PostDtos in its data array, or a SuccessResponse.
Result(a) ==
  CASE a.route = "getPost"      -> [top |-> {PostDto(a.value)}, items |-> {}]
    [] a.route = "getUserPosts" ->
         [top |-> {}, items |-> {PostDto(p) : p \in {q \in Posts : AuthorOf[q] = a.value}}]
    [] a.route = "getAllPosts"  -> [top |-> {}, items |-> {PostDto(p) : p \in Posts}]
    [] OTHER -> [top |-> {}, items |-> {}]

EncryptResponseTop(result, salt) ==   \* mutant: arrays are left alone
  {EncryptObject(dto, salt) : dto \in result.top} \cup result.items
EncryptResponse(result, salt) ==
  {EncryptObject(dto, salt) : dto \in result.top \cup result.items}

-----------------------------------------------------------------------------
\* A request: its tokens stand for the account they were signed for (NoUser: no
\* token, or not one of ours); bodyOk: its body and query pass the validation.
Salts == Requests \cup {Clear}
Ids == OldIds \cup [kind : {"post"}, value : Posts, salt : Salts]
              \cup [kind : {"user"}, value : Users, salt : Salts]
SendType ==
  [route : Routes, id : Ids \cup {NoId},
   key : Keys \cup {NoKey, BadKey}, access : Users \cup {NoUser},
   refresh : Users \cup {NoUser}, bodyOk : BOOLEAN]

Handlers == [user : Users \cup {NoUser}, route : Routes,
             value : Posts \cup Users \cup {NoId}]

\* What the interceptor reads of a request.
CallOf(m, user) ==
  [user |-> user, key |-> m.key, method |-> HttpMethod(m.route),
   path |-> <<Resource(m.route), m.id>>, skip |-> m.route \in SkipIdempotency]

ASSUME SendsAssumption ==
  /\ Sends \subseteq SendType /\ NoSend \notin Sends
  /\ \A m \in Sends, u \in Users \cup {NoUser} : CallOf(m, u) \in Calls
  /\ \A id \in OldIds :
       \/ id.kind = "post" /\ id.value \in Posts
       \/ id.kind = "user" /\ id.value \in Users
  /\ AuthorOf \in [Posts -> Users]
  /\ NoId \notin Ids /\ Clear \notin Requests /\ 400 \in HttpStatuses
  /\ NoHandler \notin Handlers

VARIABLES
  stage,   \* where each request is: new, throttle, in (past the guards),
           \* refused by a guard, or dead
  sent,    \* what each client sent
  at,      \* the server it came to
  header,  \* request.headers['authenticatedUser'] after AuthGuard
  acted    \* what each handler was called with

pvars == <<stage, sent, at, header, acted>>

PInit ==
  /\ Init
  /\ stage  = [r \in Requests |-> "new"]
  /\ sent   = [r \in Requests |-> NoSend]
  /\ at     = [r \in Requests |-> NoServer]
  /\ header = [r \in Requests |-> NoUser]
  /\ acted  = [r \in Requests |-> NoHandler]

\* The ids in the response to r, if it has come.
ShownTo(r) ==
  IF acted[r] # NoHandler /\ pc[r] = "done" /\ reply[r].code = "SUCCESS"
  THEN UNION {{dto.postId, dto.postUid} :
                dto \in EncryptResponse(Result(acted[r]), r)}
  ELSE {}
KnownIds == OldIds \cup {NoId} \cup UNION {ShownTo(r) : r \in Requests}

\* The header that AuthGuard leaves: nothing of the client's (the guard deletes
\* it, and Node has put the names it received in lower case before), and the
\* account of the refresh token once both tokens are verified.
HeaderOfAccess(m) == IF m.route \in Public THEN NoUser ELSE m.access  \* mutant
HeaderAsText(m) == IF m.route \in Public THEN "undefined" ELSE m.refresh  \* mutant
HeaderOf(m) == IF m.route \in Public THEN NoUser ELSE m.refresh

\* A genuine token may be refused all the same: it has expired, has been
\* replaced, or its session row cannot be read.
AuthGuard(r, m, s) ==
  /\ stage[r] = "new" /\ up[s] # "down" /\ m.id \in KnownIds
  /\ sent' = [sent EXCEPT ![r] = m]
  /\ at' = [at EXCEPT ![r] = s]
  /\ \/ /\ m.route \in Public
        /\ stage' = [stage EXCEPT ![r] = "throttle"]
        /\ header' = [header EXCEPT ![r] = HeaderOf(m)]
     \/ /\ m.route \notin Public
        /\ stage' = [stage EXCEPT ![r] = "refused"]
        /\ UNCHANGED header
     \/ /\ m.route \notin Public /\ m.access # NoUser /\ m.refresh # NoUser
        /\ IF RoleOf[m.refresh] \in Roles(m.route)
           THEN /\ stage' = [stage EXCEPT ![r] = "throttle"]
                /\ header' = [header EXCEPT ![r] = HeaderOf(m)]
           ELSE stage' = [stage EXCEPT ![r] = "refused"] /\ UNCHANGED header
  /\ UNCHANGED <<acted, vars>>

\* CustomThrottlerGuard counts the hit in Redis and refuses, or fails with
\* Redis, or lets the request go on to the interceptor at once.  When it refuses
\* is the subject of Throttler.
ThrottlerGuard(r) ==
  /\ stage[r] = "throttle"
  /\ \/ stage' = [stage EXCEPT ![r] = "refused"] /\ UNCHANGED vars
     \/ /\ up[at[r]] = "up"
        /\ stage' = [stage EXCEPT ![r] = "in"]
        /\ Intercept(r, CallOf(sent[r], header[r]), at[r])
  /\ UNCHANGED <<sent, at, header, acted>>

-----------------------------------------------------------------------------
\* next.handle().

Exception   == [type |-> "BaseException", status |-> 0]
BadArgument == [type |-> "HttpException", status |-> 400]

\* With what the pipes and decorators of the parameters may refuse a request:
\* the path parameter does not decrypt (the validation pipe lets it through as it
\* is), or decrypts to what ParseIntPipe refuses; the body or query is not valid.
PipeRefusals(m, user) ==
  LET takesId == m.route \in TakesPostId \cup TakesUid IN
  {o \in {Exception} : \/ m.route \in TakesUser /\ user = NoUser
                       \/ takesId /\ ~Decrypts(m.id)}
  \cup {o \in {BadArgument} :
          \/ ~m.bodyOk
          \/ m.route \in TakesPostId /\ Decrypts(m.id) /\ m.id.kind # "post"}

Arguments(m, user) ==
  [user |-> user, route |-> m.route,
   value |-> IF m.id = NoId THEN NoId ELSE m.id.value]

RunHandler(r, o) ==
  LET refusals == PipeRefusals(sent[r], header[r]) IN
  /\ Handle(r, o) \/ HandleDirect(r, o)
  /\ \/ o \in refusals /\ UNCHANGED acted
     \/ /\ refusals = {}
        /\ acted' = [acted EXCEPT ![r] = Arguments(sent[r], header[r])]
  /\ UNCHANGED <<stage, sent, at, header>>

Interceptor(r) ==
  /\ \/ Get(r) \/ SetPending(r) \/ LookupFails(r) \/ LockReplyLost(r)
     \/ Save(r) \/ SaveFails(r) \/ Respond(r)
  /\ UNCHANGED pvars

InGuards(r, s) == at[r] = s /\ stage[r] = "throttle"

CrashAll(s) ==
  /\ Crash(s)
  /\ stage' = [r \in Requests |-> IF InGuards(r, s) THEN "dead" ELSE stage[r]]
  /\ UNCHANGED <<sent, at, header, acted>>

Operate(s) ==
  /\ \/ BeginShutdown(s)
     \/ Start(s)
     \/ Exit(s) /\ \A r \in Requests : ~InGuards(r, s)
  /\ UNCHANGED pvars

PNext ==
  \/ \E r \in Requests, m \in Sends, s \in Servers : AuthGuard(r, m, s)
  \/ \E r \in Requests : ThrottlerGuard(r)
  \/ \E r \in Requests, o \in Outcomes : RunHandler(r, o)
  \/ \E r \in Requests : Interceptor(r)
  \/ \E k \in Slots : Expire(k) /\ UNCHANGED pvars
  \/ \E s \in Servers : CrashAll(s) \/ Operate(s)

PSpec == PInit /\ [][PNext]_<<vars, pvars>>
=============================================================================
