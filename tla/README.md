# A TLA+ verification project for Personal-Blog-Service

The service (`src/`) is a NestJS backend for a personal blog: accounts and JWT
sessions, profiles, posts with likes, offset pagination, rate limits and
`Idempotency-Key` handling, over MySQL (TypeORM) and Redis (ioredis, and
TypeORM's query cache). This directory keeps TLA+ modules translated from that
source, TLC configurations that check them on small instances, and proofs that
TLAPS checks for every instance. Paths below are relative to the repository
root (`src/src/...` in the tables of `PROJECT.json`).

## 1. Inventory

| Component | State it keeps | Operations | Interacts with | What is hard, what makes it correct |
|---|---|---|---|---|
| Idempotency-Key (`src/interceptor/idempotency-key.interceptor.ts`, `src/idempotency`) | one Redis record per user and key: absent, pending, completed (TTL 24h) | GET, SET NX, handler, SET, replay | AuthGuard (user header), every write handler, exception filters, Redis | races of duplicates on several servers, crash or shutdown between lock and answer, lost replies, TTL under a slow handler. Once per life of a key; every answer of a key agrees; no lock for ever |
| Sessions (`src/user/service/jwt.service.ts`, `user-auth.service.ts`, `src/user/repository/user-auth.repository.ts`, `src/auth/auth.guard.ts`) | `USER_AUTH` row (password, refresh token), query-cache entry `UserSessionEntity_{uid}` (6h) | join, login, Google login, refresh, guarded access | MySQL, TypeORM Redis cache | check-then-insert, cache invalidated before the row is written, rotation without a row lock, failures between insert and token. One account per uid; a pass means the token in the row; a token is stored before it is handed out |
| Exception filters (`src/filter`) | none | exception to `FailureResponse` | interceptor replays the same mapping | live and replayed answer drift apart |
| Profiles (`src/user/service/user-info.service.ts`, `user-info.repository.ts`) | `USER_INFO` row, cache entry (24h) | create, read, patch, delete | sessions, posts and likes (foreign keys) | check-then-insert, cache removed before the write, an absence cached over a creation. One profile per user and nickname; what is cached and wrong needs an overlap or a fault |
| Posts (`src/blog/service/post.service.ts`, `post.repository.ts`) | `POST` rows, query-cache entries per feed and page | list, read one, create, patch, delete | likes, profiles, pagination | ownership by `WHERE`, silent zero-row updates, stale pages, delete against foreign keys |
| Likes (`src/blog/service/post-like.service.ts`, `post-like.repository.ts`) | `POST_LIKE` rows, cache entry per post | add, remove, list | posts, profiles | check-then-insert, cache removed before the write, a like without a profile |
| Rate limiting (`src/throttler`) | Redis counter and block key per tracker | increment script, guard | AuthGuard, Redis | TTL of 0 at the instant of expiry, block longer than the window, many servers, one script |
| Pagination (`src/utils/pagination.utils.ts`) | none | page bounds, offset, page count | posts | boundaries, total 0, page past the end |
| Request pipeline (`src/app.module.ts`, controllers, pipes, interceptors, decorators) | headers of a request | guards, interceptors, pipes, handler, filters in order | all | the order of guards and interceptor, which token names the account, what the pipes refuse. One write per account and key; nobody hears another's answer |
| Primary-key encryption (`src/utils/crypto.utils.ts`, pipe, interceptor) | none | encrypt on the way out, decrypt on the way in | controllers | salted ciphertexts, nested data: an id that was shown comes back as what it stood for |
| Health (`src/health`) | none | ping MySQL, Redis, heap | load balancer | pure I/O, not modelled |
| Config, migrations, logging, DTOs, Swagger | none | - | - | no behaviour of their own; foreign keys and unique keys of the migrations are used by the models that need them |

Comments, replies, the login-failure counter and the outbox are described in
`docs/` only; there is no code for them and so no model.

## 2. Plan

Each module is named after its component; `XProps` states what it is checked
for, `MCX` gives it small instances, `XProofs` holds its theorems.

1. `Idempotency` with its contract and proofs: the component whose concurrency
   is the most intricate. **Done.**
2. `Session`: accounts, tokens and the cached session row. **Done.**
3. `Throttler`: the increment script, the guard's tracker and headers, a clock in
   milliseconds. **Done.**
4. `Blog`: posts, likes, pages and their cache, pagination. **Done.**
5. `Profile`: the `USER_INFO` row, its unique nickname, the cached row and the
   cached absence of one. **Done.** It is not composed with `Blog`, to which a
   profile is something a read of likes finds or misses (`Nameless`).
6. `Pipeline`: the routes, guards, interceptors and pipes in the order of
   `app.module.ts`, on top of `Idempotency`; the role check, and the encryption of
   ids as a round trip. **Done.**

Every invariant and action property of the passing runs is also a theorem, for
every value of the constants. What stays with TLC alone: the two liveness
properties of `Idempotency` (TLAPS does neither fairness nor `ENABLED`), and the
three runs that show a property violated.

Abstract specifications: `IdempotencyContract`, which `Idempotency` implements;
`Idempotency`, of which every behaviour of `Pipeline` is one, so that `Pipeline`
implements the contract too; and `SessionContract`, one row per account that is
read and written in one step, which `Session` implements with or without overlap
and cache. `Blog`, `Profile` and `Throttler` have none: what they promise relates
an answer to some earlier table, and is stated as invariants over history.

## 3. Idempotency-Key

### Modules

| Module | Content |
|---|---|
| `Idempotency` | the interceptor, the Redis records, the filters' bodies, faults |
| `IdempotencyContract` | what a key promises to clients: owner, answer, replay, refusal |
| `IdempotencyProps` | invariants, action and liveness properties, the refinement mapping |
| `MCIdempotency` | calls, symmetry and model values for TLC |
| `IdempotencyProofs` | inductive invariant and safety theorems |
| `IdempotencyRefinement` | the theorem that `Idempotency` implements the contract |

### State and actions

A request is a process; `pc` is where it waits. An `await` of the interceptor
ends a step, so the steps of requests interleave as they do on the event loops
of several servers that share one Redis.

| TLA+ | Code |
|---|---|
| `Intercept` | the synchronous prefix of `intercept`: skip, safe method, no key, bad key, no user, else the GET is sent |
| `HandleDirect` | `next.handle()` of a bypassing request (R1) |
| `Get` | `IdempotencyService.get` and the branches on the record: conflict, R4, R3, miss |
| `SetPending` | the Lua `SET NX EX`; the loser is refused |
| `LookupFails`, `LockReplyLost` | the GET or the script is rejected; the script was applied and its reply lost |
| `Handle` | pipes, controller and service: a success, a `BaseException`, an `HttpException` or another error |
| `Save`, `SaveFails` | `setCompleted` / `setCompletedFailure`, and both `catchError(() => of(null))` |
| `Respond` | `of(body)` or the original error through the filters (`LiveBody`) |
| `Expire` | the TTL of a record |
| `Crash`, `BeginShutdown`, `Exit`, `Start` | a server dies; SIGTERM, on which `RedisModule.onModuleDestroy` quits the client before the HTTP server is closed; its last answer is sent; it starts again |

A body is its code, where its text comes from, and the handler run behind it:
the properties compare answers by these. A Redis key is `Slot(call)`, the pair
`buildKey` joins. `life`, `born` and `seen` are history: how often a key has
been forgotten, and in which of its lives a request took the lock or got a
replay. They guard nothing that the program does; `life` also bounds `Expire`.

### Runs

| Run | Instance | What it shows |
|---|---|---|
| `IdempotencyFaults` | 3 requests, 2 servers, 2 faults, 2 lives | `TypeOK`; answers are stored before they are sent (`AnsweredIsStored`); every pending record has a request at work on it (`PendingIsOwned`); `AtMostOncePerLife`, `ReplaysTheRunOfItsLife`, `CompletedIsFinal`, `ImplementsContract` |
| `IdempotencyLive` | 2 requests with and without a key, with a bad one and a GET, 1 fault, 3 lives, fairness | `EveryRequestEnds`, `LocksEnd` |
| `IdempotencyShutdown` (violation) | 2 requests, 1 shutdown | a drained server leaves a key pending that the documentation says is completed |

Bounds. Three requests are the winner, the loser and a later retry; two
endpoints on one key give the conflict; two lives let a key be reused after it
was forgotten. Two faults allow one to hit the holder of the lock and one to hit another request.
One `HttpException` status is enough because the mapping is by table;
`MapToErrorCode` falls back for the others. The theorems below drop all these
bounds.

`PromptHandlers` says whether a handler may run for longer than the 24 hours of
its lock. The properties that need it to be true are marked; the run `Pipeline`
shows what is left without it, with two users and with every way round the key
(`ReplayHasARun`, `EffectOncePerKey`).

Fairness (`FairSpec`): every step of a request that can be taken is eventually
taken (the event loop, a handler that ends, ioredis that answers or rejects),
and Redis expires keys. Nothing is assumed of clients, crashes and restarts.

### Findings

* `ShutdownStoresAnswers`: `src/redis/redis.module.ts:14` quits the client under
  requests in flight; `docs/solution/common/security.md:487` promises that their
  pending keys are completed.

### Proofs

The contract (`IdempotencyContract`) says that a slot has one owner per life, that
its answer is fixed once, that whoever else comes with the key hears that answer
or is refused, and that a refused request has no effect, neither before nor
after: its client may send it again.

`IInv` in `IdempotencyProofs` is the inductive invariant: the types; that a
request with `born # 0` holds a keyed call that does not bypass the interceptor
(`KeyedInv`); that what waits in `handle`, `save` or `respond` has been born,
with an outcome once it is past its handler (`WorkInv`); and that a slot without
a record has no request born in its present life, while a born request's life is
unique (`OwnedInv`). `AtMostOncePerLife` alone is not inductive: `SetPending`
needs to know that an absent record means that nobody was born in this life.
From `IInv`: `TypeCorrect`, `AtMostOnce`. With `AnswerInv` (each completed
record names its run and its code) follows `ReplaysAreReal`; with `PromptInv`
(a request at work was born in the present life) `ReplaysAgree` and
`CompletedStays`. `IdempotencyRefinement` maps the slots, runs and answers to
the contract and shows, action by action, that a step is a contract step or
stutters (`Implementation`). As long as nothing has failed, every server is up
(`UpInv`), and then a pending record is that of the request that took its lock
(`LocksAreHeld`, whatever the handler does and however long), and what a run
answers, or is about to answer, is the record of its life (`StoredInv`, hence
`AnswersAreStored`, if handlers are prompt). All for any number of requests,
servers, users, keys, statuses, faults and lives, from the named assumptions on
the constants.

Only model-checked: the two liveness properties.

### Left out

The body of a handler (a run has an outcome, its effects are its own matter), log
lines, `Retry-After`, `processedAt`, HTTP status. `JSON.parse` of a record is
taken to return what was stored. A rejected Redis command is one fault whatever
its cause; ioredis' offline queue is a command that waits.

## 4. Sessions

### Modules

| Module | Content |
|---|---|
| `Session` | accounts, tokens, the session row and its cache entry, faults |
| `SessionContract` | what accounts and sessions promise to clients, with one atomic row per account |
| `SessionProps` | invariants, and the refinement mapping to the contract |
| `MCSession` | operations and symmetry for TLC |
| `SessionProofs` | theorems that hold however requests overlap |
| `SessionSerialProofs` | theorems for requests of a user that do not overlap, or without the cache, and that `Session` implements the contract |

### State and actions

`db` is `USER_AUTH`: per user a password and a refresh token. `cache` is the
entry `UserSessionEntity_{uid}`. A token pair is named by the request that made
it, because the encrypted subject is salted and no two pairs are equal. `uid`,
`phase` and `got` are the locals of a request: the user it acts for, which of
its two tokens it verifies, and what it read on its way to the cache.
`current` and `stored` are history.

| TLA+ | Code |
|---|---|
| `Arrive` | controllers and guard up to the first `await`; a token `jwt.verify` refuses ends here |
| `IsExist`, `Insert` | `createNewUser`, and the first branch of `googleOauthLogin` |
| `Find` | `getUserAuthEntity`, and the comparison of the password of `login` |
| `CacheGet`, `Read`, `ReadFails`, `CacheSet` | `getUserSessionEntityByUid` through TypeORM's cache: GET, SELECT, SET, and its `catch` |
| `Verify` (in these) | `verifyAccessToken`, `verifyRefreshToken`, the guard, `refresh` |
| `Remove`, `RemoveFails`, `Update`, `UpdateFails` | `updateUserAuthByUserSessionEntity` |
| `Respond` | `JwtService.create` returns and the cookies are set |
| `StatementFails`, `Expire`, `Crash` | a rejected query, possibly applied; the 6 hours of an entry; the server dies |

The order of `Remove` and `Update`, and the gap between `Read` and `CacheSet`,
are the heart of the module. The repository's tests run with `NODE_ENV=test`,
where `typeOrmConfig` has no cache: `CacheEnabled` is a parameter for that
reason. `Overlap` says whether requests that touch one user may overlap; the
code does nothing to prevent it, and setting it to false separates what goes
wrong by interleaving from what would go wrong in any case.

### Runs

| Run | Instance | What it shows |
|---|---|---|
| `SessionRace` | 4 requests, 2 users, 1 fault, all operations, overlapping | `TypeOK`; the account belongs to the client that joined (`JoinedAccountIsMine`); the cache is never ahead of the row (`CacheHoldsOnlyStored`); rotations at once leave one client in the session (`SomebodyHoldsTheSession`); tokens are stored by a request entitled to it before they are sent, and the rest of the contract with its two switches off (`ImplementsSessionContract`) |
| `SessionSerial` | 5 requests, 1 user, 1 fault, no overlap | the cache equals the row (`CacheIsCurrent`), `OldTokenDies`, `NewTokenWorks`, and `ImplementsSessionContract` with its two switches on |
| `SessionOldToken` (violation) | 4 requests, 1 user, no fault, overlapping | a replaced refresh token is accepted |
| `SessionJoinFails` (violation) | 2 requests, 1 fault | a join that is refused at its second statement leaves an account |

Bounds. Four requests are an account, a rotation, and two that read around it;
five without overlap let a fault, a rotation and both uses of a token follow
each other. Two users show that entries and rows are not mixed up. One fault is
enough because a failed request ends: a second one would need another request
to hit. One password is enough because every account of a
race is told from the others by `Social`. No fairness is assumed: all the
properties are safety.

### Findings

* `OldTokenDies` under `Overlap`: `src/user/repository/user-auth.repository.ts:78`
  removes the entry before the `UPDATE`, so a reader in between caches the old
  token for six hours; `docs/problem/use-cases.md:161` says it is void at once.
* `FailedJoinLeavesNoAccount`: `src/user/service/user-auth.service.ts:57` rotates
  the tokens after the `INSERT`, without a transaction: the `INSERT` is acknowledged,
  the `UPDATE` (`src/user/repository/user-auth.repository.ts:82`) fails, and the join
  is refused with its row left behind. `docs/problem/use-cases.md:61` says that
  nothing is left of a failed join. The property is about that step alone; an
  `INSERT` that is applied with its answer lost leaves a row too.

Seen while modelling, without a run: by the same stale entry the token just
handed out may be refused (`NewTokenWorks` fails under `Overlap`); two refreshes
with one token both rotate, and the first client's pair is dead; the loser of a
race of two joins is told `COMMON_INTERNAL_ERROR`.

### Proofs

`IInv` of `SessionProofs`: the types; which call, user and phase belong to each
place of `pc` (`CalledInv`, `PlaceInv`); that what waits in `respond` is stored,
and so is what was answered (`StoredInv`). It gives `TypeCorrect` and
`TokensStored`. `JoinedInv` adds that behind a join
on its way to its rotation, or answered with tokens, is a row with that join's
password (`JoinersOwnTheirAccount`). `ThroughInv` follows a token along its way
from row to request to entry (`RowInv`, `GotInv`, `EntryInv`): in each of the
three it is one that was stored for that user (`CacheNeverAhead`). `HeldInv` says
that without faults the token of a row is with its client, or about to be sent,
or a request that will not turn back is on its way to replace it: when all of
them are done, only the first is left (`SomebodyStaysIn`).

`SerialInv` of `SessionSerialProofs` holds if `~Overlap` or `~CacheEnabled`. Without
overlap, the requests in flight touch different users (`ApartInv`), so that
a reader about to fill the cache holds the row and a writer about to change the
row has emptied the entry (`CarriedInv`). In both cases a token that was not in
the row when its request came never returns to it (`GoneInv`).
From it: `CacheStaysCurrent` (`~Overlap`), `ReplacedTokensDie` and
`StoredTokensWork`. Together with the run `SessionOldToken` they say exactly
what the promise needs: no overlap, or no cache.

`SessionContract` knows no cache, no process and no `await`. An account is created
once (`Create`) and keeps its password; a token is stored by `Rotate`, one step of a
request that may do so (`MayRotate`), and handed out later (`Hand`); a request is
refused only for a reason that the row gives at that moment, or for a failure that
answers for that refusal alone (`Refuse`). Two switches say how much of it depends
on what happens around the row: `Fresh`, that a presented token is compared with
the row, and `Serial`, that a refresh compares and swaps in one step. The mapping
sets `Fresh` to `~Overlap \/ ~CacheEnabled` and `Serial` to `~Overlap`, and takes
`issued` from `stored` and the accounts tokens belong to. `SessionsAsPromised`
proves it without a hypothesis on either: the code keeps the contract in all four
cases, with the switches that the case deserves. It needs `IInv`, `JoinedInv`,
`SerialInv`, and two more invariants: what a request has checked on its way to the
write still holds when it writes (`CheckedInv`; a password because none is ever
changed, a row because none is ever deleted), and without overlap the token a
refresh was compared with is still in the row (`SwapInv`). There is a lemma for each
action of the contract (`InsertRefines`, `UpdateRefines`, `VerifyRefines`, ...).

Only model-checked: the two violations.

### Left out

Verification of the Google credential, hashing, cookie attributes, the role
check (module `Pipeline`), and the separate code of a missing cookie (it is a `BadToken`). A
rejection of the removal that `getUserSessionEntityByUid` does not await is not
followed to the process.

## 5. Rate limiting

### Modules

| Module | Content |
|---|---|
| `Throttler` | the increment script, the guard's answer, Redis' clock |
| `ThrottlerProps` | invariant, bound on bursts, what the headers promise |
| `MCThrottler` | callers for TLC |
| `ThrottlerProofs` | theorems |

### State and actions

`now` is Redis' clock in milliseconds. `counter` and `block` are the two keys of
a tracker with their ends; a key lives through the millisecond of its end, in
which `PTTL` is 0 and `INCR` still finds it, and `Tick` drops it after that.
`answer` is what the tracker was last told, as instants rather than durations.
`passed` is history: who was let through when, in the last window's length. A caller has a verified uid, an address, and the
`authenticatedUser` header it sends; `Tracker` is
`CustomThrottlerGuard.getTracker` after `AuthGuard`, which runs before it,
has removed that header and set its own.

| TLA+ | Code |
|---|---|
| `Eval` | the Lua script: block, `INCR`, `PEXPIRE`, block over the limit; atomic in Redis |
| `Reply`, `FromNow` | the result of the script and the headers the guard makes of it, rounded up to seconds |
| `Request` | the guards of a request, in order |
| `LoseAnswer` | the script ran and its answer was lost (a 500, or sent again by ioredis) |
| `Tick` | a millisecond |

### Runs

| Run | Instance | What it shows |
|---|---|---|
| `Throttler` | 4 callers (one user at two addresses, anonymous clients, one with a forged header), limit 2, window 3 ms, a second of 2 ms, 8 ms, 5 requests | `TypeOK`; a client gets at most 2*Limit - 1 requests through in one window's length (`BurstBound`); the headers are kept (`HeadersAreKept`, `RetryAfterIsEnough`) |

Bounds. Five requests are two full windows and one more; 8 ms hold two windows,
a block and what follows it. A second of 2 ms does not divide the window of 3,
so rounding matters. The script is one step, so more requests of a tracker at
once add nothing. Nothing needs fairness.

### Difference between code and comment

Seen while modelling, without a run: `src/throttler/redis-throttler.storage.ts:49`
renews the window when `PTTL <= 0`, which is also the case in the last
millisecond of a key that still counts. Two windows are then counted together,
and a client within the limit is blocked, against the fixed window of the comment
at line 20. `BurstBound` and the header properties hold all the same.

### Proofs

`KeysInv` (a key is there until its end, a counter ends before the block beside
it) and `AnswerInv` (what was last answered still bounds the keys) are inductive
with the types. `RoundsUp` shows that rounding never names an earlier instant.
Hence `WaitingIsEnough` (who waits for Retry-After is let through),
`PromisesKept` (the remaining requests and the reset of the headers) and
`TypeCorrect`, for every limit, window, second and set of callers.

`BurstBound` needs to know when the counter of a tracker began, which its key does
not tell: the renewal at `PTTL` 0 gives it a new end and keeps its hits.
`BurstInv` says that there is such an instant (`BeganAt`): what passed from then on
is at most the hits and at most the limit, what passed after it is one less, and
what is left from before is less than the limit. When the key goes, the window
has moved past its first request, so less than the limit is left again
(`TickBurst`); two such parts make `2*Limit - 1` (`BurstsAreBounded`).

Nothing is only model-checked.

### Left out

One endpoint only (the key holds the endpoint; endpoints do not interact). A
Redis that restarts and loses keys lets requests through and is not modelled.
The mapping of 429 to a body is that of the filters.

## 6. Blog

### Modules

| Module | Content |
|---|---|
| `Blog` | posts, likes, pages, their query cache, failing statements |
| `BlogProps` | invariants and the action property |
| `MCBlog` | operations and symmetry for TLC |
| `BlogProofs` | theorems |

### State and actions

`posts` is `POST`, `likes` is `POST_LIKE`, `lastId` the auto-increment. `lists`
and `counts` are the two query-cache entries of a feed (all posts, or those of a
user) and a page: a set with at most one element. `got` is what a request has
read so far. A text is named by the request that wrote it. `past` is history:
every content `POST` has had.

| TLA+ | Code |
|---|---|
| `Arrive` | controllers and pipes up to the first statement; an empty patch ends here |
| `Check` | `isExist` of `addPostLikeUser` and `removePostLikeUser` |
| `Create`, `Patch`, `Delete`, `InsertLike`, `DeleteLike` (in `Write`) | the statement, with its `WHERE` and the keys of the migrations; `Refused` is what they refuse |
| `Lookup`, `Select`, `Keep` | the list of `findAndCount`: GET, SELECT, SET |
| `Count`, `KeepCount` | its number of rows: inferred from the list, from the cache, or counted |
| `Counted` | `getPostPageListByPage`, `getPostPageListByPostUid`: past the last page, that one is read instead |
| `Find` | `getPostByPostId` |
| `LikesOf` | `getPostLikeMapByPostIds` and `getNicknameList`: the profiles of those who like what is shown |
| `Fails`, `Expire` | a rejected statement, possibly applied; the TTL of an entry |

That TypeORM infers the number of rows from a list that is not full depends on
its version and options, so `Count` may do either. A miss, a failing GET and
no cache at all are one alternative of `Lookup`. A request makes at most one
write, so a crash before or after it is a request that takes no further step,
which `Spec` allows at every point. `Nameless` are the users whose profile a read
of likes may miss: they have none, or have created or deleted it in the
meantime, or an absence of it is cached (all in module `Profile`).

### Runs

| Run | Instance | What it shows |
|---|---|---|
| `BlogWrites` | 4 requests, 2 users, 1 post that may become 2, 1 fault | `TypeOK`; `LikesHavePosts`; the likes are what the answers said (`LikesMatchAnswers`); a post is hidden only by a like of that post (`HiddenByALike`); `OnlyTheOwnerWrites` |
| `BlogPages` | 3 requests (at most 2 lists, of page 1 or 3), 2 users, 2 posts that may become 3, 2 per page, 3 pages | what is shown for a page was that page, or the last one by the total beside it, at some moment, and is numbered so (`PageWasTrue`); so was the total (`TotalWasTrue`); a feed nobody wrote to is answered exactly (`QuietFeedIsExact`) |

Bounds. Four requests are like, like, unlike and the deletion of the post,
whatever their order. Three posts at two per page are a full page, one that is
not full, and a page past the end; page 3 always is, so that page 1 or 2 is read
instead, and clients ask for 1 and 3 (`Asked`). Two lists are one that fills the
cache and one that reads it, with a write in between. `BlogPages` has no faults because a
failed read answers no page. Requests are symmetric, and in `BlogPages` users too;
in `BlogWrites` one of the two is `Nameless`. Nothing needs fairness.

`PageWasTrue` compares with `TruePage`, which counts posts to pages from the
newest on, where the code computes an offset.

### Differences between code and documentation

Seen while modelling, without a run: a post with a like cannot be deleted
(`ON DELETE NO ACTION` in `src/migrations/1777453897802-InitialSchema.ts:26`; the
cascade of `src/blog/entities/post.entity.ts:51` is on the side without the key),
though INV-9 (`docs/problem/domain-spec.md:22`) says that its likes go with it;
the loser of a race of two likes is told `COMMON_INTERNAL_ERROR`, where INV-8
names `PostLikeAlreadyExistsException`; hits are never incremented (INV-7); the
patch or the deletion of another user's post changes nothing and is answered
with success; `docs/problem/use-cases.md:269` describes the offset as
`skip=page×20`, where `PaginationUtils.getSkip`, with its tests and `PageQueryDto`,
counts pages from 1: `(page - 1) * 20`. A page turned to by a cached total may be empty, because list and
total are entries of their own.

### Proofs

`IInv`: the types; every content of `POST` was finite (`PastInv`);
`LikesHavePosts`; a cached list was the page of its feed at some moment
(`CachedInv`); and per request, that its place fits its call, that a list it
holds was such a page, and that the page it read last is the one asked for or,
when that is past the end, the last page of the total it answers (`RequestsInv`). `LikesHavePosts` is inductive because
both statements look at the other table. `WindowIsPage` and `PageIsTruePage`
prove, with the theorems on finite sets, that the offset window is the page,
which links `CachedInv` to `PageWasTrue` (`ShownPage`). From `IInv`: `TypeCorrect`,
`LikesKeepPosts`, `ShownPagesWereTrue`, `OwnersWrite`, for any number of
requests, users, posts, pages and faults.

Three invariants beside it. `MatchInv` counts, per post and user, the accepted
likes against the unlikes that may have reached the table and the like that is
there now (`LikesAreOnce`). `HiddenInv` keeps, for each like in the table, the
request it came from, and for each read that failed the like it failed for
(`LikesHide`). `TotalInv` follows a total from where it was counted or inferred
to the answer (`TotalsWereTrue`); an inferred one is the offset and the rows of a
list that is not full, which is the size of the feed because the rank of a post is
a bijection from the feed to `1..n` (`RanksNumberTheRows`), given that ids are unique
(`DistinctInv`). `QuietFeedsAreExact` follows from the two: if the feed was the same in
every table there has been, some moment is any moment.

Nothing is only model-checked.

### Left out

The nicknames themselves and the likes inside a reply, titles and dates, the
encryption of ids (module `Pipeline`), and the cached list of
`findPostLikeEntityList`, which nothing reads.

## 7. Profiles

### Modules

| Module | Content |
|---|---|
| `Profile` | the `USER_INFO` row, its cache entry, failing commands and crashes |
| `ProfileProps` | invariants and the action property |
| `MCProfile` | symmetry for TLC |
| `ProfileProofs` | theorems |

### State and actions

`db` is `USER_INFO` and `cache` the entry `UserInfoEntity_{uid}`. TypeORM caches
the result of a query, also an empty one: an entry is a row or `Absent`.
`got` is the result a read is carrying. `overlapped` is history: the users two
of whose requests were under way at once. A profile exists for users that have an
account, which is never deleted, so the foreign key to `USER_AUTH` always holds.

| TLA+ | Code |
|---|---|
| `IsExist` | the check of `createUserInfo`, `updateUserInfo`, `deleteUserInfoByUid` |
| `Remove` | `removeUserInfoCache` before the write |
| `Insert`, `Update`, `Delete` (in `Write`) | the statement; `Refused` is what the two unique keys refuse |
| `CacheGet`, `Read`, `CacheSet` | `findOneOrFail` through the query cache: GET, SELECT, SET |
| `Drop` | the `catch` of `findUserInfoEntity`: the removal, then the error |
| `Breaks`, `Expire` | a rejected command or a dead server, the command possibly executed; the TTL |

### Run

`Profile`: 4 requests, 2 users, 2 nicknames, 1 fault. It shows that what clients
were told of their profiles is in the table (`ProfilesMatchAnswers`), that
without a fault a cached absence has a reader under way that takes it back
(`AbsenceIsTransient`), and that reads show the row unless requests for that
profile overlapped (`ReadShowsTheRow`).

Bounds. Four requests are a creation, a change and two reads around them, or a
read, a creation, a fault and a read. Two users with two nicknames give
both the duplicate of a key and that of a nickname. `Init` begins with or without
profiles, so no request is spent on creating them. No fairness is needed.

The last property has its exception in its text: after a fault an absence may stay
cached, and `createUserInfo` removes no entry, so that a profile that was just
created can be answered with `USER_INFO_NOT_FOUND` for up to 24 hours. With
overlap a read may show an old profile, or a deleted one, for the same time.
No text of the repository promises otherwise, so there is no run for it. A duplicate
nickname is answered with `COMMON_INTERNAL_ERROR`.

### Proofs

`IInv`: the types; that the place of a request fits its call (`PlaceInv`); that two
requests of one user under way have overlapped (`ApartInv`);
`AbsenceIsTransient`; and that, for a user without overlap, entry and reader hold
the row and a writer has emptied the entry (`FreshInv`). `FreshInv` needs
`AbsenceIsTransient` for the insert: an absence cached without a fault means that
another request, the reader that will drop it, is under way, which is an overlap.
From `IInv`: `TypeCorrect`, `AbsencePasses`, `ReadsShowTheRow`, for any number
of requests, users, nicknames and faults. `MatchInv` counts the accepted creations
of a user against the deletions that may have reached the table and the row that
is there, and follows the text of that row (`ProfilesAreAsAnswered`); counting
needs `FiniteAssumption`, that the requests are finitely many.

Nothing is only model-checked.

### Left out

The introduction of a profile and its dates, collation of nicknames, and the
validation of the body.

## 8. Request pipeline and encryption of ids

### Modules

| Module | Content |
|---|---|
| `Pipeline` | routes and decorators, guards, pipes, handlers, ids; it EXTENDS `Idempotency` |
| `PipelineProps` | invariants in terms of what clients send and hear |
| `MCPipeline` | what clients send, for TLC |
| `PipelineProofs` | that it refines `Idempotency`, and its theorems |

### State and actions

`Idempotency` begins where a request reaches the interceptor, with a user, a key,
a method and a path. `Pipeline` says where these come from. `sent` is what a client
sends: a route, an id in its path, a key, and two tokens, each of which stands
for the account it was signed for. `stage` is where it is before the interceptor
takes it (`Idempotency`'s `pc` goes on from there), `header` is the
`authenticatedUser` header behind the guard, and `acted` what a handler was called
with. An id is a kind, a value and a salt; the salt of a ciphertext is the request
whose response carries it, `Clear` is no encryption.

| TLA+ | Code |
|---|---|
| `Routes`, `HttpMethod`, `Resource`, `Roles`, `SkipIdempotency`, `TakesPostId`, ... | the controllers and their decorators |
| `AuthGuard`, `HeaderOf` | the guard: deletes the header, `@Public`, two tokens, the role, and sets the header from the refresh token |
| `ThrottlerGuard` | lets a request through to `Intercept`, or refuses it (`Throttler` says when) |
| `RunHandler`, `PipeRefusals`, `Arguments` | `next.handle()`: decryption, validation and `ParseIntPipe`, the parameter decorator, the call of the handler |
| `Interceptor`, `Operate`, `CrashAll` | the steps of `Idempotency`; a server that is shut down waits for its requests, one that dies takes those in its guards along |
| `EncryptResponse`, `ShownTo` | `EncryptPrimaryKeyInterceptor`: the object, and the objects in its arrays |

A client sends only ids that it has: from a response that has come, a bookmark, or
none (`KnownIds`).

### Run

`Pipeline`: 3 requests, 1 server, 2 accounts with different roles and a client without one,
1 post, 1 key, 1 fault, 2 lives, handlers that may outlive their lock. It shows
that an account's writes with a key are done once while the key is remembered,
on whatever routes (`EffectOncePerKey`); that what a handler answered one client
reaches another one only as the replay of the same request of the same account
(`AnswersAreMine`); that who hears SUCCESS has had a handler called for its
account, its route and its post (`SuccessWasDone`); that an id out of a response is
never refused as undecryptable and comes back as what it stood for (`ShownIdsComeBack`);
and `ReplayHasARun` for the calls that routes really make.

Bounds. Three requests are a read that shows an id, and a write with that id and
its retry, or a write, its retry and one by another account, or in another life
of the key. One server is enough: `Pipeline` adds nothing that servers share, and
`IdempotencyFaults` has two. `MCSends` holds the same key on two resources, on a
public route, on a read, a key that is refused, a body that is refused, a role
that is refused, and one request whose two tokens are of two accounts. Requests
are symmetric. All properties are safety, so no fairness is stated.

### Differences between code and documentation, and what clients may meet

Seen while modelling, without a run:

* The replay of an unhandled error says 'Internal server error'
  (`src/interceptor/idempotency-key.interceptor.ts:236`) where the first answer said
  'Internal Server Error!' (`src/filter/unhandled-exception.filter.ts:29`).
* A post that is read again has another ciphertext, and paths are compared as text
  (`src/interceptor/idempotency-key.interceptor.ts:120`): a retry with the newer id
  and the same key is refused as a conflict. Bodies are not compared at all.
* Validation runs inside `next.handle()`: a body that is refused is the answer of its
  key for 24 hours.
* A role that is refused is answered with `COMMON_INTERNAL_ERROR`, because 403 is not
  in the table of the filter. A route without `@Roles` would be refused to
  everybody: `getAllAndMerge` returns an empty array, never undefined, and
  `?? true` (`src/auth/auth.guard.ts:71`) does not apply. Every controller has
  `@Roles` or `@Public` today.
* What `AuthGuard` refuses is not counted by the throttler, which runs behind it.

### Proofs

`PInv`: the types; that the header is that of the refresh token, and that the
interceptor has the call the route makes of the request (`GuardInv`); that a
handler was called with what its request asks for, or the pipes refused it
(`HandlerInv`); and that a handler of a keyed write was called under a lock
(`KeyInv`). With it every step is a step of `Idempotency` or leaves it alone
(`Composition`), so `IInv` of `IdempotencyProofs` holds here, and with it
`AtMostOncePerLife` and `ReplayHasARun` (`PReplaysAreReal`), and, if handlers end
within the TTL, the contract of the interceptor (`PImplementation`): a retry that
is refused as a conflict, because it took a newer ciphertext of the same id, has
changed nothing and may be sent again. `EffectOnce` follows by `GuardInv`. `RepliesInductive` adds that an answer is a refusal of the interceptor,
what the request's own handler did, or a replay of a run of the same call
(`ReplyInv`), and gives `AnswersStayMine` and `SuccessIsDone`. `IdsComeBack` follows
from `HandlerInv`. All for any routes clients may use, any posts, accounts,
servers, crashes and Redis failures.

Nothing is only model-checked.

### Left out

The cipher and the signature of tokens (a token stands for an account, and may be
refused all the same, as `Session` says when); the fields of bodies; CORS; the
`uid` in a `UserInfoDto`, which is the reader's own and is not encrypted.

## 9. Not modelled

* Health checks (`src/health`): three pings, no state, no effect on the rest.
* Configuration, logging, DTOs and Swagger have no behaviour of their own. The keys
  of the migrations are in the models of their tables (`Refused`, `Unique`).
* Two hazards have no property, with the reason in `PROJECT.json`: the removal in the
  `catch` of `getUserSessionEntityByUid` that nobody awaits, whose rejection would end
  the process, which the model has as `Crash`; and that a liked post cannot be
  deleted, which is so in the model (`Refused`) and differs from INV-9 (section 6).
