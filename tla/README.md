# Verification of the local-life service platform

TLA+ models of `local-life-service-platform`, a Spring Boot application for shops, vouchers,
blogs and an AI assistant. The models follow the Java and Lua sources under `src/`; a
definition's comment and the `map` of `PROJECT.json` name the lines it stands for. TLC checks
small instances, TLAPS proves the main safety results for every value of the constants.

`J/` below is `src/src/main/java/com/llsp/`, `R/` is `src/src/main/resources/`.

## 1. Inventory

The application is stateless apart from four stores: MySQL (rows, transactions), Redis
(counters, sets, caches, locks), RabbitMQ (queues with manual retry routing) and one Caffeine
cache per instance. Several instances may run side by side. Components interact through these
stores only; direct calls are synchronous service calls within a request, a listener or a job.

| component (source) | state it keeps | operations | interacts with | what makes it correct |
|---|---|---|---|---|
| Seckill admission (`VoucherOrderServiceImpl.seckillVoucher`, `seckill.lua`) | Redis `seckill:stock:{id}`, `seckill:order:{id}` | read voucher, warm the key, script, publish | outbox, id generator, rate limiter | admits at most the stock, a user at most once |
| Regular purchase (`buyRegularVoucher`) | `tb_voucher_order` | check, insert | shares table and unique index with seckill | one order per user |
| Order transaction (`createVoucherOrder`) | `tb_seckill_voucher.stock`, `tb_voucher_order` | count, conditional update, insert | called by listener and job | stock and orders always add up |
| Consumer (`SeckillListener`, `DeadLetterConfig`, `DeadLetterListener`) | `seckill.queue`, three retry queues, `seckill.dlx.queue`, Redisson `lock:order:{user}` | consume, lock, transaction, retry, dead-letter, ack | broker, transaction | no order is dropped silently |
| Reconciliation (`StockReconciliationJob`, `ReconciliationServiceImpl`) | none of its own | give ghosts an order, correct the Redis stock | all of the above | Redis and MySQL agree in the end |
| Voucher publishing (`VoucherServiceImpl`) | voucher rows, stock key | `addSeckillVoucher` | admission | key and row appear together |
| Outbox (`OutboxRelayService`, `OutboxMessageMapper`, `MqConfig`) | `tb_outbox_message` | store and publish, confirm, relay with backoff, give up | broker, listener | every row is settled, publishing is bounded |
| Shop cache (`CacheClient`, `ShopServiceImpl`, executor, Caffeine) | `cache:shop:{id}`, `lock:shop:{id}`, local cache | read with logical expiry, rebuild, fill under a mutex, invalidate | MySQL, bloom filter | nothing uncommitted is cached; an old entry is replaced; one thread works on an entry |
| Bloom filter (`BloomFilterConfig`, `BloomFilterHelper`) | Redisson filter | start-up rebuild, add, test | shop cache | no false negative |
| `SimpleRedisLock`, `unlock.lua` | `lock:{name}` | tryLock, unLock | no caller | only the owner releases |
| Rate limiter (`RateLimitAspect`) | two token buckets per key | acquire global, then per user | admission | a refused user costs nobody else a token |
| Id generator (`RedisIdWorker`) | `icr:{prefix}:{date}` | `nextId` | all orders | ids are unique |
| Blogs, likes, feed (`BlogServiceImpl`) | `tb_blog.liked`, `blog:liked:{id}`, feeds | like, publish, delete, scroll | follow, feed page | the counter is the number of likers; nothing is skipped or shown twice |
| Follow (`FollowServiceImpl`) | `tb_follow`, `follows:{user}` | follow, unfollow, common follows | feed | both stores hold the same set |
| Shop types (`ShopTypeServiceImpl`) | a list in Redis without a time to live | query, fill | | the list holds each type equally often |
| Comments | rows | insert, delete, count | | single statements, nothing that could disagree |
| Users (`UserServiceImpl`, `UserController`, interceptors, `UserHolder`) | codes, token maps, the thread's user, sign-in bitmaps | login, refresh, logout, sign, count | page's token | a handler sees its own user; a logout is final; the streak is counted right |
| Front end (`common.js`, `index.html`) | token, cursor and list of the followed blogs | attach the token, scroll, convert prices | all endpoints | the list has no gap; a price survives the conversion |
| AI chat (`AIChatController`, `MysqlChatMemory`, `MysqlChatHistoryRepository`) | sessions, messages | stream, limit, delete | language model | a session's messages live and die with it |
| AI tools, uploads, filters, controllers, DTOs | none shared | | | not a subject of these models |

Hard behaviours: requests, consumers and the job interleave on four stores without a common
transaction; an instance may die between any two steps; messages are lost, duplicated, delayed
and retried; a lock may be lost by a live holder; batches and snapshots are used after the
stores have moved on. The `hazards` of `PROJECT.json` list them line by line.

## 2. Plan

Order of work, the most important behaviour first.

1. **SeckillOrder** (done): admission, consumers, retry ladder, transaction, job, regular
   purchase, faults. **VoucherSale** (done): what the database promises; `SeckillOrder`
   refines it.
2. **OutboxRelay** (done): outbox row, confirm callback, relay, listener's view of a copy.
3. **SeckillOrderProofs**, **OutboxRelayProofs** (done): type invariants, conservation,
   exclusion, refinement, bounds.
4. **ShopCache** (done): the read path of one shop through both caches, against creation,
   update, rebuild and an instance that starts. **BloomFilter** (done) in front of it.
5. **BlogLikes**, **Follows**, **FeedScroll**, **ShopTypes** (done): what two stores, or a store
   and a page, keep in step without a transaction over both.
6. **ChatSession** (done): session rows, messages, limit, deletion against running streams.
7. **LoginSession**, **IdWorker**, **Figures** (done): tokens and threads, ids, two calculations.
8. **Services** (done): the services of items 5 to 7 and the bloom filter as one system, run by
   **MCServices**.
9. Proofs (done): **ShopCacheProofs**, **ServicesProofs** (bloom filter, likes, follows, feed,
   types, and the composition), **ChatSessionProofs**, **LoginSessionProofs**,
   **IdWorkerProofs**, **FiguresProofs**, the quiet of a settled row in **OutboxRelayProofs**, and
   in **SeckillOrderProofs** that no order is dropped, nobody is served unadmitted, and no lock is
   forgotten.

The services of items 5 to 7 call nobody and share no store: `Services` lets them interleave, and
`Composition` proves that each of them behaves there as it does alone. What does interact is
composed in one module: admission, broker, consumers, job and regular purchase in
`SeckillOrder`; request, broker, callback, relay and listener in `OutboxRelay`; both caches,
mutex, executor, writer and start-up in `ShopCache`. The bloom filter is a separate module
because an id it denies never reaches the caches: `ShopCache` starts where it let the id pass.

## 3. What is modelled

### VoucherSale
Three variables: the stock, the users who bought from it, the users who got an order from the
regular endpoint. A sale takes one unit from a positive stock for a user without an order.

### SeckillOrder
One voucher. One action per access to a shared store, so every interleaving of the accesses is
explored; what happens inside one Redis command, one script, or one SQL statement is atomic.

| actions | code |
|---|---|
| `GetVoucher`, `WarmUp`, `RunScript`, `Send` | `seckillVoucher` and `seckill.lua`; `seen` is the `sv.stock` read at the start and used by `setIfAbsent` later |
| `SendLost`, `RequestDies` | the publish is lost or swallowed (`OutboxRelayService`), or the request dies after the script |
| `BuyCheck`, `BuySave` | `buyRegularVoucher`, which accepts a seckill voucher too |
| `TryLock`, `TryLockTimeout`, `TxCount`, `TxDeduct`, `TxSave`, `TxFault`, `Unlock` | the user lock and `createVoucherOrder`, shared by consumers and the job; `AfterOk`, `AfterError`, `AfterTimeout`, `Drop` say where each of them goes on |
| `Deliver`, `Route`, `RouteDisabled`, `RouteLost`, `Ack` | `listenSeckillOrder` and `sendToRetryQueue` |
| `ReconStart`, `ReconCheck`, `ReconReadDb`, `ReconReadRedis`, `ReconFix` | `reconcile` and `compensateGhostOrders` |
| `Crash`, `LeaseExpires`, `LeaseLost`, `RedisLoses`, `CloseWindow` | instance death, Redisson leases, Redis eviction, end of the sale |

`rowOwner` is InnoDB's row lock on the voucher: the deducted stock is not visible before the
commit, so `dbStock` changes only in `TxSave`. The `pc` of a thread is a label per store access.

Abstractions: order ids are reduced to where the order came from (`queued`, `compensated`,
`regular`; a compensated order has a new id, not the one the user was told); the work queue and
the three TTL queues are one bag, since copies with different TTLs come back in any order; the
time window check and the members snapshot of the job are one step; time is the flag `open` and
the freedom of timeouts; one user lock stands for `lock:order:{user}` across vouchers. Copies
resent by the relay are not in this module because the listener never gets as far as the
transaction with them (see `outbox_resend`). The rate limiter only rejects earlier.

### OutboxRelay
A row per order (`status`, `retries`, `due`), the request, the copies on the wire, their
confirms, the queue, and the relay's batch with the retry counts as they were when it was
selected. `due` stands for `next_retry_time <= now`, so `BackoffEnds` is the passing of the
backoff. `Copy.entity` tells the request's copy (type header `VoucherOrder`) from a relay's copy
(type header of a hutool `JSONObject`). `enabled` is `llsp.feature.outbox-enabled` and is chosen
at the start; `ConfirmsOn` is Spring's `publisher-confirm-type`. Abstractions: one relay
instance; the batch limit of 100 rows is not reached; the retry of RabbitMQ connections is the
loss of a copy.

### ShopCache
One shop, several instances, the readers of `GET /shop/{id}` and the places of the rebuild
executor. A version counts the commits of the row; 0 is "no such row".

| actions | code |
|---|---|
| `Ask`, `Get`, `Put` | `queryById` past the local cache, the GET, `putToLocalCache` |
| `Renew` | an expired entry: SET NX of the mutex, hand-over to the executor or its rejection |
| `Lock`, `Check`, `Leave` | a missing key: mutex, second look, and the `finally` block. Who misses the mutex calls the method again from inside the `try`, so `owed` counts the blocks it still has to leave, each of which deletes the mutex |
| `Load`, `LoadFails`, `Fill`, `Unlock` | the query and the SET, by a reader or a rebuild |
| `Save`, `UpdateRow`, `DeleteEntry`, `InvalidateLocal`, `Commit`, `Rollback` | `createShop` and `update`: caches are invalidated before the commit |
| `Restart`, `SelectHot`, `Preload` | an instance dies, starts, and preloads the hot shops |
| `Expire`, `MarkerEnds`, `LocalEnds`, `MutexEnds` | logical expiry, the marker's TTL, Caffeine, the mutex's TTL |

`mutex` records who put the value there, which Redis does not know: the value is always "1", and
`Leave` and `Unlock` delete it without a look. `spun` and `lapsed` are history variables for the
two ways in which the protection ends. Abstractions: the payload of a shop is its version; the
mutex of one shop; one of the instances restarts; the executor's places are the threads and
queue entries left over by the rebuilds of other shops.

### BloomFilter
`SaveShop`, `AddElement`, `CommitShop`, `AbortShop` are the transaction of `createShop`, which
adds the id before it commits. `DeleteBloom`, `TryInitBloom`, `SelectShops`, `LoadOne`,
`LoadDone` are `initBloomFilter` and `rebuildBloomFilter`, `ReloadFails` a start that breaks off.
False positives are not modelled: they cost a look into the caches. One reload at a time.

### ChatSession
One chat of one user. `session` is the row's `message_count` or `NoSession`, `messages` the
number of rows. `Prepare` is `chat` with `save` and the check of the limit, `Add` is
`MysqlChatMemory.add` statement by statement, `Reply` the answer of the language model, late or
failed, `Delete` is `deleteChat`. `AddThrows` leads to `onErrorResume`, `StreamBreaks` ends a
stream anywhere. Texts and titles are left out; reads next to each other are one step.

### BlogLikes, Follows, ShopTypes
`likeBlog` looks at the set, changes the counter, then the set; `torn` names the fans who
clicked twice at once or of whom a request stopped halfway, so that the property speaks of the
others. `deleteBlog` runs against it. `Follows` is one pair of users: rows that no index keeps
single, and the membership in Redis; `alone` and `tornPair` say when the two may disagree and
when the next call repairs it. `ShopTypes` is the list without a time to live, pushed element by
element by everybody who finds it empty.

### FeedScroll
The page asks for what lies below `lastId`, the service answers with `PageOf(Below(cursor))`, the
page appends. Requests may overlap (`followReachBottom` blocks for 500 ms only, a request may
take five seconds), be answered in any order, or be lost, while blogs are saved and deleted. Ids
grow, but rows may appear in any order of their ids. One scrolling user.

### LoginSession
The token maps in Redis, and the threads of the servers with the user they hold in
`UserHolder`. A request goes through `ReadEntries` and `RefreshToken` (interceptor), a handler
(`Complete`, `Logout`, `PutAll` and `SetTtl` of `login`), and `afterCompletion`. Two exits miss
`afterCompletion` and leave the user in the thread: `RefreshThrows`, and `ChatStreams`. `chat`
returns a `Flux`, so Spring MVC goes on asynchronously and tells the interceptors so by
`afterConcurrentHandlingStarted`, which `RefreshTokenInterceptor` does not implement. The
dispatch at the end of the stream passes both interceptors again with the same token, on any
thread: it is one more `SendRequest` that reaches `Complete`. `leftover` remembers which of the two
exits left the thread, until a token sets its user anew or `afterCompletion` runs. A token's
hash is reduced to the token; code, password and the lookup of the user are reads that `login`
does before.

### IdWorker, Figures
`nextId` reads the clock, derives the day from that reading, and increments the day's counter;
clocks differ between instances and are set back at any time. `Figures` holds two calculations
as recursive functions: the streak of `signCount` over the bit field of a month, and `formatPrice`
of `common.js` in both directions, on the digits of a number.

### Services
The nine modules from BloomFilter to Figures in one state: a step is a step of one service and leaves
the stores of the others alone (`BloomOnly`, `IdsOnly` and so on).

## 4. Runs

| run | instance | shows |
|---|---|---|
| `seckill_db` | 2 users, 2 seckill requests, 1 regular purchase by the same user, 1 consumer and the job, stock 1, one crash, lost lease, lost Redis key, end of sale | `TypeOK`, `StockConserved`, refinement `SaleImplemented` |
| `seckill_delivery` | 2 users, a double click, a regular purchase, 2 consumers, stock 1, no job, dead letters on, one crash, failing statement, lost publish | `RedisConserved`, `NothingDropped`, `SentSettles` |
| `seckill_healing` | 1 user with a seckill and a regular request, 2 consumers and the job, stock 2, dead letters on, one crash, lost lease, failing statement, lost publish | `OnlyPurchaseCollides`, `AdmittedServed`, `StocksConverge` |
| `seckill_overadmission` | stock 1, 2 users, job, no fault | violates `AdmittedServed` (finding) |
| `outbox_settle` | 1 order, 2 retries, every fault once | `TypeOK`, `FailedOnlyExhausted`, `SendsBounded`, `SettledStaysQuiet`, `RowSettles` |
| `outbox_resend` | a lost publish | violates `QueuedMeansCreated` (finding) |
| `outbox_overwrite` | no fault | violates `SentStaysSent` (finding) |
| `outbox_noconfirm` | confirms off | violates `DeliveredMeansSent` (finding) |
| `shop_cache` | 2 instances with a reader each, one place in the executor of the first and none in the other's, 2 versions, the second instance may die and start, one fault | `ShopTypeOK`, `CachedWasCommitted`, `MutexProtects`, `ReadsEnd`, `StaleIsReplaced` |
| `shop_mutex` | the same instance | violates `OneFiller` (finding) |
| `services` | see below | the properties of the nine services |
| `login_async` | the same instance | violates `OwnUser` (finding) |

The properties, by what they are about:

- `services`: `NoShopDenied` (bloom filter), `IdsUnique`, `ContextBounded`, `CountHonest`,
  `OrphansFromRunning` (chat), `LikesAddUp`, `FollowsAgree`, `ShownOnce`, `NothingSkipped` (feed),
  `ListWhole` (shop types), `HandlerSeesUser`, `LoggedOutStaysOut` (login), `StreakCounted`,
  `PriceExact` (figures), `TypesOK` for all of them.
- Some of them hold only outside a case that the code gets wrong or leaves open, and say so in
  their hypothesis: `NoShopDenied` leaves out a reload under way or broken off and the shops whose
  creation met one; `LikesAddUp` the fans of a double click or a request that stopped halfway;
  `FollowsAgree` a pair after an overlap or a failure, until a request runs alone; `ShownOnce` two
  requests at a time; `ListWhole` a fill that stopped halfway (it allows a list pushed twice);
  `HandlerSeesUser` a request without a living token on a thread that missed `afterCompletion`.
- The variable `part` of `MCServices` picks one service, and the others stay in one initial state:
  the services share no store (`Composition`), so the run has the sum of their states (1.5 million)
  and not the product.
- Its instance: 2 shops; 2 callers of `nextId` on 2 days of 2 seconds with a counter of 3; 2
  streams with a limit of 2 messages and one fault; 3 like requests of 2 fans; 2 follow requests
  and up to 3 rows; 4 blogs, pages of 2, 2 requests; 2 readers of 3 shop types; 2 tokens on 2
  threads; months of 5 days; prices up to 120 cents.

Why the bounds suffice. The races of one voucher are between threads working for the *same*
user (lock, unique index) or for two users and the *last* unit. `seckill_healing` has the first: two
consumers, the job and a purchase of one user, with two units because with one a second save
cannot get past the conditional update. Dead letters and retry queues are on there, so the lost
publish may also be the retry copy whose original is acknowledged. `seckill_db`,
`seckill_delivery` and `seckill_overadmission` have the second, with two users and one unit. `MaxRetries` is 3 in the listener and 10 in the outbox;
the code treats every attempt but the last alike, so 1 or 2 reach each branch: first attempt,
retry, last attempt. `Budget` bounds each kind of fault to one occurrence, which already allows
a fault at every step and pairs of different faults; the safety properties that are proved hold
for every budget. Requests are finite, so these systems end by standing still and the
configurations switch deadlock checking off; in `services` a deleted chat and a filled list of
types are ends too. The shop runs do check for deadlock: no mutex or restart stops the system.

In `shop_cache` the races are between a reader's fill, a rebuild, the preload and one update; two
readers make the mutex contended, and their leftover deletes reach any holder. An instance
without a place in its executor drops every rebuild, which is how the mutex is left to its time
to live. Two versions tell old from new. `MaxOwed` cuts the pile of pending `finally` blocks at
two: a third deletes once more what the first two may delete at any time. `MaxFaults` allows one
failing statement, rollback or restart. In `services` two actors of a service bring out each
check-then-act; the third like request lets two of one fan overlap with another fan's. The
outbox runs have one row: rows meet in a batch only, and the proofs cover batches of any size.

What the passing runs do not claim. `AdmittedServed` and `StocksConverge` are checked with a
stock that suffices for everybody, because the job's correction may admit one user too many,
which `seckill_overadmission` shows. They also need the window to stay open, for the job skips
vouchers whose sale is over. `RedisConserved` is about a deployment without the job.
`SentSettles` counts a dead letter as an answer: the listener of that queue logs it for a human.
`NothingDropped` says the same of every moment, up to a lost publish. Its last disjunct is the one
way to drop an order: `createVoucherOrder` returns without stock and the consumer acknowledges.
The run has one unit for two users, so that case is reached by a mutant that over-admits, and
the proof shows that it needs the job or a lost key. A regular purchase, which counts as the
user's order, uses no stock: it is in the run because it ends a delivery without a sale.

### Fairness
`Fairness` of `SeckillOrder` asks that a request thread, a listener container and the scheduler
move on while they can, and that the lease of a dead holder runs out (Redisson's 30 s watchdog
lease). Each is one weak fairness condition per thread: a thread of the JVM is never blocked for
ever, since every wait in the code has a timeout (`tryLock(1, SECONDS)`) or ends with another
thread's commit. Nothing is assumed of the regular purchases. No fault is fair.
`OutboxRelay` asks the same of requests, the scheduled relay, the broker's decision on a copy,
the callback and listener threads, and of the end of a backoff, which is the clock.

`ShopFairness` asks that a reader and a rebuild that have begun go on, that the remaining steps of
a transaction follow, that a starting instance comes up, and that the two lifetimes Redis keeps
(marker and mutex) end. Nobody has to ask, write, restart, or let an entry expire. Hence
`ReadsEnd` holds unless new requests keep coming: a reader that misses the mutex may be overtaken
by new readers again and again. `StaleIsReplaced` holds unless the executor keeps dropping the
rebuilds of those who ask. The other services make no promise that needs fairness.

### Mutants
Each property of a passing run is paired in `PROJECT.json` with a changed form of one
definition, a plausible bug (a SET instead of `setIfAbsent`, a swallowed duplicate key, an
update outside `finally`, an off-by-one), under which TLC finds the property violated. The
changed forms stand next to the definition they change and are marked `Changed form`.

## 5. What is proved

For every value of the constants that satisfies the named assumptions (finite set of users,
distinct thread names, natural stock, limits and budgets):

- `SeckillOrderProofs!TypeCorrect`, `Conservation`, `Implementation`, `Exclusion`,
  `OneThreadPerUser`, `NoLockForgotten`, `ExactAdmission`, `OnlyAdmittedServed`,
  `NothingIsDropped`
- `OutboxRelayProofs!TypeCorrect`, `GivenUpOnlyExhausted`, `BoundedPublishing`, `SettledIsFinal`,
  `SentWasTaken`, `CreatedByRequest`
- `ShopCacheProofs!ShopTypesCorrect`, `OnlyCommittedCached`, `MutexExcludes`
- `ServicesProofs!NothingDenied`, `LikesStayEqual`, `FollowsStayEqual`, `NoBlogTwice`,
  `NoBlogSkipped`, `ListStaysEven`, `Composition`, `EveryServiceTyped`, `EveryServiceCorrect`
- `ChatSessionProofs!ContextStaysBounded`, `CountsLagOnly`, `OrphansExplained`
- `LoginSessionProofs!HandlersSeeTheirUser`, `LogoutIsFinal`
- `IdWorkerProofs!UniqueIds`
- `FiguresProofs!StreakIsCounted`, `PriceIsExact`

**Orders.** `TypeOK` is not inductive: that the stock stays natural needs that a thread about to
commit saw a positive stock and still owns the row. `Basis` adds `PlaceOK` (a thread at a label
inside the work of a user has a user; consumers and the job stay at their own labels) and `RowOK`
(the owner of the row is the thread at `save`, and while it owns it the stock is positive).
`Conservation` follows because only `TxSave` touches stock or seckill orders, and it touches
both or neither (`DatabaseStep`); the same lemma gives the step of the refinement. `Exclusion`
needs `Apart`: without a lost lease, a thread inside the transaction holds its user's lock, so
no two threads work on one user there, and an order that appears between the count and the
insert is the regular endpoint's. `ExactAdmission` proves `RedisConserved`; it needs `Untouched`:
before the stock key exists nobody has been admitted, hence nothing is queued, nothing is sold,
and every request about to warm the key has read the full stock.

`NothingIsDropped` follows an order from hand to hand. `Tracked` says that the user of a
successful request has an order, a dead letter, a message or a consumer at work (`Kept`), or the
stock is gone; `HandOver` and `KeptStays` are its step: a consumer acknowledges only after
`Decided` (its transaction found an order, made one, or met an empty stock) or after the retry
copy or dead letter is in a queue. To exclude the empty stock, `Traced` follows every user
whose order moves back to an admission (which is `OnlyAdmittedServed`), and `SoldOut` counts: with
as many sold as there are units and no more admitted than units, the two sets are the same.
`OneThreadPerUser` is `Apart` for all labels between lock and unlock, job included.
`NoLockForgotten` is the converse, `HeldByWorker`: a lock that names a live thread is held by a
thread inside that work, so no branch of the listener's or the job's `finally` leaves it behind.

**Outbox.** For the outbox `Inv` adds that a batch holds exactly what its
rows still count (`BatchFresh`), and that every publish is accounted for by the request, a
counted retry, a row whose count is still to be written, or a fault (`Counted`); the stale batch
is therefore harmless for the counts although it is not for the status.
`SettledIsFinal` rests on `QuietStep`: only a request that starts makes a row PENDING, and only
PENDING rows enter a batch, so a settled row that has left the batch stays out of it.
`SentWasTaken` goes from a SENT row back over its confirm (`Backed`) to a copy in the queue or with
the listener, which keeps one of two marks of it (`TakenStays`). `CreatedByRequest` is the general
form of what `outbox_resend` shows: entities are on the wire only for requests that have published
(`OwnCopies`), so a row whose request died before its publish never becomes an order.

**Shop cache.** `ShopTypeOK` is not inductive: `Leave` takes one finally block off, so a reader at
`leave` must owe one (`Owing`), and each kind of thread has its own labels (`Places`). Nothing
uncommitted is cached because a transaction about to commit found a version below the bound
(`CommitFits`) and every fill carries a version that was read after its commit (`Committed`).
`MutexExcludes` needs `Guarded`: until `spun` or `lapsed`, who works on the entry holds the mutex;
a mutex left by a reader that was killed, or whose rebuild was dropped, only blocks.

**Bloom filter.** Every committed shop is in the filter, in `met`, or still to be loaded by the
reload under way; a creation between its insert and its commit has its id in the filter or was
met by a reload.

**Likes.** `OnePerFan` and `ScoreHolds`: what a request read of the set still holds when it writes,
as long as the fan has no other request; then the set, ahead by the requests between their two
writes, is what the counter counts. **Follows.** `Solitude`: a request that met no other is the only
one; between its writes it knows what the table holds. **Feed.** `OneAtATime`: with one request
under way, what is shown lies at or above the cursor and what comes below it; `PageCovers`: any
page on its way, whatever cursor it was asked with, has no gap, since `ORDER BY id DESC LIMIT`
returns an upper segment (`PageHasNoGap`). **Types.** `EvenFills`: what the list holds of a type and
what running fills still owe of it is the same number for all types.

**Chat.** `Room` adds to the stored messages those the streams may still insert (`MayAdd`,
`MayAddTwice`) and keeps the sum within the bound; `Behind` and `Exact` say which counts are in
hand, `Gone` that a stream inside `add` without a session was there when it went.
**Login.** `Seen`: past the entries of its token a thread holds the user of that token, and keeps
it while the token lives; that a request brings only tokens whose login was answered (`Brought`)
and that EXPIRE gives no life to a map that is gone (`MapStep`) keep it so. `Carried`: a thread
that `afterCompletion` has cleared carries nobody to its next request.
**Ids.** Second and count can be read off an id, and every id was made from a count its day has
reached (`FromCounts`); day and second come from one reading of the clock, so the next count of a
day makes an id of that day that is not issued yet.

**Figures.** What a recursive function computes needs induction over the naturals, and the
library's rule takes a predicate as a parameter, which the provers cannot instantiate. The proofs
use the well-founded order instead: a set of naturals that is not empty has a least element
(`LeastNatural`), so a *set* that holds 0 and is closed under +1 is all of them (`Induction`), and a
function given by smaller arguments exists (`Recursion`). `RunOfOnes` then says what the loop over
the lowest bits counts, and `SignInv` that the bits of the key are the days of the sign-ins;
`DigitsAre`, `NumberReads`, `LeadingZero` and `CutAndJoined` are the two conversions of a price.

**Services together.** `StepOfEach`: a step of the system leaves a service alone or is one of its
steps. So a behaviour of `Services` is one of each service (`Composition`), and what is proved of
each holds of all of them together (`EveryServiceCorrect`, and `EveryServiceTyped` for `TypesOK`).

Model-checked only: the liveness properties (`SentSettles`, `AdmittedServed`, `StocksConverge`,
`RowSettles`, `ReadsEnd`, `StaleIsReplaced`), which are out of the prover's reach. Every invariant
and every action property of a passing run is proved.

## 6. What the models found

1. **The correction of the stock over-admits** (`ReconciliationServiceImpl.java:116`). See
   `seckill_overadmission`.
2. **A resent order is never created** (`OutboxRelayService.java:157`): the relay's copy has the
   type header of a JSON object, the listener's cast throws. See `outbox_resend`. Such orders
   are saved by the reconciliation job only.
3. **A confirmed row may end FAILED** (`OutboxMessageMapper.java:38`). See `outbox_overwrite`.
4. **The configuration template never gets a confirm** (`application-example.yaml:63`). See
   `outbox_noconfirm`.

5. **A reader deletes the mutex of another one** (`CacheClient.java:139`). A reader that misses
   the mutex calls the method again from inside its `try`; whatever it finds then, the pending
   `finally` block deletes the mutex, and two readers query and fill at once, which
   `src/README.md:31` excludes. See `shop_mutex`; no fault is needed.
6. **A chat leaves its user in the thread** (`AIChatController.java:52`). The request goes on
   asynchronously, `afterCompletion` is not called on its thread, and the next request there
   without a living token passes `LoginInterceptor` as the user of the chat. See `login_async`; no
   exception is needed. The comment at `MysqlChatMemory.java:156` knows the other half of this:
   the threads that deliver the stream have no user.

Met while reading, without a run:

- `README.md:68` says differences below 10 are corrected and 10 is only reported, the code
  corrects 10 (`diff > diffThreshold`).
- The comment on `SeckillListener.MAX_RETRIES` counts the first attempt, the code makes four.
- The README puts order and outbox row into one transaction, the code stores the outbox row alone
  and the order later, in the consumer.
- `deleteChat` answers a successful deletion with an error: it calls `clear`, which throws without
  a session (`MysqlChatMemory.java:165`), so `Result.ok("删除成功")` at `AIChatController.java:148` is
  reached only when a stream brought the session back in between (`ClearAnswer`). Any single call
  shows it, so no run is about it. The page ignores the error (`ai-chat.html:254`) and keeps
  showing the chat that is gone.
- `formatPrice` never takes its branch for one decimal (`common.js:94` compares with the length of
  the empty string `p`): "12.5" becomes 125 cents.
- `setWithLogicalExpire` ignores its `TimeUnit` (`CacheClient.java:44`): minutes become seconds.
- The comment of `RateLimitAspect` says a rate is rounded up, the code uses `Math.round`.
- `RefreshTokenInterceptor.java:51`: when EXPIRE throws, the user stays in the ThreadLocal of the
  thread as after a chat, and the next request without a token runs as that user. `OwnUser` leaves
  these threads out, so that `login_async` shows what happens without any exception.
- `UserServiceImpl.java:131`: a failure between the map and its EXPIRE leaves a token without end.
- `index.html:221`: two requests with one cursor may be on their way; `ShownOnce` excludes them.
- The seed data of `llsp.sql` holds one pair of `tb_follow` twice, one second apart.
- The feed keys in Redis are written by `saveBlog` and never read; `DELETE /blog/*` passes the
  `LoginInterceptor` unchecked.

## 7. Not modelled

- **Rate limiter**: the buckets are Redisson's; the aspect makes two calls in a row and keeps no
  state.
- **SimpleRedisLock**: nobody calls it, so nothing says who would hold it for how long.
- **Comments, AI tools, unused chat stores, uploads and filters, web configuration, the other pages
  of the front end** (with the vendored `vue.js`, `element.js`): single statements, read-only
  queries, superseded classes, file and string handling.
- Of modelled components: the SET of `addSeckillVoucher` before its commit; several relay
  instances on the same rows; the reuse of one user lock across vouchers; several reloads of the
  bloom filter at once; the checks of code and password in `login`; the age of an entry in the
  local caches, which has no bound as long as it is read (`expireAfterAccess`) and is therefore no
  property; the Redis feeds of `saveBlog`, which nobody reads.
