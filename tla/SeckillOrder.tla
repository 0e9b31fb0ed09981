---------------------------- MODULE SeckillOrder ----------------------------
(***************************************************************************)
(* One seckill voucher from the click to the row in tb_voucher_order: the  *)
(* request threads of VoucherOrderServiceImpl (Redis warm-up, seckill.lua, *)
(* publishing), the consumers of seckill.queue (SeckillListener), the      *)
(* transaction createVoucherOrder they share with the reconciliation job   *)
(* (ReconciliationServiceImpl), the regular purchase endpoint, and the     *)
(* faults the code is written against.                                     *)
(*                                                                         *)
(* A step is one access to a shared store (Redis, MySQL, RabbitMQ, the     *)
(* Redisson lock): between two of them every other thread may move.        *)
(* Order ids are abstracted to where the row's id came from.  The outbox   *)
(* has a module of its own, OutboxRelay: the copies it resends never reach *)
(* createVoucherOrder, so here a publish either arrives or is lost.        *)
(***************************************************************************)
EXTENDS Integers, FiniteSets

CONSTANTS
    User,
    SeckillReq,             \* calls of POST /voucher-order/seckill/{id}
    RegularReq,             \* calls of POST /voucher-order/buy/{id} on this voucher
    UserOf,                 \* the caller of each request
    Consumer,               \* listener threads, each in an instance of its own
    Recon,                  \* the thread of the reconciliation job
    Stock,                  \* tb_seckill_voucher.stock at the start
    MaxRetries,             \* SeckillListener.MAX_RETRIES
    DiffThreshold,          \* StockReconciliationJob.DIFF_THRESHOLD
    ReconciliationEnabled,  \* llsp.feature.reconciliation-enabled
    DeadLetterEnabled,      \* llsp.feature.dead-letter-enabled
    Budget                  \* how often each kind of fault may strike

Thread == Consumer \cup {Recon}

Fault == {"crash",   \* an instance dies between two steps
          "lease",   \* a live holder loses its Redisson lease (a long pause)
          "db",      \* a statement of createVoucherOrder throws
          "mq",      \* a publish is lost, or fails and is only logged
          "redis",   \* Redis loses a key
          "close"}   \* the sale window ends

ASSUME UserAssumption == IsFiniteSet(User)
ASSUME RequestAssumption == UserOf \in [SeckillReq \cup RegularReq -> User]
ASSUME ThreadAssumption ==
    Recon \notin Consumer /\ "free" \notin Thread /\ "dead" \notin Thread
ASSUME NumberAssumption ==
    Stock \in Nat /\ MaxRetries \in Nat /\ DiffThreshold \in Nat
ASSUME FlagAssumption ==
    ReconciliationEnabled \in BOOLEAN /\ DeadLetterEnabled \in BOOLEAN
ASSUME BudgetAssumption == Budget \in [Fault -> Nat]
ASSUME NoUserAssumption == "none" \notin User

NoKey == -1                                     \* seckill:stock:{id} is absent
Message == [user : User, retry : 0..MaxRetries] \* retry: header x-retry-count

VARIABLES
    redisStock,  \* seckill:stock:{id}
    redisUsers,  \* seckill:order:{id}
    dbStock,     \* committed tb_seckill_voucher.stock
    orders,      \* tb_voucher_order: where the id of the user's row came from
    rowOwner,    \* who holds the row lock of the uncommitted stock update
    lock,        \* lock:order:{userId}; "dead": its holder crashed
    queue,       \* copies in seckill.queue and in the three retry queues
    dlq,         \* users who had a message in seckill.dlx.queue, whose listener only logs
    rpc, seen,   \* seckill requests: where they are, sv.stock they read
    bpc,         \* regular requests
    pc, cur,     \* threads: where they are, the user they work for
    retry,       \* consumers: x-retry-count of the delivery in hand
    todo,        \* reconciliation: members of seckill:order still to look at
    recDb, recRedis,  \* reconciliation: the two stocks it read
    open,        \* now is within [beginTime, endTime]
    faults       \* faults so far

redisVars == <<redisStock, redisUsers>>
dbVars    == <<dbStock, orders, rowOwner>>
mqVars    == <<queue, dlq>>
reqVars   == <<rpc, seen, bpc>>
thrVars   == <<pc, cur, retry, lock>>
recVars   == <<todo, recDb, recRedis>>
envVars   == <<open, faults>>
vars == <<redisVars, dbVars, mqVars, reqVars, thrVars, recVars, envVars>>

-----------------------------------------------------------------------------
\* VoucherServiceImpl.addSeckillVoucher stores the stock key with the voucher;
\* a voucher of the SQL seed, or an evicted key, starts without one.
Init ==
    /\ redisStock \in {Stock, NoKey} /\ redisUsers = {}
    /\ dbStock = Stock /\ orders = [u \in User |-> "none"] /\ rowOwner = "free"
    /\ lock = [u \in User |-> "free"]
    /\ queue = [m \in Message |-> 0] /\ dlq = {}
    /\ rpc = [r \in SeckillReq |-> "start"] /\ seen = [r \in SeckillReq |-> 0]
    /\ bpc = [b \in RegularReq |-> "start"]
    /\ pc = [t \in Thread |-> "idle"] /\ cur = [t \in Thread |-> "none"]
    /\ retry = [c \in Consumer |-> 0]
    /\ todo = {} /\ recDb = 0 /\ recRedis = 0
    /\ open = TRUE /\ faults = [f \in Fault |-> 0]

Spend(f) == faults[f] < Budget[f] /\ faults' = [faults EXCEPT ![f] = @ + 1]

Put(m) == queue' = [queue EXCEPT ![m] = @ + 1]

HasOrder(u) == orders[u] # "none"

-----------------------------------------------------------------------------
(* VoucherOrderServiceImpl.seckillVoucher, one thread per request. *)

\* Read the voucher's row, check the time window.
GetVoucher(r) ==
    /\ rpc[r] = "start"
    /\ IF open
         THEN /\ rpc' = [rpc EXCEPT ![r] = "warm"]
              /\ seen' = [seen EXCEPT ![r] = dbStock]
         ELSE /\ rpc' = [rpc EXCEPT ![r] = "rejected"]
              /\ UNCHANGED seen
    /\ UNCHANGED <<redisVars, dbVars, mqVars, bpc, thrVars, recVars, envVars>>

\* Changed form, a plain SET: the stale stock overwrites the live counter.
Overwrite(r) == seen[r]

\* setIfAbsent(stockKey, sv.stock): a stock read some time ago.
WarmStock(r) == IF redisStock = NoKey THEN seen[r] ELSE redisStock

WarmUp(r) ==
    /\ rpc[r] = "warm"
    /\ redisStock' = WarmStock(r)
    /\ rpc' = [rpc EXCEPT ![r] = "lua"]
    /\ UNCHANGED <<redisUsers, dbVars, mqVars, seen, bpc, thrVars, recVars, envVars>>

\* seckill.lua, atomic in Redis: 1 no stock (or no key), 2 again, 0 admitted.
ScriptResult(u) ==
    IF redisStock <= 0 THEN 1 ELSE IF u \in redisUsers THEN 2 ELSE 0

RunScript(r) ==
    /\ rpc[r] = "lua"
    /\ IF ScriptResult(UserOf[r]) = 0
         THEN /\ redisStock' = redisStock - 1
              /\ redisUsers' = redisUsers \cup {UserOf[r]}
              /\ rpc' = [rpc EXCEPT ![r] = "send"]
         ELSE /\ rpc' = [rpc EXCEPT ![r] = "rejected"]
              /\ UNCHANGED redisVars
    /\ UNCHANGED <<dbVars, mqVars, seen, bpc, thrVars, recVars, envVars>>

\* nextId and sendWithOutbox: the order reaches seckill.queue.
Send(r) ==
    /\ rpc[r] = "send"
    /\ Put([user |-> UserOf[r], retry |-> 0])
    /\ rpc' = [rpc EXCEPT ![r] = "ok"]
    /\ UNCHANGED <<redisVars, dbVars, dlq, seen, bpc, thrVars, recVars, envVars>>

\* The publish is lost or its exception swallowed: the user is told "ok".
SendLost(r) ==
    /\ rpc[r] = "send"
    /\ Spend("mq")
    /\ rpc' = [rpc EXCEPT ![r] = "ok"]
    /\ UNCHANGED <<redisVars, dbVars, mqVars, seen, bpc, thrVars, recVars, open>>

\* The instance dies under the request, or nextId or the degraded publish throws.
RequestDies(r) ==
    /\ rpc[r] \in {"warm", "lua", "send"}
    /\ Spend("crash")
    /\ rpc' = [rpc EXCEPT ![r] = "error"]
    /\ UNCHANGED <<redisVars, dbVars, mqVars, seen, bpc, thrVars, recVars, open>>

-----------------------------------------------------------------------------
(* VoucherOrderServiceImpl.buyRegularVoucher: does not look at the voucher's *)
(* type, takes no lock and no stock.                                         *)

BuyCheck(b) ==
    /\ bpc[b] = "start"
    /\ bpc' = [bpc EXCEPT ![b] = IF HasOrder(UserOf[b]) THEN "rejected" ELSE "save"]
    /\ UNCHANGED <<redisVars, dbVars, mqVars, rpc, seen, thrVars, recVars, envVars>>

\* uk_user_voucher turns a second row into DataIntegrityViolationException.
BuySave(b) ==
    /\ bpc[b] = "save"
    /\ IF HasOrder(UserOf[b])
         THEN bpc' = [bpc EXCEPT ![b] = "rejected"] /\ UNCHANGED orders
         ELSE /\ bpc' = [bpc EXCEPT ![b] = "ok"]
              /\ orders' = [orders EXCEPT ![UserOf[b]] = "regular"]
    /\ UNCHANGED <<redisVars, dbStock, rowOwner, mqVars, rpc, seen, thrVars, recVars, envVars>>

-----------------------------------------------------------------------------
(* The user lock and createVoucherOrder, run by consumers and by the job. *)

Goto(t, label) == pc' = [pc EXCEPT ![t] = label]

\* Where a thread goes on when it leaves its user: SeckillListener's catch and
\* return, the job's next user or the catch of its loop over vouchers.
AfterError(t) == IF t = Recon THEN "idle" ELSE "route"
AfterOk(t)    == IF t = Recon THEN "scan" ELSE "ack"

Drop(t) == cur' = IF t = Recon THEN [cur EXCEPT ![t] = "none"] ELSE cur

\* lock.tryLock(1, SECONDS)
TryLock(t) ==
    /\ pc[t] = "lock"
    /\ lock[cur[t]] = "free"
    /\ lock' = [lock EXCEPT ![cur[t]] = t]
    /\ Goto(t, "count")
    /\ UNCHANGED <<redisVars, dbVars, mqVars, reqVars, cur, retry, recVars, envVars>>

\* Changed form: the consumer does not look at the result of tryLock.
IgnoreLock(t) == IF t = Recon THEN "scan" ELSE "count"

\* A consumer throws and retries later; the job goes on with the next user.
AfterTimeout(t) == IF t = Recon THEN "scan" ELSE "route"

TryLockTimeout(t) ==
    /\ pc[t] = "lock"
    /\ lock[cur[t]] # "free"
    /\ Goto(t, AfterTimeout(t))
    /\ Drop(t)
    /\ UNCHANGED <<redisVars, dbVars, mqVars, reqVars, retry, lock, recVars, envVars>>

\* SELECT COUNT(*): an order exists, return false.
TxCount(t) ==
    /\ pc[t] = "count"
    /\ Goto(t, IF HasOrder(cur[t]) THEN "unlock" ELSE "deduct")
    /\ UNCHANGED <<redisVars, dbVars, mqVars, reqVars, cur, retry, lock, recVars, envVars>>

\* Changed form: UPDATE without the condition on the stock.
IgnoreStock == TRUE

InStock == dbStock > 0

\* UPDATE ... SET stock = stock - 1 WHERE stock > 0: waits for the row lock,
\* sees the committed stock, and keeps the lock until commit or rollback.
TxDeduct(t) ==
    /\ pc[t] = "deduct"
    /\ rowOwner = "free"
    /\ IF InStock
         THEN rowOwner' = t /\ Goto(t, "save")
         ELSE UNCHANGED rowOwner /\ Goto(t, "unlock")
    /\ UNCHANGED <<redisVars, dbStock, orders, mqVars, reqVars, cur, retry, lock, recVars, envVars>>

\* Changed form: the duplicate key is caught and the transaction commits.
SwallowDuplicate(t) == dbStock - 1

StockAfterSave(t) == IF HasOrder(cur[t]) THEN dbStock ELSE dbStock - 1

\* INSERT and commit; on a duplicate key the transaction rolls back.
TxSave(t) ==
    /\ pc[t] = "save"
    /\ rowOwner' = "free"
    /\ dbStock' = StockAfterSave(t)
    /\ IF HasOrder(cur[t])
         THEN Goto(t, "unlock_err") /\ UNCHANGED orders
         ELSE /\ Goto(t, "unlock")
              /\ orders' = [orders EXCEPT ![cur[t]] =
                               IF t = Recon THEN "compensated" ELSE "queued"]
    /\ UNCHANGED <<redisVars, mqVars, reqVars, cur, retry, lock, recVars, envVars>>

\* A statement (for the job, nextId too) throws: rollback.
TxFault(t) ==
    /\ pc[t] \in {"count", "deduct", "save"}
    /\ Spend("db")
    /\ rowOwner' = IF rowOwner = t THEN "free" ELSE rowOwner
    /\ Goto(t, "unlock_err")
    /\ UNCHANGED <<redisVars, dbStock, orders, mqVars, reqVars, cur, retry, lock, recVars, open>>

Held(t) == lock[cur[t]] = t

\* Changed form: unlock() follows the call instead of standing in finally.
ReleasedOnSuccess(t) ==
    IF Held(t) /\ pc[t] = "unlock" THEN [lock EXCEPT ![cur[t]] = "free"] ELSE lock

Released(t) == IF Held(t) THEN [lock EXCEPT ![cur[t]] = "free"] ELSE lock

\* finally { lock.unlock() }: throws when the lease has been lost meanwhile.
Unlock(t) ==
    /\ pc[t] \in {"unlock", "unlock_err"}
    /\ lock' = Released(t)
    /\ Goto(t, IF Held(t) /\ pc[t] = "unlock" THEN AfterOk(t) ELSE AfterError(t))
    /\ Drop(t)
    /\ UNCHANGED <<redisVars, dbVars, mqVars, reqVars, retry, recVars, envVars>>

-----------------------------------------------------------------------------
(* SeckillListener.listenSeckillOrder *)

\* Any copy may be next: retry copies come back after their queue's TTL.
Deliver(c) ==
    /\ pc[c] = "idle"
    /\ \E m \in Message :
        /\ queue[m] > 0
        /\ queue' = [queue EXCEPT ![m] = @ - 1]
        /\ cur' = [cur EXCEPT ![c] = m.user]
        /\ retry' = [retry EXCEPT ![c] = m.retry]
    /\ Goto(c, "lock")
    /\ UNCHANGED <<redisVars, dbVars, dlq, reqVars, lock, recVars, envVars>>

\* catch: to the next retry queue, or to the dead letters after MaxRetries.
Route(c) ==
    /\ pc[c] = "route"
    /\ DeadLetterEnabled
    /\ IF retry[c] >= MaxRetries
         THEN dlq' = dlq \cup {cur[c]} /\ UNCHANGED queue
         ELSE Put([user |-> cur[c], retry |-> retry[c] + 1]) /\ UNCHANGED dlq
    /\ Goto(c, "ack")
    /\ UNCHANGED <<redisVars, dbVars, reqVars, cur, retry, lock, recVars, envVars>>

\* Dead letters switched off: logged and dropped.
RouteDisabled(c) ==
    /\ pc[c] = "route"
    /\ ~DeadLetterEnabled
    /\ Goto(c, "ack")
    /\ UNCHANGED <<redisVars, dbVars, mqVars, reqVars, cur, retry, lock, recVars, envVars>>

\* sendToRetryQueue fails: logged, and the delivery is acknowledged all the same.
RouteLost(c) ==
    /\ pc[c] = "route"
    /\ DeadLetterEnabled
    /\ Spend("mq")
    /\ Goto(c, "ack")
    /\ UNCHANGED <<redisVars, dbVars, mqVars, reqVars, cur, retry, lock, recVars, open>>

Ack(c) ==
    /\ pc[c] = "ack"
    /\ Goto(c, "idle")
    /\ cur' = [cur EXCEPT ![c] = "none"]
    /\ retry' = [retry EXCEPT ![c] = 0]
    /\ UNCHANGED <<redisVars, dbVars, mqVars, reqVars, lock, recVars, envVars>>

-----------------------------------------------------------------------------
(* ReconciliationServiceImpl.reconcile, started by StockReconciliationJob. *)

\* Only vouchers within their window; members(orderKey) is a snapshot.
ReconStart ==
    /\ pc[Recon] = "idle"
    /\ ReconciliationEnabled
    /\ open
    /\ todo' = redisUsers
    /\ Goto(Recon, "scan")
    /\ UNCHANGED <<redisVars, dbVars, mqVars, reqVars, cur, retry, lock, recDb, recRedis, envVars>>

\* compensateGhostOrders: a member without an order is given one.
ReconCheck ==
    /\ pc[Recon] = "scan"
    /\ \E u \in todo :
        /\ todo' = todo \ {u}
        /\ IF HasOrder(u)
             THEN UNCHANGED <<pc, cur>>
             ELSE Goto(Recon, "lock") /\ cur' = [cur EXCEPT ![Recon] = u]
    /\ UNCHANGED <<redisVars, dbVars, mqVars, reqVars, retry, lock, recDb, recRedis, envVars>>

ReconReadDb ==
    /\ pc[Recon] = "scan"
    /\ todo = {}
    /\ recDb' = dbStock
    /\ Goto(Recon, "read_redis")
    /\ UNCHANGED <<redisVars, dbVars, mqVars, reqVars, cur, retry, lock, todo, recRedis, envVars>>

ReconReadRedis ==
    /\ pc[Recon] = "read_redis"
    /\ recRedis' = redisStock
    /\ Goto(Recon, "fix")
    /\ UNCHANGED <<redisVars, dbVars, mqVars, reqVars, cur, retry, lock, todo, recDb, envVars>>

Diff == IF recRedis >= recDb THEN recRedis - recDb ELSE recDb - recRedis

\* Changed form: only a missing key is repaired.
OnlyMissing == recRedis = NoKey

\* No key: restore it.  A difference up to the threshold: overwrite it.
Correctable == recRedis = NoKey \/ Diff \in 1..DiffThreshold

ReconFix ==
    /\ pc[Recon] = "fix"
    /\ redisStock' = IF Correctable THEN recDb ELSE redisStock
    /\ recDb' = 0 /\ recRedis' = 0
    /\ Goto(Recon, "idle")
    /\ UNCHANGED <<redisUsers, dbVars, mqVars, reqVars, cur, retry, lock, todo, envVars>>

-----------------------------------------------------------------------------
(* Faults and the passing of time. *)

\* The transaction is rolled back, the lock stays until its lease runs out, an
\* unacknowledged delivery goes back to the queue, the job forgets its work.
Crash(t) ==
    /\ pc[t] # "idle"
    /\ Spend("crash")
    /\ Goto(t, "idle")
    /\ cur' = [cur EXCEPT ![t] = "none"]
    /\ rowOwner' = IF rowOwner = t THEN "free" ELSE rowOwner
    /\ lock' = [u \in User |-> IF lock[u] = t THEN "dead" ELSE lock[u]]
    /\ IF t = Recon
         THEN /\ todo' = {} /\ recDb' = 0 /\ recRedis' = 0
              /\ UNCHANGED <<queue, retry>>
         ELSE /\ Put([user |-> cur[t], retry |-> retry[t]])
              /\ retry' = [retry EXCEPT ![t] = 0]
              /\ UNCHANGED recVars
    /\ UNCHANGED <<redisVars, dbStock, orders, dlq, reqVars, open>>

LeaseExpires(u) ==
    /\ lock[u] = "dead"
    /\ lock' = [lock EXCEPT ![u] = "free"]
    /\ UNCHANGED <<redisVars, dbVars, mqVars, reqVars, pc, cur, retry, recVars, envVars>>

LeaseLost(u) ==
    /\ lock[u] \in Thread
    /\ Spend("lease")
    /\ lock' = [lock EXCEPT ![u] = "free"]
    /\ UNCHANGED <<redisVars, dbVars, mqVars, reqVars, pc, cur, retry, recVars, open>>

RedisLoses ==
    /\ Spend("redis")
    /\ \/ redisStock' = NoKey /\ UNCHANGED redisUsers
       \/ redisUsers' = {} /\ UNCHANGED redisStock
    /\ UNCHANGED <<dbVars, mqVars, reqVars, thrVars, recVars, open>>

CloseWindow ==
    /\ open
    /\ Spend("close")
    /\ open' = FALSE
    /\ UNCHANGED <<redisVars, dbVars, mqVars, reqVars, thrVars, recVars>>

-----------------------------------------------------------------------------
Request(r) == GetVoucher(r) \/ WarmUp(r) \/ RunScript(r) \/ Send(r)

Purchase(b) == BuyCheck(b) \/ BuySave(b)

CreateOrder(t) ==
    \/ TryLock(t) \/ TryLockTimeout(t)
    \/ TxCount(t) \/ TxDeduct(t) \/ TxSave(t)
    \/ Unlock(t)

Consume(c) == Deliver(c) \/ CreateOrder(c) \/ Route(c) \/ RouteDisabled(c) \/ Ack(c)

Reconcile ==
    ReconStart \/ ReconCheck \/ CreateOrder(Recon)
    \/ ReconReadDb \/ ReconReadRedis \/ ReconFix

Failure ==
    \/ \E r \in SeckillReq : SendLost(r) \/ RequestDies(r)
    \/ \E c \in Consumer : RouteLost(c)
    \/ \E t \in Thread : TxFault(t) \/ Crash(t)
    \/ \E u \in User : LeaseLost(u)
    \/ RedisLoses
    \/ CloseWindow

Next ==
    \/ \E r \in SeckillReq : Request(r)
    \/ \E b \in RegularReq : Purchase(b)
    \/ \E c \in Consumer : Consume(c)
    \/ Reconcile
    \/ \E u \in User : LeaseExpires(u)
    \/ Failure

Spec == Init /\ [][Next]_vars

\* Every thread the code starts keeps running while it can move: request
\* threads, the listener containers, the scheduler; a lease of a dead holder
\* runs out by itself.  No fault is ever owed.
Fairness ==
    /\ \A r \in SeckillReq : WF_vars(Request(r))
    /\ \A c \in Consumer : WF_vars(Consume(c))
    /\ WF_vars(Reconcile)
    /\ \A u \in User : WF_vars(LeaseExpires(u))

FairSpec == Spec /\ Fairness
-----------------------------------------------------------------------------
(* Properties *)

ThreadLabels ==
    {"idle", "lock", "count", "deduct", "save", "unlock", "unlock_err", "route",
     "ack", "scan", "read_redis", "fix"}

\* Every variable has its type; in particular the stock of the database is
\* never negative and no message carries more than MaxRetries in its header.
TypeOK ==
    /\ redisStock \in Nat \cup {NoKey} /\ redisUsers \subseteq User
    /\ dbStock \in Nat /\ rowOwner \in Thread \cup {"free"}
    /\ orders \in [User -> {"none", "queued", "compensated", "regular"}]
    /\ lock \in [User -> Thread \cup {"free", "dead"}]
    /\ queue \in [Message -> Nat] /\ dlq \subseteq User
    /\ rpc \in [SeckillReq -> {"start", "warm", "lua", "send", "ok", "rejected", "error"}]
    /\ seen \in [SeckillReq -> Nat]
    /\ bpc \in [RegularReq -> {"start", "save", "ok", "rejected"}]
    /\ pc \in [Thread -> ThreadLabels]
    /\ cur \in [Thread -> User \cup {"none"}]
    /\ retry \in [Consumer -> 0..MaxRetries]
    /\ todo \subseteq User /\ recDb \in Nat /\ recRedis \in Nat \cup {NoKey}
    /\ open \in BOOLEAN
    /\ faults \in [Fault -> Nat]

Sold == {u \in User : orders[u] \in {"queued", "compensated"}}

\* The stock column and the seckill orders always add up to what was put on
\* sale: no crash between two statements, no duplicate key and no race of a
\* consumer with the job ever loses or sells a unit (createVoucherOrder's
\* transaction, its rollback and its conditional update).
StockConserved == dbStock + Cardinality(Sold) = Stock

\* A save that runs into uk_user_voucher, and so rolls a deducted stock back,
\* can only have met an order of the regular endpoint: consumers and the job
\* exclude each other per user as long as no live holder loses its lease
\* (ReconciliationServiceImpl's comment on the shared lock:order:{userId}).
OnlyPurchaseCollides ==
    faults["lease"] = 0 =>
        \A t \in Thread :
            pc[t] = "save" /\ HasOrder(cur[t]) => orders[cur[t]] = "regular"

\* Without the job, and as long as Redis keeps its keys, the counter and the
\* admitted users always add up to the stock, although every request warms the
\* counter with a stock it read earlier: the script admits exactly the stock.
RedisConserved ==
    ~ReconciliationEnabled /\ faults["redis"] = 0 =>
        IF redisStock = NoKey THEN redisUsers = {}
        ELSE redisStock + Cardinality(redisUsers) = Stock

\* However the order of a successful request travels through retries,
\* redeliveries and the user lock, it ends as a row or as a dead letter unless
\* the broker loses a publish: waiting for the lock or losing an instance in
\* the middle of a transaction never drops it silently (SeckillListener).
SentSettles ==
    \A r \in SeckillReq :
        (rpc[r] = "ok") ~> \/ HasOrder(UserOf[r])
                           \/ UserOf[r] \in dlq
                           \/ faults["mq"] > 0

\* Someone still has to bring the order of u to the database: a copy waits in a queue,
\* or a consumer works on one and has not come to acknowledge it.
OnItsWay(u) ==
    \/ \E m \in Message : m.user = u /\ queue[m] > 0
    \/ \E c \in Consumer : cur[c] = u /\ pc[c] \notin {"idle", "ack"}

\* While the broker loses no publish, the order of a successful request is at every
\* moment a row, a dead letter or still on its way: no copy is acknowledged before
\* something else has taken it over (SeckillListener's finally).  The one way to drop
\* it, a return without stock, is shut as long as the counter is left to the script.
NothingDropped ==
    DeadLetterEnabled /\ faults["mq"] = 0 =>
        \A r \in SeckillReq : rpc[r] = "ok" =>
            \/ HasOrder(UserOf[r])
            \/ UserOf[r] \in dlq
            \/ OnItsWay(UserOf[r])
            \/ dbStock = 0 /\ (ReconciliationEnabled \/ faults["redis"] > 0)

\* The order a user was admitted for is eventually a row: lost publishes,
\* crashes and dead letters are made good by the reconciliation job.
AdmittedServed ==
    \A u \in User : (u \in redisUsers) ~> HasOrder(u)

\* The two stocks agree in the end and stay in agreement.
StocksConverge == <>[](redisStock = dbStock)

\* What the database goes through is a run of VoucherSale.
Sale == INSTANCE VoucherSale WITH
            stock   <- dbStock,
            sold    <- Sold,
            granted <- {u \in User : orders[u] = "regular"}

\* Every step of this module is a sale, a grant or nothing at all for VoucherSale:
\* one order per user, each seckill order takes one unit of a positive stock.
SaleImplemented == Sale!Spec
=============================================================================
