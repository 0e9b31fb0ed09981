------------------------- MODULE SeckillOrderProofs -------------------------
(***************************************************************************)
(* Proofs about SeckillOrder for every set of users, requests, consumers,  *)
(* every stock and every budget of faults.                                 *)
(***************************************************************************)
EXTENDS SeckillOrder, FiniteSetTheorems, TLAPS

Working == {"lock", "count", "deduct", "save", "unlock", "unlock_err", "route", "ack"}

\* A thread that works for a user knows which; a consumer is never in the job's
\* own steps.
PlaceOK ==
    /\ \A t \in Thread : pc[t] \in Working => cur[t] \in User
    /\ \A c \in Consumer : pc[c] \in Working \cup {"idle"}

\* A thread about to save holds the row lock under which it saw a positive
\* stock, so no other thread can have committed a sale since.
RowOK == \A t \in Thread : pc[t] = "save" => rowOwner = t /\ dbStock > 0

Basis == TypeOK /\ PlaceOK /\ RowOK

USE DEF NoKey

\* Counting a fault and publishing a copy keep the types of the two counters.
LEMMA SpendType ==
    ASSUME NEW f \in Fault, faults \in [Fault -> Nat], Spend(f)
    PROVE  faults' \in [Fault -> Nat]
BY DEF Spend

\* Putting a message into a bag keeps the type of the bag.
LEMMA PutType ==
    ASSUME NEW m, queue \in [Message -> Nat], Put(m)
    PROVE  queue' \in [Message -> Nat]
<1> SUFFICES ASSUME NEW n \in Message PROVE queue'[n] \in Nat
  BY DEF Put
<1>1. CASE n = m BY <1>1 DEF Put
<1>2. CASE n # m BY <1>2 DEF Put
<1> QED BY <1>1, <1>2

\* The kinds of faults the steps spend.
LEMMA FaultKinds ==
    /\ "crash" \in Fault /\ "lease" \in Fault /\ "db" \in Fault
    /\ "mq" \in Fault /\ "redis" \in Fault /\ "close" \in Fault
BY DEF Fault

\* A voucher that was just published.
LEMMA InitBasis == Init => Basis
<1> SUFFICES ASSUME Init PROVE Basis
  OBVIOUS
<1> USE NumberAssumption, ThreadAssumption DEF Init
<1>1. TypeOK
  <2>1. queue \in [Message -> Nat] /\ faults \in [Fault -> Nat]
    OBVIOUS
  <2>2. pc \in [Thread -> ThreadLabels] /\ cur \in [Thread -> User \cup {"none"}]
    BY DEF ThreadLabels
  <2>3. retry \in [Consumer -> 0..MaxRetries]
    OBVIOUS
  <2> QED BY <2>1, <2>2, <2>3 DEF TypeOK
<1>2. PlaceOK
  BY DEF PlaceOK, Working, Thread
<1>3. RowOK
  BY DEF RowOK
<1> QED BY <1>1, <1>2, <1>3 DEF Basis

\* The requests of both endpoints move no thread and no stock of the database.
LEMMA RequestBasis ==
    ASSUME Basis,
           \/ \E r \in SeckillReq : Request(r) \/ SendLost(r) \/ RequestDies(r)
           \/ \E b \in RegularReq : Purchase(b)
    PROVE  Basis'
<1> USE NumberAssumption, RequestAssumption, BudgetAssumption
        DEF Basis, TypeOK, PlaceOK, RowOK, redisVars, dbVars, mqVars, reqVars,
            thrVars, recVars, envVars
<1>1. ASSUME NEW r \in SeckillReq, GetVoucher(r) PROVE Basis'
  BY <1>1 DEF GetVoucher
<1>2. ASSUME NEW r \in SeckillReq, WarmUp(r) PROVE Basis'
  BY <1>2 DEF WarmUp, WarmStock
<1>3. ASSUME NEW r \in SeckillReq, RunScript(r) PROVE Basis'
  BY <1>3 DEF RunScript, ScriptResult
<1>4. ASSUME NEW r \in SeckillReq, Send(r) PROVE Basis'
  BY <1>4, PutType DEF Send
<1>5. ASSUME NEW r \in SeckillReq, SendLost(r) PROVE Basis'
  BY <1>5, SpendType, FaultKinds DEF SendLost
<1>6. ASSUME NEW r \in SeckillReq, RequestDies(r) PROVE Basis'
  BY <1>6, SpendType, FaultKinds DEF RequestDies
<1>7. ASSUME NEW b \in RegularReq, BuyCheck(b) PROVE Basis'
  BY <1>7 DEF BuyCheck
<1>8. ASSUME NEW b \in RegularReq, BuySave(b) PROVE Basis'
  BY <1>8 DEF BuySave
<1> QED BY <1>1, <1>2, <1>3, <1>4, <1>5, <1>6, <1>7, <1>8 DEF Request, Purchase

\* The steps of a thread inside its user's lock.
LEMMA CreateOrderBasis ==
    ASSUME Basis, NEW t \in Thread, CreateOrder(t) \/ TxFault(t)
    PROVE  Basis'
<1> USE ThreadAssumption, BudgetAssumption
        DEF Basis, TypeOK, PlaceOK, RowOK, redisVars, dbVars, mqVars, reqVars,
            thrVars, recVars, envVars, Thread, Working, ThreadLabels, Goto
<1>1. CASE TryLock(t)
  BY <1>1 DEF TryLock
<1>2. CASE TryLockTimeout(t)
  BY <1>2 DEF TryLockTimeout, AfterTimeout, Drop
<1>3. CASE TxCount(t)
  BY <1>3 DEF TxCount
<1>4. CASE TxDeduct(t)
  <2>1. rowOwner' \in Thread \cup {"free"} /\ pc' \in [Thread -> ThreadLabels]
    <3>1. \/ rowOwner' = t /\ pc' = [pc EXCEPT ![t] = "save"]
          \/ rowOwner' = rowOwner /\ pc' = [pc EXCEPT ![t] = "unlock"]
      BY <1>4 DEF TxDeduct
    <3>2. rowOwner' \in Thread \cup {"free"}
      BY <3>1
    <3>3. pc' \in [Thread -> ThreadLabels]
      BY <3>1
    <3> QED BY <3>2, <3>3
  <2>2. TypeOK'
    BY <1>4, <2>1 DEF TxDeduct
  <2>3. PlaceOK'
    <3>1. /\ cur[t] \in User /\ cur' = cur
          /\ \/ pc' = [pc EXCEPT ![t] = "save"]
             \/ pc' = [pc EXCEPT ![t] = "unlock"]
      BY <1>4 DEF TxDeduct
    <3> QED BY <3>1
  <2>4. ASSUME NEW s \in Thread, pc'[s] = "save"
        PROVE  rowOwner' = s /\ dbStock' > 0
    <3>1. s = t
      BY <1>4, <2>4 DEF TxDeduct, InStock
    <3> QED BY <1>4, <2>4, <3>1 DEF TxDeduct, InStock
  <2> QED BY <2>2, <2>3, <2>4
<1>5. CASE TxSave(t)
  BY <1>5 DEF TxSave, StockAfterSave
<1>6. CASE Unlock(t)
  BY <1>6 DEF Unlock, Released, AfterOk, AfterError, Drop
<1>7. CASE TxFault(t)
  BY <1>7, SpendType, FaultKinds DEF TxFault
<1> QED BY <1>1, <1>2, <1>3, <1>4, <1>5, <1>6, <1>7 DEF CreateOrder

\* The steps of a consumer outside it.
LEMMA ConsumerBasis ==
    ASSUME Basis, NEW c \in Consumer,
           Deliver(c) \/ Route(c) \/ RouteDisabled(c) \/ RouteLost(c) \/ Ack(c)
    PROVE  Basis'
<1> USE ThreadAssumption, BudgetAssumption, NumberAssumption
        DEF Basis, TypeOK, PlaceOK, RowOK, redisVars, dbVars, mqVars, reqVars,
            thrVars, recVars, envVars, Thread, Working, ThreadLabels, Goto
<1>1. CASE Deliver(c)
  <2> PICK m \in Message :
          /\ queue[m] > 0
          /\ queue' = [queue EXCEPT ![m] = @ - 1]
          /\ cur' = [cur EXCEPT ![c] = m.user]
          /\ retry' = [retry EXCEPT ![c] = m.retry]
    BY <1>1 DEF Deliver
  <2>1. m.user \in User /\ m.retry \in 0..MaxRetries
    BY DEF Message
  <2>2. queue' \in [Message -> Nat]
    OBVIOUS
  <2> QED BY <1>1, <2>1, <2>2 DEF Deliver
<1>2. CASE Route(c)
  BY <1>2, PutType DEF Route
<1>3. CASE RouteDisabled(c)
  BY <1>3 DEF RouteDisabled
<1>4. CASE RouteLost(c)
  BY <1>4, SpendType, FaultKinds DEF RouteLost
<1>5. CASE Ack(c)
  BY <1>5 DEF Ack
<1> QED BY <1>1, <1>2, <1>3, <1>4, <1>5

\* The steps of the job outside it.
LEMMA JobBasis ==
    ASSUME Basis,
           \/ ReconStart \/ ReconCheck
           \/ ReconReadDb \/ ReconReadRedis \/ ReconFix
    PROVE  Basis'
<1> USE ThreadAssumption
        DEF Basis, TypeOK, PlaceOK, RowOK, redisVars, dbVars, mqVars, reqVars,
            thrVars, recVars, envVars, Thread, Working, ThreadLabels, Goto
<1>1. CASE ReconStart
  BY <1>1 DEF ReconStart
<1>2. CASE ReconCheck
  BY <1>2 DEF ReconCheck
<1>3. CASE ReconReadDb
  BY <1>3 DEF ReconReadDb
<1>4. CASE ReconReadRedis
  BY <1>4 DEF ReconReadRedis
<1>5. CASE ReconFix
  BY <1>5 DEF ReconFix
<1> QED BY <1>1, <1>2, <1>3, <1>4, <1>5

\* Crashes, leases, Redis and the window.
LEMMA EnvironmentBasis ==
    ASSUME Basis,
           \/ \E t \in Thread : Crash(t)
           \/ \E u \in User : LeaseExpires(u) \/ LeaseLost(u)
           \/ RedisLoses \/ CloseWindow
    PROVE  Basis'
<1> USE ThreadAssumption, BudgetAssumption, NumberAssumption
        DEF Basis, TypeOK, PlaceOK, RowOK, redisVars, dbVars, mqVars, reqVars,
            thrVars, recVars, envVars, Thread, Working, ThreadLabels, Goto
<1>1. ASSUME NEW t \in Thread, Crash(t) PROVE Basis'
  BY <1>1, PutType, SpendType, FaultKinds DEF Crash
<1>2. ASSUME NEW u \in User, LeaseExpires(u) PROVE Basis'
  BY <1>2 DEF LeaseExpires
<1>3. ASSUME NEW u \in User, LeaseLost(u) PROVE Basis'
  BY <1>3, SpendType, FaultKinds DEF LeaseLost
<1>4. CASE RedisLoses
  BY <1>4, SpendType, FaultKinds DEF RedisLoses
<1>5. CASE CloseWindow
  BY <1>5, SpendType, FaultKinds DEF CloseWindow
<1> QED BY <1>1, <1>2, <1>3, <1>4, <1>5

\* Every step keeps the basis.
LEMMA NextBasis == Basis /\ [Next]_vars => Basis'
<1> SUFFICES ASSUME Basis, [Next]_vars PROVE Basis'
  OBVIOUS
<1>1. CASE UNCHANGED vars
  BY <1>1 DEF vars, redisVars, dbVars, mqVars, reqVars, thrVars, recVars, envVars,
              Basis, TypeOK, PlaceOK, RowOK
<1>2. CASE Next
  BY <1>2, RequestBasis, CreateOrderBasis, ConsumerBasis, JobBasis, EnvironmentBasis
     DEF Next, Consume, Reconcile, Failure, Thread
<1> QED BY <1>1, <1>2

\* Every reachable state is well typed: the conditional update never drives the
\* stock column below zero and no header exceeds MaxRetries, whatever crashes,
\* duplicates and lost leases did before.
THEOREM TypeCorrect == Spec => []TypeOK
<1>1. Init => Basis BY InitBasis
<1>2. Basis /\ [Next]_vars => Basis' BY NextBasis
<1>3. Basis => TypeOK BY DEF Basis
<1> QED BY <1>1, <1>2, <1>3, PTL DEF Spec

-----------------------------------------------------------------------------
(* The database as VoucherSale sees it *)

SaleTo(u) ==
    /\ dbStock > 0 /\ orders[u] = "none"
    /\ dbStock' = dbStock - 1
    /\ \/ orders' = [orders EXCEPT ![u] = "queued"]
       \/ orders' = [orders EXCEPT ![u] = "compensated"]

GrantTo(u) ==
    /\ orders[u] = "none"
    /\ dbStock' = dbStock
    /\ orders' = [orders EXCEPT ![u] = "regular"]

\* The only steps that touch the stock or the orders are a committed
\* createVoucherOrder, which sells, and buyRegularVoucher, which grants.
LEMMA DatabaseStep ==
    ASSUME Basis, [Next]_vars
    PROVE  \/ dbStock' = dbStock /\ orders' = orders
           \/ \E u \in User : SaleTo(u) \/ GrantTo(u)
<1> DEFINE Same == dbStock' = dbStock /\ orders' = orders
           Goal == Same \/ \E u \in User : SaleTo(u) \/ GrantTo(u)
<1> USE DEF dbVars
<1>1. CASE UNCHANGED vars
  BY <1>1 DEF vars
<1>2. ASSUME NEW t \in Thread, TxSave(t) PROVE Goal
  <2>1. cur[t] \in User /\ dbStock > 0 /\ dbStock \in Nat
    BY <1>2 DEF TxSave, Basis, TypeOK, PlaceOK, RowOK, Working
  <2>2. CASE HasOrder(cur[t])
    BY <1>2, <2>2 DEF TxSave, StockAfterSave
  <2>3. CASE ~HasOrder(cur[t])
    <3>1. SaleTo(cur[t])
      BY <1>2, <2>1, <2>3 DEF TxSave, StockAfterSave, SaleTo, HasOrder
    <3> QED BY <2>1, <3>1
  <2> QED BY <2>2, <2>3
<1>3. ASSUME NEW t \in Thread, CreateOrder(t) PROVE Goal
  <2>1. TxSave(t) \/ Same
    BY <1>3 DEF CreateOrder, TryLock, TryLockTimeout, TxCount, TxDeduct, Unlock
  <2> QED BY <1>2, <2>1
<1>4. ASSUME NEW b \in RegularReq, Purchase(b) PROVE Goal
  <2>1. UserOf[b] \in User
    BY RequestAssumption
  <2>2. BuySave(b) \/ Same
    BY <1>4 DEF Purchase, BuyCheck
  <2>3. BuySave(b) => Same \/ GrantTo(UserOf[b])
    BY DEF BuySave, GrantTo, HasOrder
  <2> QED BY <2>1, <2>2, <2>3
<1>5. ASSUME NEW r \in SeckillReq, Request(r) PROVE Goal
  BY <1>5 DEF Request, GetVoucher, WarmUp, RunScript, Send
<1>6. ASSUME NEW c \in Consumer, Consume(c) PROVE Goal
  BY <1>3, <1>6 DEF Consume, Deliver, Route, RouteDisabled, Ack, Thread
<1>7. CASE Reconcile
  BY <1>3, <1>7 DEF Reconcile, ReconStart, ReconCheck, ReconReadDb, ReconReadRedis,
                    ReconFix, Thread
<1>8. CASE Failure
  BY <1>8 DEF Failure, SendLost, RequestDies, RouteLost, TxFault, Crash, LeaseLost,
              RedisLoses, CloseWindow
<1>9. ASSUME NEW u \in User, LeaseExpires(u) PROVE Goal
  BY <1>9 DEF LeaseExpires
<1> QED BY <1>1, <1>4, <1>5, <1>6, <1>7, <1>8, <1>9 DEF Next

\* A committed seckill order joins the sold ones.
LEMMA SoldAfterSale ==
    ASSUME Basis, NEW u \in User, SaleTo(u)
    PROVE  u \notin Sold /\ Sold' = Sold \cup {u}
BY DEF Basis, TypeOK, SaleTo, Sold

\* A regular purchase leaves the sold ones alone.
LEMMA SoldAfterGrant ==
    ASSUME Basis, NEW u \in User, GrantTo(u)
    PROVE  Sold' = Sold
BY DEF Basis, TypeOK, GrantTo, Sold

\* The sold orders are finitely many.
LEMMA SoldFinite == IsFiniteSet(Sold)
BY FS_Subset, UserAssumption DEF Sold

\* The stock column and the number of seckill orders add up to the initial stock
\* in every reachable state, so no schedule of consumers, of the job, of crashes
\* and of duplicate keys oversells or loses a unit.
THEOREM Conservation == Spec => []StockConserved
<1> DEFINE Inv == Basis /\ StockConserved
<1>1. Init => Inv
  <2> SUFFICES ASSUME Init PROVE StockConserved
    BY InitBasis
  <2>1. Sold = {}
    BY DEF Init, Sold
  <2>2. Cardinality(Sold) = 0
    BY <2>1, FS_EmptySet
  <2> QED BY <2>2, NumberAssumption DEF Init, StockConserved
<1>2. Inv /\ [Next]_vars => Inv'
  <2> SUFFICES ASSUME Inv, [Next]_vars PROVE StockConserved'
    BY NextBasis
  <2> USE DEF StockConserved
  <2>1. CASE dbStock' = dbStock /\ orders' = orders
    BY <2>1 DEF Sold
  <2>2. ASSUME NEW u \in User, SaleTo(u) PROVE StockConserved'
    <3>1. Cardinality(Sold') = Cardinality(Sold) + 1
      BY <2>2, SoldAfterSale, SoldFinite, FS_AddElement
    <3>2. dbStock \in Nat /\ Cardinality(Sold) \in Nat
      BY SoldFinite, FS_CardinalityType DEF Basis, TypeOK
    <3> QED BY <2>2, <3>1, <3>2 DEF SaleTo
  <2>3. ASSUME NEW u \in User, GrantTo(u) PROVE StockConserved'
    BY <2>3, SoldAfterGrant DEF GrantTo
  <2> QED BY <2>1, <2>2, <2>3, DatabaseStep
<1>3. Inv => StockConserved
  OBVIOUS
<1> QED BY <1>1, <1>2, <1>3, PTL DEF Spec

\* Through the refinement mapping every run of the pipeline is a run of
\* VoucherSale: each order is one sale of a positive stock or one grant, to a
\* user who had none, and never goes away.
THEOREM Implementation == Spec => SaleImplemented
<1>1. Init => Sale!Init
  BY DEF Init, Sale!Init, Sold
<1>2. Basis /\ [Next]_vars => [Sale!Next]_(Sale!vars)
  <2> SUFFICES ASSUME Basis, [Next]_vars PROVE [Sale!Next]_(Sale!vars)
    OBVIOUS
  <2> DEFINE Granted == {u \in User : orders[u] = "regular"}
  <2>1. CASE dbStock' = dbStock /\ orders' = orders
    BY <2>1 DEF Sale!vars, Sold
  <2>2. ASSUME NEW u \in User, SaleTo(u) PROVE Sale!Next
    <3>1. Granted' = Granted /\ u \notin Granted
      BY <2>2 DEF SaleTo, Basis, TypeOK
    <3>2. Sale!Sell(u)
      BY <2>2, <3>1, SoldAfterSale DEF Sale!Sell, SaleTo
    <3> QED BY <3>2 DEF Sale!Next
  <2>3. ASSUME NEW u \in User, GrantTo(u) PROVE Sale!Next
    <3>1. Granted' = Granted \cup {u} /\ u \notin Granted /\ u \notin Sold
      BY <2>3 DEF GrantTo, Basis, TypeOK, Sold
    <3>2. Sale!Grant(u)
      BY <2>3, <3>1, SoldAfterGrant DEF Sale!Grant, GrantTo
    <3> QED BY <3>2 DEF Sale!Next
  <2> QED BY <2>1, <2>2, <2>3, DatabaseStep
<1> QED BY <1>1, <1>2, InitBasis, NextBasis, PTL DEF Spec, SaleImplemented, Sale!Spec

-----------------------------------------------------------------------------
(* Consumers and the job exclude each other per user *)

InLock == {"count", "deduct", "save", "unlock", "unlock_err"}

\* While no live holder has lost its lease, a thread between tryLock and unlock
\* owns its user's lock, and after the count only a purchase at the regular
\* endpoint can have given the user an order.
Apart ==
    faults["lease"] = 0 =>
        \A t \in Thread :
            /\ pc[t] \in InLock => lock[cur[t]] = t
            /\ pc[t] \in {"deduct", "save"} => orders[cur[t]] \in {"none", "regular"}

\* No fault is ever forgotten.
LEMMA FaultsGrow ==
    ASSUME Basis, [Next]_vars, NEW k \in Fault
    PROVE  faults'[k] >= faults[k]
<1> USE DEF Basis, TypeOK
<1>1. ASSUME NEW f \in Fault, Spend(f) PROVE faults'[k] >= faults[k]
  BY <1>1 DEF Spend
<1>2. CASE Failure
  BY <1>1, <1>2, FaultKinds DEF Failure, SendLost, RequestDies, RouteLost, TxFault, Crash,
     LeaseLost, RedisLoses, CloseWindow
<1>3. Next => Failure \/ faults' = faults
  BY DEF Next, Request, GetVoucher, WarmUp, RunScript, Send, Purchase, BuyCheck, BuySave,
     Consume, Deliver, Route, RouteDisabled, Ack, CreateOrder, TryLock, TryLockTimeout,
     TxCount, TxDeduct, TxSave, Unlock, Reconcile, ReconStart, ReconCheck, ReconReadDb,
     ReconReadRedis, ReconFix, LeaseExpires, envVars
<1>4. UNCHANGED vars => faults' = faults
  BY DEF vars, envVars
<1> QED BY <1>2, <1>3, <1>4

\* As long as no lease has been lost none was lost before or is being lost.
LEMMA OnlyLeaseLost ==
    ASSUME Basis, [Next]_vars, faults'["lease"] = 0
    PROVE  faults["lease"] = 0 /\ ~\E u \in User : LeaseLost(u)
<1>1. faults["lease"] = 0
  BY FaultsGrow, FaultKinds DEF Basis, TypeOK
<1>2. ~\E u \in User : LeaseLost(u)
  BY <1>1, FaultKinds DEF LeaseLost, Spend, Basis, TypeOK
<1> QED BY <1>1, <1>2

\* A step of a thread inside its user's lock.
LEMMA CreateOrderApart ==
    ASSUME Basis, Apart, faults["lease"] = 0, NEW t \in Thread,
           CreateOrder(t) \/ TxFault(t)
    PROVE  Apart'
<1> USE ThreadAssumption DEF Basis, TypeOK, PlaceOK, Working, InLock, Goto, dbVars
<1> SUFFICES ASSUME NEW s \in Thread
             PROVE  /\ pc'[s] \in InLock => lock'[cur'[s]] = s
                    /\ pc'[s] \in {"deduct", "save"} => orders'[cur'[s]] \in {"none", "regular"}
  BY DEF Apart
<1>0. /\ pc[s] \in InLock => cur[s] \in User /\ lock[cur[s]] = s
      /\ pc[s] \in {"deduct", "save"} => orders[cur[s]] \in {"none", "regular"}
      /\ pc[t] \in InLock => cur[t] \in User /\ lock[cur[t]] = t
      /\ pc[t] = "lock" => cur[t] \in User
      /\ s # t => pc'[s] = pc[s] /\ cur'[s] = cur[s]
  <2>1. s # t => pc'[s] = pc[s] /\ cur'[s] = cur[s]
    BY DEF CreateOrder, TryLock, TryLockTimeout, TxCount, TxDeduct, TxSave, Unlock,
           TxFault, Drop
  <2> QED BY <2>1 DEF Apart
<1>1. CASE TryLock(t)
  BY <1>0, <1>1 DEF TryLock
<1>2. CASE TryLockTimeout(t)
  BY <1>0, <1>2 DEF TryLockTimeout, AfterTimeout
<1>3. CASE TxCount(t)
  BY <1>0, <1>3 DEF TxCount, HasOrder
<1>4. CASE TxDeduct(t)
  BY <1>0, <1>4 DEF TxDeduct
<1>5. CASE TxSave(t)
  BY <1>0, <1>5 DEF TxSave
<1>6. CASE Unlock(t)
  BY <1>0, <1>6 DEF Unlock, Released, Held, AfterOk, AfterError
<1>7. CASE TxFault(t)
  BY <1>0, <1>7 DEF TxFault
<1> QED BY <1>1, <1>2, <1>3, <1>4, <1>5, <1>6, <1>7 DEF CreateOrder

\* Every other step.
LEMMA OtherApart ==
    ASSUME Basis, Apart, [Next]_vars, faults["lease"] = 0,
           ~\E u \in User : LeaseLost(u),
           ~\E t \in Thread : CreateOrder(t) \/ TxFault(t)
    PROVE  Apart'
<1> USE ThreadAssumption
    DEF Basis, TypeOK, PlaceOK, Working, InLock, Goto, Apart, dbVars, thrVars, Thread
<1>1. CASE UNCHANGED vars
  BY <1>1 DEF vars
<1>2. ASSUME NEW r \in SeckillReq, Request(r) PROVE Apart'
  BY <1>2 DEF Request, GetVoucher, WarmUp, RunScript, Send
<1>3. ASSUME NEW b \in RegularReq, Purchase(b) PROVE Apart'
  <2>1. CASE BuyCheck(b)
    BY <2>1 DEF BuyCheck
  <2>2. CASE BuySave(b)
    BY <2>2 DEF BuySave
  <2> QED BY <1>3, <2>1, <2>2 DEF Purchase
<1>4. ASSUME NEW c \in Consumer, Consume(c) PROVE Apart'
  <2>1. CASE Deliver(c)
    BY <2>1 DEF Deliver
  <2>2. CASE Route(c) \/ RouteDisabled(c) \/ Ack(c)
    BY <2>2 DEF Route, RouteDisabled, Ack
  <2> QED BY <1>4, <2>1, <2>2 DEF Consume
<1>5. CASE Reconcile
  <2>1. CASE ReconCheck
    BY <2>1 DEF ReconCheck
  <2>2. CASE ReconStart \/ ReconReadDb \/ ReconReadRedis \/ ReconFix
    BY <2>2 DEF ReconStart, ReconReadDb, ReconReadRedis, ReconFix
  <2> QED BY <1>5, <2>1, <2>2 DEF Reconcile
<1>6. ASSUME NEW u \in User, LeaseExpires(u) PROVE Apart'
  BY <1>6 DEF LeaseExpires
<1>7. ASSUME NEW t \in Thread, Crash(t) PROVE Apart'
  <2>1. lock' = [u \in User |-> IF lock[u] = t THEN "dead" ELSE lock[u]]
    BY <1>7 DEF Crash
  <2>2. pc' = [pc EXCEPT ![t] = "idle"] /\ cur' = [cur EXCEPT ![t] = "none"]
        /\ orders' = orders
    BY <1>7 DEF Crash
  <2> QED BY <2>1, <2>2
<1>8. ASSUME NEW r \in SeckillReq, SendLost(r) \/ RequestDies(r) PROVE Apart'
  BY <1>8 DEF SendLost, RequestDies
<1>9. ASSUME NEW c \in Consumer, RouteLost(c) PROVE Apart'
  BY <1>9 DEF RouteLost
<1>10. CASE RedisLoses \/ CloseWindow
  BY <1>10 DEF RedisLoses, CloseWindow
<1> QED BY <1>1, <1>2, <1>3, <1>4, <1>5, <1>6, <1>7, <1>8, <1>9, <1>10 DEF Next, Failure

\* The lock is exclusive in every reachable state without a lost lease.
LEMMA AlwaysApart == Spec => [](Basis /\ Apart)
<1> DEFINE Inv == Basis /\ Apart
<1>1. Init => Inv
  BY InitBasis DEF Init, Apart, InLock
<1>2. Inv /\ [Next]_vars => Inv'
  <2> SUFFICES ASSUME Inv, [Next]_vars PROVE Apart'
    BY NextBasis
  <2>1. CASE faults'["lease"] # 0
    BY <2>1 DEF Apart
  <2>2. CASE faults'["lease"] = 0
    BY <2>2, OnlyLeaseLost, CreateOrderApart, OtherApart
  <2> QED BY <2>1, <2>2
<1> QED BY <1>1, <1>2, PTL DEF Spec

\* A duplicate key in createVoucherOrder, which rolls a deducted stock back, is
\* the work of the regular endpoint and never of a consumer racing the job.
THEOREM Exclusion == Spec => []OnlyPurchaseCollides
<1>1. Apart => OnlyPurchaseCollides
  BY DEF Apart, OnlyPurchaseCollides, HasOrder
<1> QED BY <1>1, AlwaysApart, PTL

\* Between tryLock and unlock a user has one thread, consumer or job, whatever
\* crashed before (the shared lock:order:{userId}).
THEOREM OneThreadPerUser ==
    Spec => [](faults["lease"] = 0 =>
                  \A s, t \in Thread :
                      pc[s] \in InLock /\ pc[t] \in InLock /\ cur[s] = cur[t] => s = t)
<1>1. Apart => (faults["lease"] = 0 =>
                   \A s, t \in Thread :
                       pc[s] \in InLock /\ pc[t] \in InLock /\ cur[s] = cur[t] => s = t)
  BY DEF Apart
<1> QED BY <1>1, AlwaysApart, PTL

-----------------------------------------------------------------------------
(* No lock is forgotten *)

\* A user lock that is not the one of a crashed holder belongs to a thread that is
\* inside for this user and will unlock, the row to the thread about to commit.
HeldByWorker ==
    /\ \A u \in User : lock[u] \in Thread => cur[lock[u]] = u /\ pc[lock[u]] \in InLock
    /\ rowOwner # "free" => pc[rowOwner] = "save"

\* The steps of a thread inside the work of its user.
LEMMA ThreadHeld ==
    ASSUME Basis, HeldByWorker, NEW t \in Thread, CreateOrder(t) \/ TxFault(t) \/ Crash(t)
    PROVE  HeldByWorker'
<1> USE ThreadAssumption
    DEF Basis, TypeOK, PlaceOK, RowOK, HeldByWorker, InLock, Working, Goto, dbVars, Thread
<1>1. CASE TryLock(t)
  BY <1>1 DEF TryLock
<1>2. CASE TryLockTimeout(t)
  BY <1>2 DEF TryLockTimeout, AfterTimeout, Drop
<1>3. CASE TxCount(t)
  BY <1>3 DEF TxCount
<1>4. CASE TxDeduct(t)
  <2>1. /\ pc[t] = "deduct" /\ rowOwner = "free" /\ UNCHANGED <<lock, cur>>
        /\ \/ rowOwner' = t /\ pc' = [pc EXCEPT ![t] = "save"]
           \/ rowOwner' = "free" /\ pc' = [pc EXCEPT ![t] = "unlock"]
    BY <1>4 DEF TxDeduct
  <2>2. \A s \in Thread : pc[s] \in InLock => pc'[s] \in InLock
    BY <2>1
  <2>3. rowOwner' # "free" => pc'[rowOwner'] = "save"
    BY <2>1
  <2>4. \A u \in User : lock'[u] \in Thread => cur'[lock'[u]] = u /\ pc'[lock'[u]] \in InLock
    BY <2>1, <2>2
  <2> QED BY <2>3, <2>4
<1>5. CASE TxSave(t)
  BY <1>5 DEF TxSave
<1>6. CASE Unlock(t)
  BY <1>6 DEF Unlock, Released, Held, AfterOk, AfterError, Drop
<1>7. CASE TxFault(t)
  BY <1>7 DEF TxFault
<1>8. CASE Crash(t)
  <2>1. /\ \A u \in User : lock'[u] = IF lock[u] = t THEN "dead" ELSE lock[u]
        /\ rowOwner' = IF rowOwner = t THEN "free" ELSE rowOwner
        /\ \A s \in Thread : s # t => pc'[s] = pc[s] /\ cur'[s] = cur[s]
    BY <1>8 DEF Crash
  <2> QED BY <2>1
<1> QED BY <1>1, <1>2, <1>3, <1>4, <1>5, <1>6, <1>7, <1>8 DEF CreateOrder

\* Every other step moves no thread that holds anything.
LEMMA OtherHeld ==
    ASSUME Basis, HeldByWorker, [Next]_vars,
           ~\E t \in Thread : CreateOrder(t) \/ TxFault(t) \/ Crash(t)
    PROVE  HeldByWorker'
<1> USE ThreadAssumption
    DEF Basis, TypeOK, PlaceOK, HeldByWorker, InLock, Working, Goto, dbVars, thrVars, Thread
<1>1. CASE UNCHANGED vars
  BY <1>1 DEF vars
<1>2. ASSUME NEW r \in SeckillReq, Request(r) \/ SendLost(r) \/ RequestDies(r)
      PROVE  HeldByWorker'
  BY <1>2 DEF Request, GetVoucher, WarmUp, RunScript, Send, SendLost, RequestDies
<1>3. ASSUME NEW b \in RegularReq, Purchase(b) PROVE HeldByWorker'
  BY <1>3 DEF Purchase, BuyCheck, BuySave
<1>4. ASSUME NEW c \in Consumer, Consume(c) \/ RouteLost(c) PROVE HeldByWorker'
  <2>1. CASE Deliver(c)
    BY <2>1 DEF Deliver
  <2>2. CASE Route(c) \/ RouteDisabled(c) \/ RouteLost(c) \/ Ack(c)
    BY <2>2 DEF Route, RouteDisabled, RouteLost, Ack
  <2> QED BY <1>4, <2>1, <2>2 DEF Consume
<1>5. CASE Reconcile
  <2>1. CASE ReconCheck
    BY <2>1 DEF ReconCheck
  <2>2. CASE ReconStart \/ ReconReadDb \/ ReconReadRedis \/ ReconFix
    BY <2>2 DEF ReconStart, ReconReadDb, ReconReadRedis, ReconFix
  <2> QED BY <1>5, <2>1, <2>2 DEF Reconcile
<1>6. ASSUME NEW u \in User, LeaseExpires(u) \/ LeaseLost(u) PROVE HeldByWorker'
  BY <1>6 DEF LeaseExpires, LeaseLost
<1>7. CASE RedisLoses \/ CloseWindow
  BY <1>7 DEF RedisLoses, CloseWindow
<1> QED BY <1>1, <1>2, <1>3, <1>4, <1>5, <1>6, <1>7 DEF Next, Failure

\* Neither an exception, a rollback, a lost lease nor a crash leaves a user lock or
\* the row lock behind: what is held is held by a thread that is about to let go,
\* or waits for the lease of a crashed holder to end.
THEOREM NoLockForgotten == Spec => []HeldByWorker
<1> DEFINE Inv == Basis /\ HeldByWorker
<1>1. Init => Inv
  BY InitBasis, ThreadAssumption DEF Init, HeldByWorker, Thread
<1>2. Inv /\ [Next]_vars => Inv'
  BY NextBasis, ThreadHeld, OtherHeld
<1> QED BY <1>1, <1>2, PTL DEF Spec

-----------------------------------------------------------------------------
(* Admission without the job *)

\* Before the stock key exists nobody has been admitted, so nothing can have been
\* sold and every request that is about to warm the key has read the full stock.
Untouched ==
    /\ redisUsers = {}
    /\ dbStock = Stock
    /\ \A m \in Message : queue[m] = 0
    /\ \A c \in Consumer : pc[c] = "idle"
    /\ \A r \in SeckillReq :
          rpc[r] # "send" /\ (rpc[r] = "warm" => seen[r] = Stock)

\* While the job is off and Redis keeps its keys: either nothing has begun, or
\* the counter and the admitted users share the stock.
Counting ==
    /\ pc[Recon] = "idle"
    /\ redisStock = NoKey => Untouched
    /\ redisStock # NoKey => redisStock + Cardinality(redisUsers) = Stock

Admission == ~ReconciliationEnabled /\ faults["redis"] = 0 => Counting

\* Counting survives a step that leaves Redis alone, keeps the job idle, and
\* before the first admission neither sends, consumes nor sells.
LEMMA RedisAlone ==
    ASSUME Counting, UNCHANGED redisVars, pc'[Recon] = "idle",
           redisStock = NoKey => Untouched'
    PROVE  Counting'
BY DEF Counting, redisVars

\* The request threads.
LEMMA RequestCounting ==
    ASSUME Basis, Counting, NEW r \in SeckillReq,
           Request(r) \/ SendLost(r) \/ RequestDies(r)
    PROVE  Counting'
<1> USE NumberAssumption, RequestAssumption
        DEF Basis, TypeOK, redisVars, dbVars, mqVars, reqVars, thrVars, recVars, envVars
<1>1. CASE GetVoucher(r)
  BY <1>1, RedisAlone DEF GetVoucher, Counting, Untouched
<1>2. CASE WarmUp(r)
  <2>1. CASE redisStock = NoKey
    <3>1. redisStock' = Stock /\ redisUsers' = {} /\ pc' = pc
      BY <1>2, <2>1 DEF WarmUp, WarmStock, Counting, Untouched
    <3>2. redisStock' + Cardinality(redisUsers') = Stock /\ redisStock' # NoKey
      BY <3>1, FS_EmptySet
    <3> QED BY <3>1, <3>2 DEF Counting
  <2>2. CASE redisStock # NoKey
    BY <1>2, <2>2 DEF WarmUp, WarmStock, Counting
  <2> QED BY <2>1, <2>2
<1>3. CASE RunScript(r)
  <2>1. CASE ScriptResult(UserOf[r]) = 0
    <3>1. /\ redisStock > 0 /\ UserOf[r] \notin redisUsers /\ pc' = pc
          /\ redisStock' = redisStock - 1
          /\ redisUsers' = redisUsers \cup {UserOf[r]}
      BY <1>3, <2>1 DEF RunScript, ScriptResult
    <3>2. IsFiniteSet(redisUsers)
      BY FS_Subset, UserAssumption
    <3>3. Cardinality(redisUsers') = Cardinality(redisUsers) + 1
      BY <3>1, <3>2, FS_AddElement
    <3>4. Cardinality(redisUsers) \in Nat
      BY <3>2, FS_CardinalityType
    <3> QED BY <3>1, <3>3, <3>4 DEF Counting
  <2>2. CASE ScriptResult(UserOf[r]) # 0
    BY <1>3, <2>2, RedisAlone DEF RunScript, Counting, Untouched
  <2> QED BY <2>1, <2>2
<1>4. CASE Send(r) \/ SendLost(r)
  BY <1>4, RedisAlone DEF Send, SendLost, Counting, Untouched
<1>5. CASE RequestDies(r)
  BY <1>5, RedisAlone DEF RequestDies, Counting, Untouched
<1> QED BY <1>1, <1>2, <1>3, <1>4, <1>5 DEF Request

\* A consumer, which has nothing to do before the first admission.
LEMMA ConsumerCounting ==
    ASSUME Basis, Counting, NEW c \in Consumer,
           Consume(c) \/ RouteLost(c) \/ TxFault(c) \/ Crash(c)
    PROVE  Counting'
<1> USE ThreadAssumption
    DEF Basis, TypeOK, redisVars, dbVars, mqVars, reqVars, thrVars, recVars, envVars,
        Thread, Goto
<1>1. redisStock # NoKey
  <2>1. Deliver(c) => redisStock # NoKey
    BY DEF Deliver, Counting, Untouched
  <2>2. ~Deliver(c) => pc[c] # "idle"
    BY DEF Consume, CreateOrder, TryLock, TryLockTimeout, TxCount, TxDeduct, TxSave,
           Unlock, Route, RouteDisabled, RouteLost, Ack, TxFault, Crash
  <2> QED BY <2>1, <2>2 DEF Counting, Untouched
<1>2. UNCHANGED redisVars /\ pc'[Recon] = pc[Recon]
  BY DEF Consume, Deliver, CreateOrder, TryLock, TryLockTimeout, TxCount, TxDeduct,
         TxSave, Unlock, Route, RouteDisabled, RouteLost, Ack, TxFault, Crash
<1> QED BY <1>1, <1>2, RedisAlone DEF Counting

\* Everything else that may still happen while the job is off.
LEMMA OtherCounting ==
    ASSUME Basis, Counting,
           \/ \E b \in RegularReq : Purchase(b)
           \/ \E u \in User : LeaseExpires(u) \/ LeaseLost(u)
           \/ CloseWindow
           \/ UNCHANGED vars
    PROVE  Counting'
<1> USE DEF redisVars, dbVars, mqVars, reqVars, thrVars, recVars, envVars
<1>1. UNCHANGED <<redisVars, queue, rpc, seen, pc, dbStock>>
  BY DEF Purchase, BuyCheck, BuySave, LeaseExpires, LeaseLost, CloseWindow, vars
<1> QED BY <1>1 DEF Counting, Untouched

\* The job does not start, and an idle thread neither fails nor crashes.
LEMMA JobStaysIdle ==
    ASSUME pc[Recon] = "idle", ~ReconciliationEnabled
    PROVE  ~Reconcile /\ ~TxFault(Recon) /\ ~Crash(Recon)
BY DEF Reconcile, ReconStart, ReconCheck, CreateOrder, TryLock, TryLockTimeout, TxCount,
       TxDeduct, TxSave, Unlock, ReconReadDb, ReconReadRedis, ReconFix, TxFault, Crash

\* As long as Redis has lost no key it lost none before and is losing none.
LEMMA RedisIntact ==
    ASSUME Basis, [Next]_vars, faults'["redis"] = 0
    PROVE  faults["redis"] = 0 /\ ~RedisLoses
<1>1. faults["redis"] = 0
  BY FaultsGrow, FaultKinds DEF Basis, TypeOK
<1>2. ~RedisLoses
  BY <1>1, FaultKinds DEF RedisLoses, Spend, Basis, TypeOK
<1> QED BY <1>1, <1>2

\* With the job off and Redis intact the script admits exactly the stock,
\* whatever stocks the requests read before they warmed the key.
THEOREM ExactAdmission == Spec => []RedisConserved
<1> DEFINE Inv == Basis /\ Admission
<1>1. Init => Inv
  <2> SUFFICES ASSUME Init PROVE Counting
    BY InitBasis DEF Admission
  <2>1. redisStock = NoKey => Untouched
    BY ThreadAssumption DEF Init, Untouched, Thread
  <2>2. redisStock # NoKey => redisStock + Cardinality(redisUsers) = Stock
    BY FS_EmptySet, NumberAssumption DEF Init
  <2> QED BY <2>1, <2>2, ThreadAssumption DEF Init, Counting, Thread
<1>2. Inv /\ [Next]_vars => Inv'
  <2> SUFFICES ASSUME Inv, [Next]_vars, ~ReconciliationEnabled, faults'["redis"] = 0
               PROVE  Counting'
    BY NextBasis DEF Admission
  <2>1. Counting /\ ~RedisLoses
    BY RedisIntact DEF Admission
  <2>2. ~Reconcile /\ ~TxFault(Recon) /\ ~Crash(Recon)
    BY <2>1, JobStaysIdle DEF Counting
  <2>3. CASE Failure
    BY <2>1, <2>2, <2>3, RequestCounting, ConsumerCounting, OtherCounting DEF Failure, Thread
  <2>4. CASE ~Failure
    BY <2>1, <2>2, <2>4, RequestCounting, ConsumerCounting, OtherCounting DEF Next
  <2> QED BY <2>3, <2>4
<1>3. Inv => RedisConserved
  BY DEF Admission, Counting, Untouched, RedisConserved
<1> QED BY <1>1, <1>2, <1>3, PTL DEF Spec
-----------------------------------------------------------------------------
(* An order that was sent is kept by someone *)

\* A consumer that leaves the transaction without an exception leaves an order or
\* an empty stock behind.
Decided ==
    \A c \in Consumer : pc[c] = "unlock" => HasOrder(cur[c]) \/ dbStock = 0

Kept(u) == HasOrder(u) \/ u \in dlq \/ OnItsWay(u) \/ dbStock = 0

Tracked ==
    DeadLetterEnabled /\ faults["mq"] = 0 =>
        \A r \in SeckillReq : rpc[r] = "ok" => Kept(UserOf[r])

\* A consumer moves by a step of its own only.
LEMMA ConsumerMoves ==
    ASSUME Basis, [Next]_vars, NEW c \in Consumer
    PROVE  \/ pc'[c] = pc[c] /\ cur'[c] = cur[c]
           \/ Consume(c) \/ RouteLost(c) \/ TxFault(c) \/ Crash(c)
<1> DEFINE Still == pc'[c] = pc[c] /\ cur'[c] = cur[c]
<1> USE ThreadAssumption DEF Basis, TypeOK, Goto, Drop, thrVars, Thread
<1>1. UNCHANGED vars => Still
  BY DEF vars
<1>2. ASSUME NEW t \in Thread, t # c, CreateOrder(t) \/ TxFault(t) \/ Crash(t) PROVE Still
  BY <1>2 DEF CreateOrder, TryLock, TryLockTimeout, TxCount, TxDeduct, TxSave, Unlock,
              TxFault, Crash
<1>3. ASSUME NEW d \in Consumer, d # c, Consume(d) \/ RouteLost(d) PROVE Still
  <2>1. CASE Deliver(d)
    BY <1>3, <2>1 DEF Deliver
  <2>2. CASE Route(d) \/ RouteDisabled(d) \/ RouteLost(d) \/ Ack(d)
    BY <1>3, <2>2 DEF Route, RouteDisabled, RouteLost, Ack
  <2> QED BY <1>2, <1>3, <2>1, <2>2 DEF Consume
<1>4. Reconcile => Still
  <2>1. ReconStart \/ ReconCheck \/ ReconReadDb \/ ReconReadRedis \/ ReconFix => Still
    BY DEF ReconStart, ReconCheck, ReconReadDb, ReconReadRedis, ReconFix
  <2> QED BY <1>2, <2>1 DEF Reconcile
<1>5. ASSUME NEW r \in SeckillReq, Request(r) \/ SendLost(r) \/ RequestDies(r) PROVE Still
  BY <1>5 DEF Request, GetVoucher, WarmUp, RunScript, Send, SendLost, RequestDies
<1>6. ASSUME NEW b \in RegularReq, Purchase(b) PROVE Still
  BY <1>6 DEF Purchase, BuyCheck, BuySave
<1>7. ASSUME NEW u \in User, LeaseExpires(u) \/ LeaseLost(u) PROVE Still
  BY <1>7 DEF LeaseExpires, LeaseLost
<1>8. RedisLoses \/ CloseWindow => Still
  BY DEF RedisLoses, CloseWindow
<1> QED BY <1>1, <1>2, <1>3, <1>4, <1>5, <1>6, <1>7, <1>8 DEF Next, Failure

\* An order stays, and so does an empty stock.
LEMMA OutcomeStays ==
    ASSUME Basis, [Next]_vars
    PROVE  /\ \A u \in User : orders[u] # "none" => orders'[u] # "none"
           /\ dbStock = 0 => dbStock' = 0
<1>1. CASE dbStock' = dbStock /\ orders' = orders
  BY <1>1
<1>2. ASSUME NEW u \in User, SaleTo(u) \/ GrantTo(u)
      PROVE  /\ \A v \in User : orders[v] # "none" => orders'[v] # "none"
             /\ dbStock = 0 => dbStock' = 0
  BY <1>2 DEF SaleTo, GrantTo, Basis, TypeOK
<1> QED BY <1>1, <1>2, DatabaseStep

\* A copy leaves the queue only into the hands of a consumer, and a dead letter
\* stays.
LEMMA CopyStays ==
    ASSUME Basis, [Next]_vars
    PROVE  /\ \A m \in Message :
                 queue[m] > 0 => \/ queue'[m] > 0
                                 \/ \E c \in Consumer : cur'[c] = m.user /\ pc'[c] = "lock"
           /\ dlq \subseteq dlq'
<1> DEFINE Stays == /\ \A m \in Message : queue[m] > 0 => queue'[m] > 0
                    /\ dlq \subseteq dlq'
<1> USE ThreadAssumption DEF Basis, TypeOK, Goto, mqVars, Thread
<1>1. ASSUME NEW m \in Message, Put(m), dlq' = dlq PROVE Stays
  BY <1>1 DEF Put
<1>2. ASSUME NEW c \in Consumer, Deliver(c)
      PROVE  /\ \A m \in Message :
                   queue[m] > 0 => \/ queue'[m] > 0
                                   \/ cur'[c] = m.user /\ pc'[c] = "lock"
             /\ dlq \subseteq dlq'
  <2> PICK m \in Message : /\ queue' = [queue EXCEPT ![m] = @ - 1]
                           /\ cur' = [cur EXCEPT ![c] = m.user]
    BY <1>2 DEF Deliver
  <2>1. cur'[c] = m.user /\ pc'[c] = "lock" /\ dlq' = dlq
    BY <1>2 DEF Deliver
  <2>2. \A n \in Message : n # m => queue'[n] = queue[n]
    OBVIOUS
  <2> QED BY <2>1, <2>2
<1>3. ASSUME NEW c \in Consumer, Route(c) PROVE Stays
  <2>1. CASE retry[c] >= MaxRetries
    BY <1>3, <2>1 DEF Route
  <2>2. CASE ~(retry[c] >= MaxRetries)
    <3>1. [user |-> cur[c], retry |-> retry[c] + 1] \in Message
      BY <1>3, <2>2, NumberAssumption DEF Route, Message, PlaceOK, Working
    <3> QED BY <1>1, <1>3, <2>2, <3>1 DEF Route
  <2> QED BY <2>1, <2>2
<1>4. ASSUME NEW t \in Thread, Crash(t) PROVE Stays
  <2>1. CASE t = Recon
    BY <1>4, <2>1 DEF Crash
  <2>2. CASE t \in Consumer
    <3>1. [user |-> cur[t], retry |-> retry[t]] \in Message
      BY <1>4, <2>2 DEF Crash, Message, PlaceOK, Working
    <3> QED BY <1>1, <1>4, <2>2, <3>1 DEF Crash
  <2> QED BY <2>1, <2>2
<1>5. ASSUME NEW r \in SeckillReq, Send(r) PROVE Stays
  <2>1. [user |-> UserOf[r], retry |-> 0] \in Message
    BY RequestAssumption, NumberAssumption DEF Message
  <2> QED BY <1>1, <1>5, <2>1 DEF Send
<1>6. ASSUME NEW t \in Thread, CreateOrder(t) \/ TxFault(t) PROVE Stays
  BY <1>6 DEF CreateOrder, TryLock, TryLockTimeout, TxCount, TxDeduct, TxSave, Unlock, TxFault
<1>7. ASSUME NEW c \in Consumer, RouteDisabled(c) \/ RouteLost(c) \/ Ack(c) PROVE Stays
  BY <1>7 DEF RouteDisabled, RouteLost, Ack
<1>8. ReconStart \/ ReconCheck \/ ReconReadDb \/ ReconReadRedis \/ ReconFix => Stays
  BY DEF ReconStart, ReconCheck, ReconReadDb, ReconReadRedis, ReconFix
<1>9. ASSUME NEW r \in SeckillReq,
             GetVoucher(r) \/ WarmUp(r) \/ RunScript(r) \/ SendLost(r) \/ RequestDies(r)
      PROVE  Stays
  BY <1>9 DEF GetVoucher, WarmUp, RunScript, SendLost, RequestDies
<1>10. ASSUME NEW b \in RegularReq, Purchase(b) PROVE Stays
  BY <1>10 DEF Purchase, BuyCheck, BuySave
<1>11. ASSUME NEW u \in User, LeaseExpires(u) \/ LeaseLost(u) PROVE Stays
  BY <1>11 DEF LeaseExpires, LeaseLost
<1>12. RedisLoses \/ CloseWindow \/ UNCHANGED vars => Stays
  BY DEF RedisLoses, CloseWindow, vars
<1> HIDE DEF Stays
<1>13. Stays \/ \E c \in Consumer : Deliver(c)
  BY <1>3, <1>4, <1>5, <1>6, <1>7, <1>8, <1>9, <1>10, <1>11, <1>12
     DEF Next, Request, Consume, Reconcile, Failure
<1> QED BY <1>2, <1>13 DEF Stays
\* The database decides before a consumer leaves the transaction.
LEMMA DecidedStep ==
    ASSUME Basis, Decided, [Next]_vars
    PROVE  Decided'
<1> USE ThreadAssumption DEF Basis, TypeOK, PlaceOK, Working, Goto, Thread
<1> SUFFICES ASSUME NEW c \in Consumer, pc'[c] = "unlock"
             PROVE  orders'[cur'[c]] # "none" \/ dbStock' = 0
  BY DEF Decided, HasOrder
<1>1. CASE pc'[c] = pc[c] /\ cur'[c] = cur[c]
  BY <1>1, OutcomeStays DEF Decided, HasOrder
<1>2. CASE Consume(c) \/ RouteLost(c) \/ TxFault(c) \/ Crash(c)
  <2>1. TxCount(c) \/ TxDeduct(c) \/ TxSave(c)
    <3>1. ~(Deliver(c) \/ Route(c) \/ RouteDisabled(c) \/ RouteLost(c) \/ Ack(c))
      BY DEF Deliver, Route, RouteDisabled, RouteLost, Ack
    <3>2. ~(TryLock(c) \/ TryLockTimeout(c) \/ Unlock(c) \/ TxFault(c) \/ Crash(c))
      BY DEF TryLock, TryLockTimeout, AfterTimeout, Unlock, AfterOk, AfterError, TxFault, Crash
    <3> QED BY <1>2, <3>1, <3>2 DEF Consume, CreateOrder
  <2>2. CASE TxCount(c)
    BY <2>2, OutcomeStays DEF TxCount, HasOrder
  <2>3. CASE TxDeduct(c)
    BY <2>3 DEF TxDeduct, InStock
  <2>4. CASE TxSave(c)
    BY <2>4 DEF TxSave, HasOrder
  <2> QED BY <2>1, <2>2, <2>3, <2>4
<1> QED BY <1>1, <1>2, ConsumerMoves

\* As long as the broker has lost nothing it lost nothing before and is losing
\* nothing.
LEMMA BrokerIntact ==
    ASSUME Basis, [Next]_vars, faults'["mq"] = 0
    PROVE  /\ faults["mq"] = 0
           /\ \A r \in SeckillReq : ~SendLost(r)
           /\ \A c \in Consumer : ~RouteLost(c)
<1>1. faults["mq"] = 0
  BY FaultsGrow, FaultKinds DEF Basis, TypeOK
<1>2. ~Spend("mq")
  BY <1>1, FaultKinds DEF Spend, Basis, TypeOK
<1> QED BY <1>1, <1>2 DEF SendLost, RouteLost

\* A consumer with an order in hand keeps it, or hands it to the table, the dead
\* letters or a queue, before it comes to acknowledge it.
LEMMA HandOver ==
    ASSUME Basis, Decided, DeadLetterEnabled, NEW c \in Consumer, NEW u \in User,
           cur[c] = u, pc[c] \notin {"idle", "ack"},
           Consume(c) \/ TxFault(c) \/ Crash(c)
    PROVE  Kept(u)'
<1> USE ThreadAssumption
    DEF Basis, TypeOK, PlaceOK, Working, Goto, Kept, OnItsWay, dbVars, mqVars, Thread
<1>1. CASE Deliver(c) \/ RouteDisabled(c) \/ Ack(c)
  BY <1>1 DEF Deliver, RouteDisabled, Ack
<1>2. CASE TryLock(c) \/ TryLockTimeout(c)
  BY <1>2 DEF TryLock, TryLockTimeout, AfterTimeout, Drop
<1>3. CASE TxCount(c) \/ TxDeduct(c) \/ TxSave(c) \/ TxFault(c)
  <2>1. cur'[c] = u /\ pc'[c] \in {"deduct", "save", "unlock", "unlock_err"}
    BY <1>3 DEF TxCount, TxDeduct, TxSave, TxFault
  <2> QED BY <2>1
<1>4. CASE Unlock(c)
  <2>1. CASE Held(c) /\ pc[c] = "unlock"
    BY <1>4, <2>1 DEF Unlock, Decided, HasOrder
  <2>2. CASE ~(Held(c) /\ pc[c] = "unlock")
    BY <1>4, <2>2 DEF Unlock, AfterError, Drop
  <2> QED BY <2>1, <2>2
<1>5. CASE Route(c)
  <2>1. CASE retry[c] >= MaxRetries
    BY <1>5, <2>1 DEF Route
  <2>2. CASE ~(retry[c] >= MaxRetries)
    <3> DEFINE copy == [user |-> u, retry |-> retry[c] + 1]
    <3>1. copy \in Message /\ copy.user = u
      BY <1>5, <2>2, NumberAssumption DEF Route, Message
    <3>2. queue'[copy] > 0
      BY <1>5, <2>2, <3>1 DEF Route, Put
    <3> QED BY <3>1, <3>2
  <2> QED BY <2>1, <2>2
<1>6. CASE Crash(c)
  <2> DEFINE copy == [user |-> u, retry |-> retry[c]]
  <2>1. copy \in Message /\ copy.user = u
    BY <1>6 DEF Crash, Message
  <2>2. queue'[copy] > 0
    BY <1>6, <2>1 DEF Crash, Put
  <2> QED BY <2>1, <2>2
<1> QED BY <1>1, <1>2, <1>3, <1>4, <1>5, <1>6 DEF Consume, CreateOrder

\* No step loses an order that is kept.
LEMMA KeptStays ==
    ASSUME Basis, Decided, [Next]_vars, DeadLetterEnabled, faults'["mq"] = 0,
           NEW u \in User, Kept(u)
    PROVE  Kept(u)'
<1>1. CASE HasOrder(u) \/ dbStock = 0
  BY <1>1, OutcomeStays DEF Kept, HasOrder
<1>2. CASE u \in dlq
  BY <1>2, CopyStays DEF Kept
<1>3. ASSUME NEW m \in Message, m.user = u, queue[m] > 0 PROVE Kept(u)'
  BY <1>3, CopyStays DEF Kept, OnItsWay
<1>4. ASSUME NEW c \in Consumer, cur[c] = u, pc[c] \notin {"idle", "ack"} PROVE Kept(u)'
  <2>1. CASE pc'[c] = pc[c] /\ cur'[c] = cur[c]
    BY <1>4, <2>1 DEF Kept, OnItsWay
  <2>2. CASE Consume(c) \/ TxFault(c) \/ Crash(c)
    BY <1>4, <2>2, HandOver
  <2> QED BY <2>1, <2>2, ConsumerMoves, BrokerIntact
<1> QED BY <1>1, <1>2, <1>3, <1>4 DEF Kept, OnItsWay

\* A request is answered only when its order has reached the queue.
LEMMA SentIsKept ==
    ASSUME Basis, [Next]_vars, faults'["mq"] = 0, NEW r \in SeckillReq,
           rpc'[r] = "ok", rpc[r] # "ok"
    PROVE  Kept(UserOf[r])'
<1>1. Send(r)
  <2> USE DEF reqVars, Basis, TypeOK
  <2>1. ~\E s \in SeckillReq : SendLost(s)
    BY BrokerIntact
  <2>2. ASSUME NEW s \in SeckillReq, Request(s) \/ RequestDies(s) PROVE Send(r)
    <3>1. Send(s) => s = r
      BY DEF Send
    <3>2. ~(GetVoucher(s) \/ WarmUp(s) \/ RunScript(s) \/ RequestDies(s))
      BY DEF GetVoucher, WarmUp, RunScript, RequestDies
    <3> QED BY <2>2, <3>1, <3>2 DEF Request
  <2>3. rpc' # rpc
    OBVIOUS
  <2>4. \E s \in SeckillReq : Request(s) \/ RequestDies(s)
    <3>1. ASSUME NEW t \in Thread PROVE ~(CreateOrder(t) \/ TxFault(t) \/ Crash(t))
      BY <2>3 DEF CreateOrder, TryLock, TryLockTimeout, TxCount, TxDeduct, TxSave, Unlock,
                  TxFault, Crash
    <3>2. ASSUME NEW c \in Consumer
          PROVE  ~(Deliver(c) \/ Route(c) \/ RouteDisabled(c) \/ RouteLost(c) \/ Ack(c))
      BY <2>3 DEF Deliver, Route, RouteDisabled, RouteLost, Ack
    <3>3. ~(ReconStart \/ ReconCheck \/ ReconReadDb \/ ReconReadRedis \/ ReconFix)
      BY <2>3 DEF ReconStart, ReconCheck, ReconReadDb, ReconReadRedis, ReconFix
    <3>4. ASSUME NEW b \in RegularReq PROVE ~Purchase(b)
      BY <2>3 DEF Purchase, BuyCheck, BuySave
    <3>5. ASSUME NEW u \in User PROVE ~(LeaseExpires(u) \/ LeaseLost(u))
      BY <2>3 DEF LeaseExpires, LeaseLost
    <3>6. ~(RedisLoses \/ CloseWindow \/ UNCHANGED vars)
      BY <2>3 DEF RedisLoses, CloseWindow, vars
    <3> QED BY <2>1, <3>1, <3>2, <3>3, <3>4, <3>5, <3>6
            DEF Next, Consume, Reconcile, Failure, Thread
  <2> QED BY <2>2, <2>4
<1> DEFINE copy == [user |-> UserOf[r], retry |-> 0]
<1>2. copy \in Message /\ copy.user = UserOf[r]
  BY RequestAssumption, NumberAssumption DEF Message
<1>3. queue'[copy] > 0
  BY <1>1, <1>2 DEF Send, Put, Basis, TypeOK
<1> QED BY <1>2, <1>3 DEF Kept, OnItsWay

\* Every order that was sent is kept as long as the broker loses nothing.
LEMMA AlwaysTracked == Spec => [](Basis /\ Decided /\ Tracked)
<1> DEFINE Inv == Basis /\ Decided /\ Tracked
<1>1. Init => Inv
  BY InitBasis, ThreadAssumption DEF Init, Decided, Tracked, Thread
<1>2. Inv /\ [Next]_vars => Inv'
  <2> SUFFICES ASSUME Inv, [Next]_vars PROVE Tracked'
    BY NextBasis, DecidedStep
  <2> SUFFICES ASSUME DeadLetterEnabled, faults'["mq"] = 0,
                      NEW r \in SeckillReq, rpc'[r] = "ok"
               PROVE  Kept(UserOf[r])'
    BY DEF Tracked
  <2>1. faults["mq"] = 0 /\ UserOf[r] \in User
    BY BrokerIntact, RequestAssumption
  <2>2. CASE rpc[r] = "ok"
    BY <2>1, <2>2, KeptStays DEF Tracked
  <2>3. CASE rpc[r] # "ok"
    BY <2>3, SentIsKept
  <2> QED BY <2>2, <2>3
<1> QED BY <1>1, <1>2, PTL DEF Spec
-----------------------------------------------------------------------------
(* Who gets an order was admitted *)

\* A request past the script, a copy, a thread at work, a member the job still has
\* to look at and a seckill order: each is about a user in Redis's set.
Traced ==
    /\ \A r \in SeckillReq : rpc[r] \in {"send", "ok"} => UserOf[r] \in redisUsers
    /\ \A m \in Message : queue[m] > 0 => m.user \in redisUsers
    /\ \A t \in Thread : pc[t] \in Working => cur[t] \in redisUsers
    /\ todo \subseteq redisUsers
    /\ Sold \subseteq redisUsers

\* The request threads and the regular endpoint.
LEMMA RequestTraced ==
    ASSUME Basis, Traced,
           \/ \E r \in SeckillReq : Request(r) \/ SendLost(r) \/ RequestDies(r)
           \/ \E b \in RegularReq : Purchase(b)
    PROVE  Traced'
<1> USE RequestAssumption, NumberAssumption
    DEF Basis, TypeOK, Traced, Sold, redisVars, dbVars, mqVars, reqVars, thrVars, recVars
<1>1. ASSUME NEW r \in SeckillReq, GetVoucher(r) PROVE Traced'
  BY <1>1 DEF GetVoucher
<1>2. ASSUME NEW r \in SeckillReq, WarmUp(r) PROVE Traced'
  BY <1>2 DEF WarmUp
<1>3. ASSUME NEW r \in SeckillReq, RunScript(r) PROVE Traced'
  BY <1>3 DEF RunScript
<1>4. ASSUME NEW r \in SeckillReq, Send(r) PROVE Traced'
  BY <1>4 DEF Send, Put
<1>5. ASSUME NEW r \in SeckillReq, SendLost(r) \/ RequestDies(r) PROVE Traced'
  BY <1>5 DEF SendLost, RequestDies
<1>6. ASSUME NEW b \in RegularReq, Purchase(b) PROVE Traced'
  BY <1>6 DEF Purchase, BuyCheck, BuySave, HasOrder
<1> QED BY <1>1, <1>2, <1>3, <1>4, <1>5, <1>6 DEF Request

\* A thread inside the work of its user.
LEMMA ThreadTraced ==
    ASSUME Basis, Traced, NEW t \in Thread, CreateOrder(t) \/ TxFault(t) \/ Crash(t)
    PROVE  Traced'
<1> USE ThreadAssumption
    DEF Basis, TypeOK, PlaceOK, Traced, Working, Goto, redisVars, dbVars, mqVars, reqVars,
        recVars, Thread
<1>1. CASE TryLock(t) \/ TxCount(t) \/ TxDeduct(t) \/ TxFault(t)
  <2>1. /\ pc[t] \in Working /\ cur' = cur
        /\ \E label \in Working : pc' = [pc EXCEPT ![t] = label]
    BY <1>1 DEF TryLock, TxCount, TxDeduct, TxFault
  <2>2. UNCHANGED <<redisUsers, orders, queue, rpc, todo>>
    BY <1>1 DEF TryLock, TxCount, TxDeduct, TxFault
  <2> QED BY <2>1, <2>2 DEF Sold
<1>2. CASE TryLockTimeout(t)
  BY <1>2 DEF TryLockTimeout, AfterTimeout, Drop, Sold
<1>3. CASE TxSave(t)
  <2>1. /\ cur[t] \in redisUsers /\ cur' = cur
        /\ \E label \in Working : pc' = [pc EXCEPT ![t] = label]
    BY <1>3 DEF TxSave
  <2>2. UNCHANGED <<redisUsers, queue, rpc, todo>>
    BY <1>3 DEF TxSave
  <2>3. Sold' \subseteq Sold \cup {cur[t]}
    BY <1>3 DEF TxSave, Sold
  <2> QED BY <2>1, <2>2, <2>3
<1>4. CASE Unlock(t)
  BY <1>4 DEF Unlock, AfterOk, AfterError, Drop, Sold
<1>5. CASE Crash(t)
  <2>1. /\ pc' = [pc EXCEPT ![t] = "idle"]
        /\ todo' \subseteq redisUsers
        /\ UNCHANGED <<redisUsers, orders, rpc>>
    BY <1>5 DEF Crash
  <2>2. ASSUME NEW m \in Message, queue'[m] > 0 PROVE m.user \in redisUsers
    BY <1>5, <2>2 DEF Crash, Put
  <2>3. \A s \in Thread : pc'[s] \in Working => cur'[s] \in redisUsers
    BY <1>5 DEF Crash
  <2> QED BY <2>1, <2>2, <2>3 DEF Sold
<1> QED BY <1>1, <1>2, <1>3, <1>4, <1>5 DEF CreateOrder

\* Everything else, as long as Redis keeps its keys.
LEMMA OtherTraced ==
    ASSUME Basis, Traced,
           \/ \E c \in Consumer :
                 Deliver(c) \/ Route(c) \/ RouteDisabled(c) \/ RouteLost(c) \/ Ack(c)
           \/ ReconStart \/ ReconCheck \/ ReconReadDb \/ ReconReadRedis \/ ReconFix
           \/ \E u \in User : LeaseExpires(u) \/ LeaseLost(u)
           \/ CloseWindow
           \/ UNCHANGED vars
    PROVE  Traced'
<1> USE ThreadAssumption
    DEF Basis, TypeOK, PlaceOK, Traced, Sold, Working, Goto, redisVars, dbVars, mqVars,
        reqVars, thrVars, recVars, Thread
<1>1. ASSUME NEW c \in Consumer, Deliver(c) PROVE Traced'
  <2> PICK m \in Message : /\ queue[m] > 0
                           /\ queue' = [queue EXCEPT ![m] = @ - 1]
                           /\ cur' = [cur EXCEPT ![c] = m.user]
    BY <1>1 DEF Deliver
  <2>1. \A n \in Message : queue'[n] > 0 => queue[n] > 0
    OBVIOUS
  <2>2. \A s \in Thread : pc'[s] \in Working => cur'[s] \in redisUsers
    BY <1>1 DEF Deliver
  <2>3. UNCHANGED <<redisUsers, orders, rpc, todo>>
    BY <1>1 DEF Deliver
  <2> QED BY <2>1, <2>2, <2>3
<1>2. ASSUME NEW c \in Consumer, Route(c) PROVE Traced'
  <2>1. \A m \in Message : queue'[m] > 0 => m.user \in redisUsers
    BY <1>2 DEF Route, Put
  <2>2. \A s \in Thread : pc'[s] \in Working => cur'[s] \in redisUsers
    BY <1>2 DEF Route
  <2>3. UNCHANGED <<redisUsers, orders, rpc, todo>>
    BY <1>2 DEF Route
  <2> QED BY <2>1, <2>2, <2>3
<1>3. ASSUME NEW c \in Consumer, RouteDisabled(c) \/ RouteLost(c) \/ Ack(c) PROVE Traced'
  BY <1>3 DEF RouteDisabled, RouteLost, Ack
<1>4. CASE ReconCheck
  BY <1>4 DEF ReconCheck
<1>5. CASE ReconStart \/ ReconReadDb \/ ReconReadRedis \/ ReconFix
  BY <1>5 DEF ReconStart, ReconReadDb, ReconReadRedis, ReconFix
<1>6. CASE (\E u \in User : LeaseExpires(u) \/ LeaseLost(u)) \/ CloseWindow \/ UNCHANGED vars
  BY <1>6 DEF LeaseExpires, LeaseLost, CloseWindow, vars
<1> QED BY <1>1, <1>2, <1>3, <1>4, <1>5, <1>6

\* As long as Redis loses no key, everything on its way to an order was admitted.
LEMMA AlwaysTraced == Spec => [](Basis /\ (faults["redis"] = 0 => Traced))
<1> DEFINE Inv == Basis /\ (faults["redis"] = 0 => Traced)
<1>1. Init => Inv
  BY InitBasis, ThreadAssumption DEF Init, Traced, Sold, Thread, Working
<1>2. Inv /\ [Next]_vars => Inv'
  <2> SUFFICES ASSUME Inv, [Next]_vars, faults'["redis"] = 0 PROVE Traced'
    BY NextBasis
  <2>1. Traced /\ ~RedisLoses
    BY RedisIntact
  <2> QED BY <2>1, RequestTraced, ThreadTraced, OtherTraced
          DEF Next, Consume, Reconcile, Failure, Thread
<1> QED BY <1>1, <1>2, PTL DEF Spec

\* As long as Redis loses no key, whoever holds a seckill order was admitted by the
\* script: neither retries, nor crashes, nor the job make an order for anyone else.
THEOREM OnlyAdmittedServed == Spec => [](faults["redis"] = 0 => Sold \subseteq redisUsers)
<1>1. (faults["redis"] = 0 => Traced) => (faults["redis"] = 0 => Sold \subseteq redisUsers)
  BY DEF Traced
<1> QED BY <1>1, AlwaysTraced, PTL

\* When every unit is sold and the script admitted no more users than units, every
\* admitted user has an order.
LEMMA SoldOut ==
    ASSUME Basis, StockConserved, RedisConserved, Traced, dbStock = 0,
           ~ReconciliationEnabled, faults["redis"] = 0
    PROVE  \A u \in redisUsers : HasOrder(u)
<1> USE DEF Basis, TypeOK
<1> SUFFICES ASSUME NEW u \in redisUsers PROVE HasOrder(u)
  OBVIOUS
<1>1. redisStock # NoKey /\ redisStock + Cardinality(redisUsers) = Stock
  BY DEF RedisConserved
<1>2. IsFiniteSet(redisUsers) /\ Sold \in SUBSET redisUsers
  BY FS_Subset, UserAssumption DEF Traced
<1>3. Cardinality(redisUsers) \in Nat /\ Cardinality(Sold) \in Nat
  BY <1>2, SoldFinite, FS_CardinalityType
<1>4. Cardinality(redisUsers) <= Cardinality(Sold)
  BY <1>1, <1>3, NumberAssumption DEF StockConserved
<1>5. redisUsers = Sold
  BY <1>2, <1>3, <1>4, FS_Subset
<1> QED BY <1>5 DEF Sold, HasOrder

\* While no publish is lost, the order of a successful request is at every moment
\* made, dead or on its way, for any number of consumers, retries and crashes; and
\* with an untouched counter it never meets an empty stock.
THEOREM NothingIsDropped == Spec => []NothingDropped
<1>1. /\ Basis /\ Tracked /\ StockConserved /\ RedisConserved
      /\ faults["redis"] = 0 => Traced
      => NothingDropped
  <2> SUFFICES ASSUME Basis, Tracked, StockConserved, RedisConserved,
                      faults["redis"] = 0 => Traced,
                      DeadLetterEnabled, faults["mq"] = 0,
                      NEW r \in SeckillReq, rpc[r] = "ok"
               PROVE  \/ HasOrder(UserOf[r]) \/ UserOf[r] \in dlq \/ OnItsWay(UserOf[r])
                      \/ dbStock = 0 /\ (ReconciliationEnabled \/ faults["redis"] > 0)
    BY DEF NothingDropped
  <2>1. Kept(UserOf[r])
    BY DEF Tracked
  <2>2. CASE dbStock = 0 /\ ~ReconciliationEnabled /\ faults["redis"] = 0
    <3>1. UserOf[r] \in redisUsers
      BY <2>2 DEF Traced
    <3> QED BY <2>2, <3>1, SoldOut
  <2>3. faults["redis"] \in Nat
    BY FaultKinds DEF Basis, TypeOK
  <2> QED BY <2>1, <2>2, <2>3 DEF Kept
<1> QED BY <1>1, AlwaysTracked, AlwaysTraced, Conservation, ExactAdmission, PTL
=============================================================================
