-------------------------- MODULE OutboxRelayProofs --------------------------
(***************************************************************************)
(* Proofs about OutboxRelay for every set of orders, every number of       *)
(* retries and every budget of faults.                                     *)
(***************************************************************************)
EXTENDS OutboxRelay, TLAPS

\* A batch is stale in its statuses but not in its retry counts: only the pass
\* that holds the batch counts retries, one row at a time.
BatchFresh ==
    /\ \A row \in batch : row.retries = retries[row.order] /\ row.order \notin current
    /\ \A o, p \in current : o = p

\* The resend being counted is within the limit, and every publish is the
\* request's own, a counted resend, the one being counted, or a lost count.
InFlight(o) == IF o \in current THEN 1 ELSE 0
Own(o)      == IF req[o] \in {"done", "failed"} THEN 1 ELSE 0

Counted ==
    \A o \in Order :
        /\ retries[o] + InFlight(o) <= MaxRetries
        /\ sends[o] <= Own(o) + retries[o] + InFlight(o) + faults["db"] + faults["crash"]

Inv == TypeOK /\ BatchFresh /\ Counted /\ FailedOnlyExhausted

\* Spending a fault counts it and no other kind goes down.
LEMMA SpendCount ==
    ASSUME NEW f \in Fault, faults \in [Fault -> Nat], Spend(f)
    PROVE  /\ faults' \in [Fault -> Nat]
           /\ faults'[f] = faults[f] + 1
           /\ \A g \in Fault : faults'[g] >= faults[g]
BY DEF Spend

\* The kinds of faults the steps spend.
LEMMA FaultKinds ==
    "crash" \in Fault /\ "publish" \in Fault /\ "ack" \in Fault /\ "db" \in Fault
BY DEF Fault

\* No order has been sent.
LEMMA InitInv == Init => Inv
BY MaxRetriesAssumption, FaultKinds
   DEF Init, Inv, TypeOK, BatchFresh, Counted, FailedOnlyExhausted, InFlight, Own

\* Publishing keeps the type of the copies.
LEMMA PublishType ==
    ASSUME TypeOK, NEW o \in Order, NEW e \in BOOLEAN, Publish(o, e)
    PROVE  /\ wire' \subseteq Copy /\ sends' \in [Order -> Nat]
           /\ \A p \in Order : sends'[p] = IF p = o THEN sends[p] + 1 ELSE sends[p]
BY DEF TypeOK, Publish, Copy

\* The request's steps.
LEMMA SendInv ==
    ASSUME Inv, NEW o \in Order,
           Send(o) \/ SaveFails(o) \/ SendThrows(o) \/ BackoffEnds(o)
    PROVE  Inv'
<1> USE FaultKinds, MaxRetriesAssumption
        DEF Inv, TypeOK, BatchFresh, Counted, FailedOnlyExhausted, InFlight, Own,
            rowVars, mqVars, jobVars
<1>1. CASE SaveOutbox(o)
  BY <1>1 DEF SaveOutbox
<1>2. CASE SkipOutbox(o)
  BY <1>2 DEF SkipOutbox
<1>3. CASE SendEntity(o)
  <2>1. Publish(o, TRUE) /\ req' = [req EXCEPT ![o] = "done"]
    BY <1>3 DEF SendEntity
  <2>2. /\ wire' \subseteq Copy /\ sends' \in [Order -> Nat]
        /\ \A p \in Order : sends'[p] = IF p = o THEN sends[p] + 1 ELSE sends[p]
    BY <2>1, PublishType
  <2>3. TypeOK' /\ BatchFresh' /\ FailedOnlyExhausted'
    BY <1>3, <2>1, <2>2 DEF SendEntity
  <2>4. ASSUME NEW p \in Order
        PROVE  /\ retries'[p] + InFlight(p)' <= MaxRetries
               /\ sends'[p] <= Own(p)' + retries'[p] + InFlight(p)'
                                + faults'["db"] + faults'["crash"]
    <3>1. retries' = retries /\ current' = current /\ faults' = faults
      BY <1>3 DEF SendEntity
    <3>2. p = o => Own(p) = 0 /\ Own(p)' = 1
      BY <1>3 DEF SendEntity
    <3>3. p # o => Own(p)' = Own(p)
      BY <2>1
    <3> QED BY <2>2, <3>1, <3>2, <3>3
  <2> QED BY <2>3, <2>4
<1>4. CASE SaveFails(o)
  BY <1>4, SpendCount DEF SaveFails
<1>5. CASE SendThrows(o)
  BY <1>5, SpendCount DEF SendThrows
<1>6. CASE BackoffEnds(o)
  BY <1>6 DEF BackoffEnds
<1> QED BY <1>1, <1>2, <1>3, <1>4, <1>5, <1>6 DEF Send

\* The broker, the callback and the listener.
LEMMA BrokerInv ==
    ASSUME Inv, Broker \/ Callback \/ Listener
                \/ (\E c \in wire : AcceptSilently(c) \/ Refuse(c))
                \/ (\E c \in acks : ConfirmFails(c))
    PROVE  Inv'
<1> USE FaultKinds, MaxRetriesAssumption
        DEF Inv, TypeOK, BatchFresh, Counted, FailedOnlyExhausted, InFlight, Own,
            rowVars, mqVars, jobVars, Copy
<1>1. ASSUME NEW c \in wire, Accept(c) PROVE Inv'
  BY <1>1 DEF Accept
<1>2. ASSUME NEW c \in acks, Confirm(c) PROVE Inv'
  BY <1>2 DEF Confirm
<1>3. ASSUME NEW c \in queue, Listen(c) PROVE Inv'
  BY <1>3 DEF Listen
<1>4. ASSUME NEW c \in wire, AcceptSilently(c) PROVE Inv'
  BY <1>4, SpendCount DEF AcceptSilently
<1>5. ASSUME NEW c \in wire, Refuse(c) PROVE Inv'
  BY <1>5, SpendCount DEF Refuse
<1>6. ASSUME NEW c \in acks, ConfirmFails(c) PROVE Inv'
  BY <1>6, SpendCount DEF ConfirmFails
<1> QED BY <1>1, <1>2, <1>3, <1>4, <1>5, <1>6 DEF Broker, Callback, Listener

\* The relay pass.
LEMMA RelayInv ==
    ASSUME Inv,
           \/ Relay
           \/ \E row \in batch : MarkFails(row) \/ ResendThrows(row)
           \/ UpdateFails
    PROVE  Inv'
<1> USE FaultKinds, MaxRetriesAssumption
        DEF Inv, TypeOK, BatchFresh, Counted, FailedOnlyExhausted, InFlight, Own,
            rowVars, mqVars, jobVars
<1>1. CASE SelectPending
  BY <1>1 DEF SelectPending, DueRows
<1>2. ASSUME NEW row \in batch, MarkFailed(row) PROVE Inv'
  BY <1>2 DEF MarkFailed, Exhausted
<1>3. ASSUME NEW row \in batch, Resend(row) PROVE Inv'
  <2>1. row.order \in Order /\ row.retries \in Nat
    OBVIOUS
  <2>2. Publish(row.order, FALSE)
    BY <1>3 DEF Resend
  <2>3. /\ wire' \subseteq Copy /\ sends' \in [Order -> Nat]
        /\ \A p \in Order :
              sends'[p] = IF p = row.order THEN sends[p] + 1 ELSE sends[p]
    BY <2>1, <2>2, PublishType
  <2>4. TypeOK'
    BY <1>3, <2>1, <2>3 DEF Resend
  <2>5. BatchFresh'
    BY <1>3, <2>1 DEF Resend
  <2>6. Counted'
    BY <1>3, <2>1, <2>3 DEF Resend, Exhausted
  <2> QED BY <1>3, <2>4, <2>5, <2>6 DEF Resend
<1>4. CASE UpdateRetryInfo
  BY <1>4 DEF UpdateRetryInfo
<1>5. ASSUME NEW row \in batch, MarkFails(row) PROVE Inv'
  BY <1>5, SpendCount DEF MarkFails
<1>6. ASSUME NEW row \in batch, ResendThrows(row) PROVE Inv'
  BY <1>6, SpendCount DEF ResendThrows, Exhausted, ToCount
<1>7. CASE UpdateFails
  BY <1>7, SpendCount DEF UpdateFails
<1> QED BY <1>1, <1>2, <1>3, <1>4, <1>5, <1>6, <1>7 DEF Relay

\* A crash keeps the invariant.
LEMMA CrashInv == ASSUME Inv, Crash PROVE Inv'
BY SpendCount, FaultKinds, MaxRetriesAssumption
   DEF Crash, Inv, TypeOK, BatchFresh, Counted, FailedOnlyExhausted, InFlight, Own,
       rowVars

\* Every step keeps the invariant.
LEMMA NextInv == Inv /\ [Next]_vars => Inv'
<1> SUFFICES ASSUME Inv, [Next]_vars PROVE Inv'
  OBVIOUS
<1>1. CASE UNCHANGED vars
  BY <1>1 DEF vars, rowVars, mqVars, jobVars, Inv, TypeOK, BatchFresh, Counted,
              FailedOnlyExhausted, InFlight, Own
<1>2. CASE Next
  BY <1>2, SendInv, BrokerInv, RelayInv, CrashInv DEF Next, Failure
<1> QED BY <1>1, <1>2

\* The variables keep their types.
THEOREM TypeCorrect == Spec => []TypeOK
<1>1. Inv => TypeOK BY DEF Inv
<1> QED BY <1>1, InitInv, NextInv, PTL DEF Spec

\* No stale batch gives a row up early: FAILED means MaxRetries counted resends.
THEOREM GivenUpOnlyExhausted == Spec => []FailedOnlyExhausted
<1>1. Inv => FailedOnlyExhausted BY DEF Inv
<1> QED BY <1>1, InitInv, NextInv, PTL DEF Spec

\* An order is published at most 1 + MaxRetries times, plus once for each count
\* that was lost with a failed update or a crash.
THEOREM BoundedPublishing == Spec => []SendsBounded
<1>1. Inv => SendsBounded
  BY MaxRetriesAssumption, FaultKinds
     DEF Inv, TypeOK, Counted, SendsBounded, InFlight, Own
<1> QED BY <1>1, InitInv, NextInv, PTL DEF Spec

\* What a settled row is: the request is through, the status is no longer PENDING
\* and the pass has let go of it.  Nothing takes any of this back: only a request
\* that starts makes a row PENDING, and only PENDING rows are selected.
LEMMA QuietStep ==
    ASSUME Inv, [Next]_vars, NEW o \in Order, NEW n, Quiet(o, n)
    PROVE  Quiet(o, n)'
<1> USE DEF Inv, TypeOK, Quiet, rowVars, mqVars, jobVars
<1>1. CASE UNCHANGED vars
  BY <1>1 DEF vars
<1>2. ASSUME NEW p \in Order,
             Send(p) \/ SaveFails(p) \/ SendThrows(p) \/ BackoffEnds(p)
      PROVE  Quiet(o, n)'
  <2>1. CASE SaveOutbox(p) \/ SkipOutbox(p)
    BY <2>1 DEF SaveOutbox, SkipOutbox
  <2>2. CASE SendEntity(p)
    BY <2>2 DEF SendEntity, Publish
  <2>3. CASE SaveFails(p) \/ SendThrows(p)
    BY <2>3 DEF SaveFails, SendThrows
  <2>4. CASE BackoffEnds(p)
    BY <2>4 DEF BackoffEnds
  <2> QED BY <1>2, <2>1, <2>2, <2>3, <2>4 DEF Send
<1>3. CASE Broker \/ Callback \/ Listener
           \/ (\E c \in wire : AcceptSilently(c) \/ Refuse(c))
           \/ (\E c \in acks : ConfirmFails(c))
  BY <1>3 DEF Broker, Callback, Listener, Accept, Confirm, Listen, AcceptSilently,
              Refuse, ConfirmFails, Copy
<1>4. CASE SelectPending
  BY <1>4 DEF SelectPending, DueRows
<1>5. ASSUME NEW row \in batch,
             MarkFailed(row) \/ Resend(row) \/ MarkFails(row) \/ ResendThrows(row)
      PROVE  Quiet(o, n)'
  <2>1. row.order \in Order /\ row.order # o
    OBVIOUS
  <2>2. CASE MarkFailed(row) \/ MarkFails(row)
    BY <2>1, <2>2 DEF MarkFailed, MarkFails
  <2>3. CASE Resend(row)
    BY <2>1, <2>3 DEF Resend, Publish
  <2>4. CASE ResendThrows(row)
    BY <2>1, <2>4 DEF ResendThrows
  <2> QED BY <1>5, <2>2, <2>3, <2>4
<1>6. CASE UpdateRetryInfo \/ UpdateFails
  BY <1>6 DEF UpdateRetryInfo, UpdateFails
<1>7. CASE Crash
  BY <1>7 DEF Crash
<1> QED BY <1>1, <1>2, <1>3, <1>4, <1>5, <1>6, <1>7 DEF Next, Relay, Failure

\* An order whose row is settled and out of the batch is never published again,
\* although confirms, stale batches and crashes go on.
THEOREM SettledIsFinal == Spec => SettledStaysQuiet
<1> SUFFICES ASSUME NEW o \in Order, NEW n \in 0..(1 + MaxRetries)
             PROVE  Spec => [](Quiet(o, n) => [](sends[o] = n))
  BY DEF SettledStaysQuiet
<1>1. Inv /\ [Next]_vars /\ Quiet(o, n) => Quiet(o, n)'
  BY QuietStep
<1>2. Quiet(o, n) => sends[o] = n
  BY DEF Quiet
<1> QED BY <1>1, <1>2, InitInv, NextInv, PTL DEF Spec

-----------------------------------------------------------------------------
(* What a row marked SENT, and an order that was created, go back to *)

\* A copy of the order has reached the queue: it is there or the listener had it.
Taken(o) == o \in created \/ o \in dead \/ \E c \in queue : c.order = o

\* Confirms and rows marked SENT have a copy behind them.
Backed ==
    /\ \A c \in acks : Taken(c.order)
    /\ \A o \in Order : status[o] = "SENT" => Taken(o)

\* The only copy with the entity in it is the one the request has published, and only
\* from such a copy an order is created.
OwnCopies ==
    /\ \A c \in wire \cup queue : c.entity => req[c.order] = "done"
    /\ \A o \in created : req[o] = "done"

\* What the broker has taken stays taken: the listener puts a copy on one of two lists.
LEMMA TakenStays ==
    ASSUME TypeOK, [Next]_vars, NEW o \in Order, Taken(o)
    PROVE  Taken(o)'
<1> USE DEF Taken, mqVars
<1>1. ASSUME NEW c \in queue, Listen(c) PROVE Taken(o)'
  BY <1>1 DEF Listen
<1>2. CASE queue \subseteq queue' /\ created' = created /\ dead' = dead
  BY <1>2
<1>3. ASSUME ~\E c \in queue : Listen(c)
      PROVE  queue \subseteq queue' /\ created' = created /\ dead' = dead
  <2>1. CASE UNCHANGED vars
    BY <2>1 DEF vars
  <2>2. ASSUME NEW p \in Order,
               Send(p) \/ SaveFails(p) \/ SendThrows(p) \/ BackoffEnds(p)
        PROVE  UNCHANGED <<queue, created, dead>>
    BY <2>2 DEF Send, SaveOutbox, SkipOutbox, SendEntity, SaveFails, SendThrows, BackoffEnds
  <2>3. ASSUME NEW c \in wire, Accept(c) \/ AcceptSilently(c) \/ Refuse(c)
        PROVE  queue \subseteq queue' /\ created' = created /\ dead' = dead
    BY <2>3 DEF Accept, AcceptSilently, Refuse
  <2>4. ASSUME NEW c \in acks, Confirm(c) \/ ConfirmFails(c)
        PROVE  UNCHANGED <<queue, created, dead>>
    BY <2>4 DEF Confirm, ConfirmFails
  <2>5. CASE SelectPending \/ UpdateRetryInfo \/ UpdateFails
    BY <2>5 DEF SelectPending, UpdateRetryInfo, UpdateFails
  <2>6. ASSUME NEW row \in batch,
               MarkFailed(row) \/ Resend(row) \/ MarkFails(row) \/ ResendThrows(row)
        PROVE  UNCHANGED <<queue, created, dead>>
    BY <2>6 DEF MarkFailed, Resend, MarkFails, ResendThrows
  <2>7. CASE Crash
    BY <2>7 DEF Crash
  <2> QED
    BY <1>3, <2>1, <2>2, <2>3, <2>4, <2>5, <2>6, <2>7
       DEF Next, Relay, Broker, Callback, Listener, Failure
<1> QED BY <1>1, <1>2, <1>3

\* Where new confirms and new SENT rows come from: a confirm follows the copy into
\* the queue, and only a confirm marks a row.
LEMMA BackedStep ==
    ASSUME TypeOK, Backed, [Next]_vars
    PROVE  Backed'
<1> USE DEF TypeOK
<1>1. \A o \in Order : Taken(o) => Taken(o)'
  BY TakenStays
<1>2. CASE /\ \A c \in acks' : c \in acks \/ Taken(c.order)'
           /\ \A o \in Order : status'[o] = "SENT" => status[o] = "SENT" \/ Taken(o)
  BY <1>1, <1>2 DEF Backed, Copy
<1> SUFFICES /\ \A c \in acks' : c \in acks \/ Taken(c.order)'
             /\ \A o \in Order : status'[o] = "SENT" => status[o] = "SENT" \/ Taken(o)
  BY <1>2
<1> USE DEF rowVars, mqVars
<1>3. CASE UNCHANGED vars
  BY <1>3 DEF vars
<1>4. ASSUME NEW p \in Order, SaveOutbox(p)
      PROVE  /\ acks' = acks
             /\ \A o \in Order : status'[o] = "SENT" => status[o] = "SENT"
  BY <1>4 DEF SaveOutbox
<1>5. ASSUME NEW p \in Order,
             SkipOutbox(p) \/ SendEntity(p) \/ SaveFails(p) \/ SendThrows(p) \/ BackoffEnds(p)
      PROVE  acks' = acks /\ status' = status
  BY <1>5 DEF SkipOutbox, SendEntity, SaveFails, SendThrows, BackoffEnds
<1>6. ASSUME NEW d \in wire, Accept(d)
      PROVE  status' = status /\ \A c \in acks' : c \in acks \/ Taken(c.order)'
  <2>1. status' = status /\ d \in queue' /\ acks' \subseteq acks \cup {d}
    BY <1>6 DEF Accept
  <2> QED BY <2>1 DEF Taken
<1>7. ASSUME NEW d \in wire, AcceptSilently(d) \/ Refuse(d)
      PROVE  acks' = acks /\ status' = status
  BY <1>7 DEF AcceptSilently, Refuse
<1>8. ASSUME NEW d \in acks, Confirm(d)
      PROVE  /\ acks' \subseteq acks
             /\ \A o \in Order : status'[o] = "SENT" => status[o] = "SENT" \/ Taken(o)
  BY <1>8 DEF Confirm, Backed, Copy
<1>9. ASSUME NEW d \in acks, ConfirmFails(d)
      PROVE  acks' \subseteq acks /\ status' = status
  BY <1>9 DEF ConfirmFails
<1>10. CASE SelectPending \/ UpdateRetryInfo \/ UpdateFails
  BY <1>10 DEF SelectPending, UpdateRetryInfo, UpdateFails
<1>11. ASSUME NEW row \in batch, MarkFailed(row)
       PROVE  /\ acks' = acks
              /\ \A o \in Order : status'[o] = "SENT" => status[o] = "SENT"
  BY <1>11 DEF MarkFailed
<1>12. ASSUME NEW row \in batch, Resend(row) \/ MarkFails(row) \/ ResendThrows(row)
       PROVE  acks' = acks /\ status' = status
  BY <1>12 DEF Resend, MarkFails, ResendThrows
<1>13. ASSUME NEW c \in queue, Listen(c) PROVE acks' = acks /\ status' = status
  BY <1>13 DEF Listen
<1>14. CASE Crash
  BY <1>14 DEF Crash
<1> QED BY <1>3, <1>4, <1>5, <1>6, <1>7, <1>8, <1>9, <1>10, <1>11, <1>12, <1>13, <1>14
        DEF Next, Send, Relay, Broker, Callback, Listener, Failure

\* A row is marked SENT only when a copy of its order has reached the queue: whatever
\* is lost, resent or confirmed late, the callback of MqConfig marks no order that the
\* broker never took.
THEOREM SentWasTaken == Spec => [](\A o \in Order : status[o] = "SENT" => Taken(o))
<1> DEFINE J == TypeOK /\ Backed
<1>1. Init => J
  <2>1. Init => TypeOK
    BY InitInv DEF Inv
  <2> QED BY <2>1 DEF Init, Backed
<1>2. J /\ TypeOK' /\ [Next]_vars => J'
  BY BackedStep
<1>3. J => \A o \in Order : status[o] = "SENT" => Taken(o)
  BY DEF Backed
<1> QED BY <1>1, <1>2, <1>3, TypeCorrect, PTL DEF Spec

\* The relay sends no entity, and nobody takes back that a request is done.
LEMMA OwnCopiesStep ==
    ASSUME TypeOK, OwnCopies, [Next]_vars
    PROVE  OwnCopies'
<1> USE DEF TypeOK, OwnCopies, rowVars, mqVars, Copy
<1>1. CASE UNCHANGED vars
  BY <1>1 DEF vars
<1>2. ASSUME NEW p \in Order, SendEntity(p) PROVE OwnCopies'
  <2>1. /\ req' = [req EXCEPT ![p] = "done"]
        /\ wire' = wire \cup {[order |-> p, no |-> sends[p], entity |-> TRUE]}
        /\ UNCHANGED <<queue, created>>
    BY <1>2 DEF SendEntity, Publish
  <2> QED BY <2>1
<1>3. ASSUME NEW p \in Order,
             SaveOutbox(p) \/ SkipOutbox(p) \/ SaveFails(p) \/ SendThrows(p)
      PROVE  OwnCopies'
  <2>1. /\ UNCHANGED <<wire, queue, created>> /\ req[p] # "done"
        /\ \A o \in Order : o # p => req'[o] = req[o]
    BY <1>3 DEF SaveOutbox, SkipOutbox, SaveFails, SendThrows
  <2> QED BY <2>1
<1>4. ASSUME NEW p \in Order, BackoffEnds(p) PROVE OwnCopies'
  BY <1>4 DEF BackoffEnds
<1>5. ASSUME NEW c \in wire, Accept(c) \/ AcceptSilently(c) \/ Refuse(c) PROVE OwnCopies'
  BY <1>5 DEF Accept, AcceptSilently, Refuse
<1>6. ASSUME NEW c \in acks, Confirm(c) \/ ConfirmFails(c) PROVE OwnCopies'
  BY <1>6 DEF Confirm, ConfirmFails
<1>7. CASE SelectPending \/ UpdateRetryInfo \/ UpdateFails
  BY <1>7 DEF SelectPending, UpdateRetryInfo, UpdateFails
<1>8. ASSUME NEW row \in batch, Resend(row) PROVE OwnCopies'
  <2>1. /\ wire' = wire \cup {[order |-> row.order, no |-> sends[row.order], entity |-> FALSE]}
        /\ UNCHANGED <<queue, created, req>>
    BY <1>8 DEF Resend, Publish
  <2> QED BY <2>1
<1>9. ASSUME NEW row \in batch, MarkFailed(row) \/ MarkFails(row) \/ ResendThrows(row)
      PROVE  OwnCopies'
  BY <1>9 DEF MarkFailed, MarkFails, ResendThrows
<1>10. ASSUME NEW c \in queue, Listen(c) PROVE OwnCopies'
  BY <1>10 DEF Listen
<1>11. CASE Crash
  <2>1. /\ wire' = {} /\ queue' \subseteq queue \cup wire /\ created' = created
        /\ \A o \in Order : req[o] = "done" => req'[o] = "done"
    BY <1>11 DEF Crash
  <2> QED BY <2>1
<1> QED BY <1>1, <1>2, <1>3, <1>4, <1>5, <1>6, <1>7, <1>8, <1>9, <1>10, <1>11
        DEF Next, Send, Relay, Broker, Callback, Listener, Failure

\* However often the relay resends, an order is created only from the copy its own
\* request published: a row that outlived its request (the instance died between the
\* row and the publish) is resent, confirmed, and never becomes an order.
THEOREM CreatedByRequest == Spec => [](\A o \in created : req[o] = "done")
<1> DEFINE J == TypeOK /\ OwnCopies
<1>1. Init => J
  <2>1. Init => TypeOK
    BY InitInv DEF Inv
  <2> QED BY <2>1 DEF Init, OwnCopies
<1>2. J /\ TypeOK' /\ [Next]_vars => J'
  BY OwnCopiesStep
<1>3. J => \A o \in created : req[o] = "done"
  BY DEF OwnCopies
<1> QED BY <1>1, <1>2, <1>3, TypeCorrect, PTL DEF Spec
=============================================================================
