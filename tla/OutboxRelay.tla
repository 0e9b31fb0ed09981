---------------------------- MODULE OutboxRelay ----------------------------
(***************************************************************************)
(* The outbox of OutboxRelayService: a request stores a row and publishes, *)
(* the broker accepts, refuses or loses the copy, the confirm callback of  *)
(* MqConfig marks the row SENT, and the scheduled relay resends due rows   *)
(* with exponential backoff until they are FAILED.                         *)
(*                                                                         *)
(* No statement of OutboxMessageMapper that writes a row looks at its      *)
(* status: the callback, and a relay pass working on a batch it selected   *)
(* earlier, overwrite each other.  Time is abstracted to whether a row's   *)
(* next_retry_time has come; the order within a batch is left open.        *)
(*                                                                         *)
(* The request publishes the entity, the relay a hutool JSONObject: the    *)
(* type header they get from Jackson2JsonMessageConverter differs, and so  *)
(* does what SeckillListener does with them.                               *)
(***************************************************************************)
EXTENDS Naturals, FiniteSets

CONSTANTS
    Order,         \* the calls of sendWithOutbox, one message id each
    MaxRetries,    \* outbox.setMaxRetries
    ConfirmsOn,    \* spring.rabbitmq.publisher-confirm-type is set
    Budget         \* how often each kind of fault may strike

Fault == {"crash",    \* the instance dies
          "publish",  \* a publish throws, or the broker loses or refuses a copy
          "ack",      \* a copy is accepted and its confirm lost
          "db"}       \* an INSERT or UPDATE of the outbox table throws

ASSUME MaxRetriesAssumption == MaxRetries \in Nat
ASSUME ConfirmsAssumption == ConfirmsOn \in BOOLEAN
ASSUME OutboxBudgetAssumption == Budget \in [Fault -> Nat]

\* A copy of an order's message: the how many-th, and whether its body is the
\* entity (the request's copy) or the parsed JSON (a copy of the relay).
Copy == [order : Order, no : Nat, entity : BOOLEAN]

VARIABLES
    enabled,              \* llsp.feature.outbox-enabled, fixed at start-up
    status, retries, due, \* tb_outbox_message: status, retry_count, next_retry_time <= now
    req,                  \* where each call of sendWithOutbox is
    wire,                 \* copies sent, the broker has not decided
    acks,                 \* copies confirmed, the callback has not run
    queue,                \* copies in seckill.queue
    created,              \* orders the listener passed to createVoucherOrder
    dead,                 \* orders that had a copy in seckill.dlx.queue
    batch,                \* the relay pass: rows still to do, as selected
    current,              \* the row whose retry info is to be updated next
    sends,                \* publishes so far, per order
    faults

rowVars == <<status, retries, due>>
mqVars  == <<wire, acks, queue, created, dead, sends>>
jobVars == <<batch, current>>
vars == <<enabled, rowVars, req, mqVars, jobVars, faults>>

Init ==
    /\ enabled \in BOOLEAN
    /\ status = [o \in Order |-> "absent"]
    /\ retries = [o \in Order |-> 0] /\ due = [o \in Order |-> FALSE]
    /\ req = [o \in Order |-> "start"]
    /\ wire = {} /\ acks = {} /\ queue = {}
    /\ created = {} /\ dead = {}
    /\ batch = {} /\ current = {}
    /\ sends = [o \in Order |-> 0]
    /\ faults = [f \in Fault |-> 0]

Spend(f) == faults[f] < Budget[f] /\ faults' = [faults EXCEPT ![f] = @ + 1]

\* convertAndSend returns once the copy is on the connection.
Publish(o, isEntity) ==
    /\ wire' = wire \cup {[order |-> o, no |-> sends[o], entity |-> isEntity]}
    /\ sends' = [sends EXCEPT ![o] = @ + 1]

-----------------------------------------------------------------------------
(* sendWithOutbox *)

\* saveOutbox: PENDING, no retries, due at once.
SaveOutbox(o) ==
    /\ req[o] = "start" /\ enabled
    /\ status' = [status EXCEPT ![o] = "PENDING"]
    /\ due' = [due EXCEPT ![o] = TRUE]
    /\ req' = [req EXCEPT ![o] = "saved"]
    /\ UNCHANGED <<enabled, retries, mqVars, jobVars, faults>>

\* The insert fails, or the outbox is off: publish without a row.
SaveFails(o) ==
    /\ req[o] = "start" /\ enabled
    /\ Spend("db")
    /\ req' = [req EXCEPT ![o] = "direct"]
    /\ UNCHANGED <<enabled, rowVars, mqVars, jobVars>>

SkipOutbox(o) ==
    /\ req[o] = "start" /\ ~enabled
    /\ req' = [req EXCEPT ![o] = "direct"]
    /\ UNCHANGED <<enabled, rowVars, mqVars, jobVars, faults>>

\* The request's own publish, the entity itself.
SendEntity(o) ==
    /\ req[o] \in {"saved", "direct"}
    /\ Publish(o, TRUE)
    /\ req' = [req EXCEPT ![o] = "done"]
    /\ UNCHANGED <<enabled, rowVars, acks, queue, created, dead, jobVars, faults>>

\* It throws: swallowed when a row stands behind it, passed on otherwise.
SendThrows(o) ==
    /\ req[o] \in {"saved", "direct"}
    /\ Spend("publish")
    /\ sends' = [sends EXCEPT ![o] = @ + 1]
    /\ req' = [req EXCEPT ![o] = IF req[o] = "saved" THEN "done" ELSE "failed"]
    /\ UNCHANGED <<enabled, rowVars, wire, acks, queue, created, dead, jobVars>>

-----------------------------------------------------------------------------
(* The broker and the ConfirmCallback of MqConfig *)

\* The exchange takes the copy; a confirm follows if the channel has confirms on
\* and the publish carried a CorrelationData, as every publish with a row does.
Confirmed(c) == ConfirmsOn /\ status[c.order] # "absent"

Accept(c) ==
    /\ c \in wire
    /\ wire' = wire \ {c}
    /\ queue' = queue \cup {c}
    /\ acks' = IF Confirmed(c) THEN acks \cup {c} ELSE acks
    /\ UNCHANGED <<enabled, rowVars, req, created, dead, sends, jobVars, faults>>

\* Accepted, but the connection breaks before the confirm.
AcceptSilently(c) ==
    /\ c \in wire
    /\ Spend("ack")
    /\ wire' = wire \ {c}
    /\ queue' = queue \cup {c}
    /\ UNCHANGED <<enabled, rowVars, req, acks, created, dead, sends, jobVars>>

\* nack, or lost on the way: the callback only logs, the row stays PENDING.
Refuse(c) ==
    /\ c \in wire
    /\ Spend("publish")
    /\ wire' = wire \ {c}
    /\ UNCHANGED <<enabled, rowVars, req, acks, queue, created, dead, sends, jobVars>>

\* ack: UPDATE ... SET status = 1 WHERE message_id = ?
Confirm(c) ==
    /\ c \in acks
    /\ acks' = acks \ {c}
    /\ status' = [status EXCEPT ![c.order] = "SENT"]
    /\ UNCHANGED <<enabled, retries, due, req, wire, queue, created, dead, sends, jobVars, faults>>

ConfirmFails(c) ==
    /\ c \in acks
    /\ Spend("db")
    /\ acks' = acks \ {c}
    /\ UNCHANGED <<enabled, rowVars, req, wire, queue, created, dead, sends, jobVars>>

-----------------------------------------------------------------------------
(* relayPendingMessages and processRelay *)

\* Changed forms: the query forgets the status, or leaves exhausted rows alone.
AnyDueRows == {o \in Order : status[o] # "absent" /\ (due[o] \/ status[o] # "PENDING")}
RetryableRows == {o \in Order : status[o] = "PENDING" /\ due[o] /\ retries[o] < MaxRetries}

DueRows == {o \in Order : status[o] = "PENDING" /\ due[o]}

\* selectPendingMessages: the batch keeps the retry counts as they are now.
SelectPending ==
    /\ enabled
    /\ batch = {} /\ current = {}
    /\ DueRows # {}
    /\ batch' = {[order |-> o, retries |-> retries[o]] : o \in DueRows}
    /\ UNCHANGED <<enabled, rowVars, req, mqVars, current, faults>>

\* Changed forms: one attempt too few, one too many.
NearlyExhausted(row) == row.retries + 1 >= MaxRetries
OverExhausted(row) == row.retries > MaxRetries

Exhausted(row) == row.retries >= MaxRetries

\* markAsFailed: UPDATE ... SET status = 2 WHERE id = ?
MarkFailed(row) ==
    /\ row \in batch /\ current = {}
    /\ Exhausted(row)
    /\ batch' = batch \ {row}
    /\ status' = [status EXCEPT ![row.order] = "FAILED"]
    /\ UNCHANGED <<enabled, retries, due, req, mqVars, current, faults>>

\* It throws: the catch of relayPendingMessages gives up the rest of the batch.
MarkFails(row) ==
    /\ row \in batch /\ current = {}
    /\ Exhausted(row)
    /\ Spend("db")
    /\ batch' = {}
    /\ UNCHANGED <<enabled, rowVars, req, mqVars, current>>

Resend(row) ==
    /\ row \in batch /\ current = {}
    /\ ~Exhausted(row)
    /\ batch' = batch \ {row}
    /\ current' = {row.order}
    /\ Publish(row.order, FALSE)
    /\ UNCHANGED <<enabled, rowVars, req, acks, queue, created, dead, faults>>

\* Changed form: the update follows the publish instead of standing in finally.
NotCounted(row) == {}

ToCount(row) == {row.order}

\* The publish throws: finally counts it all the same.
ResendThrows(row) ==
    /\ row \in batch /\ current = {}
    /\ ~Exhausted(row)
    /\ Spend("publish")
    /\ batch' = batch \ {row}
    /\ current' = ToCount(row)
    /\ sends' = [sends EXCEPT ![row.order] = @ + 1]
    /\ UNCHANGED <<enabled, rowVars, req, wire, acks, queue, created, dead>>

\* updateRetryInfo: retry_count + 1, next_retry_time pushed back.
UpdateRetryInfo ==
    /\ \E o \in current :
        /\ retries' = [retries EXCEPT ![o] = @ + 1]
        /\ due' = [due EXCEPT ![o] = FALSE]
    /\ current' = {}
    /\ UNCHANGED <<enabled, status, req, mqVars, batch, faults>>

UpdateFails ==
    /\ current # {}
    /\ Spend("db")
    /\ current' = {}
    /\ UNCHANGED <<enabled, rowVars, req, mqVars, batch>>

\* The backoff of a row runs out.
BackoffEnds(o) ==
    /\ status[o] = "PENDING" /\ ~due[o]
    /\ due' = [due EXCEPT ![o] = TRUE]
    /\ UNCHANGED <<enabled, status, retries, req, mqVars, jobVars, faults>>

-----------------------------------------------------------------------------
(* SeckillListener.listenSeckillOrder, as far as it tells the copies apart *)

\* fromMessage yields a VoucherOrder only for the request's own copy: the cast
\* of a resent one throws, it goes to the dead letters and is rejected.
Listen(c) ==
    /\ c \in queue
    /\ queue' = queue \ {c}
    /\ IF c.entity
         THEN created' = created \cup {c.order} /\ UNCHANGED dead
         ELSE dead' = dead \cup {c.order} /\ UNCHANGED created
    /\ UNCHANGED <<enabled, rowVars, req, wire, acks, sends, jobVars, faults>>

-----------------------------------------------------------------------------
\* The instance dies: the batch and the confirms are gone, requests do not get
\* further, of the copies on the connection the broker keeps some.
Crash ==
    /\ Spend("crash")
    /\ \E kept \in SUBSET wire : queue' = queue \cup kept
    /\ wire' = {} /\ acks' = {}
    /\ batch' = {} /\ current' = {}
    /\ req' = [o \in Order |-> IF req[o] \in {"saved", "direct"} THEN "failed" ELSE req[o]]
    /\ UNCHANGED <<enabled, rowVars, created, dead, sends>>

Send(o) == SaveOutbox(o) \/ SkipOutbox(o) \/ SendEntity(o)

Relay ==
    \/ SelectPending
    \/ \E row \in batch : MarkFailed(row) \/ Resend(row)
    \/ UpdateRetryInfo

Broker == \E c \in wire : Accept(c)

Callback == \E c \in acks : Confirm(c)

Listener == \E c \in queue : Listen(c)

Failure ==
    \/ \E o \in Order : SaveFails(o) \/ SendThrows(o)
    \/ \E c \in wire : AcceptSilently(c) \/ Refuse(c)
    \/ \E c \in acks : ConfirmFails(c)
    \/ \E row \in batch : MarkFails(row) \/ ResendThrows(row)
    \/ UpdateFails
    \/ Crash

Next ==
    \/ \E o \in Order : Send(o) \/ BackoffEnds(o)
    \/ Relay \/ Broker \/ Callback \/ Listener
    \/ Failure

Spec == Init /\ [][Next]_vars

\* The scheduler runs the relay for ever, the broker decides on every copy, the
\* listener container and the callback threads run, and every backoff ends.
Fairness ==
    /\ \A o \in Order : WF_vars(Send(o)) /\ WF_vars(BackoffEnds(o))
    /\ WF_vars(Relay) /\ WF_vars(Broker) /\ WF_vars(Callback) /\ WF_vars(Listener)

FairSpec == Spec /\ Fairness

-----------------------------------------------------------------------------
(* Properties *)

\* Every variable has its type; no row counts more than MaxRetries resends.
TypeOK ==
    /\ enabled \in BOOLEAN
    /\ status \in [Order -> {"absent", "PENDING", "SENT", "FAILED"}]
    /\ retries \in [Order -> 0..MaxRetries] /\ due \in [Order -> BOOLEAN]
    /\ req \in [Order -> {"start", "saved", "direct", "done", "failed"}]
    /\ wire \subseteq Copy /\ acks \subseteq Copy /\ queue \subseteq Copy
    /\ created \subseteq Order /\ dead \subseteq Order
    /\ batch \subseteq [order : Order, retries : Nat] /\ current \subseteq Order
    /\ sends \in [Order -> Nat]
    /\ faults \in [Fault -> Nat]

\* A row is given up only after all its retries, whatever a stale batch says.
FailedOnlyExhausted ==
    \A o \in Order : status[o] = "FAILED" => retries[o] >= MaxRetries

\* No order is published without end: its own send, MaxRetries resends, and one
\* more for each time the count of a resend could not be written (the reason
\* given for the finally block of processRelay).
SendsBounded ==
    \A o \in Order : sends[o] <= 1 + MaxRetries + faults["db"] + faults["crash"]

\* Once a row is settled and no batch still holds it, the order is never
\* published again: an acknowledged message is not resent by a later scan.
Quiet(o, n) ==
    /\ status[o] \in {"SENT", "FAILED"}
    /\ req[o] \in {"done", "failed"}
    /\ \A row \in batch : row.order # o
    /\ sends[o] = n

SettledStaysQuiet ==
    \A o \in Order, n \in 0..(1 + MaxRetries) :
        [](Quiet(o, n) => [](sends[o] = n))

\* Every stored row is settled in the end, with confirms or without.
RowSettles ==
    \A o \in Order : (status[o] = "PENDING") ~> (status[o] \in {"SENT", "FAILED"})

\* What the code claims and does not do.

\* "ack -> the callback sets the status to 1 and the row is left alone": a row
\* marked SENT by the confirm callback stays SENT.
SentStaysSent == [][\A o \in Order : status[o] = "SENT" => status'[o] = "SENT"]_vars

\* "unconfirmed messages are resent": an order that has a copy in the queue, the
\* request's or the relay's, is created.
QueuedMeansCreated ==
    \A o \in Order : (\E c \in queue : c.order = o) ~> (o \in created)

\* "after the broker's ack the row is SENT": a stored row whose copy reached the
\* queue is SENT in the end and not FAILED.
DeliveredMeansSent ==
    \A o \in Order :
        (status[o] = "PENDING" /\ \E c \in queue : c.order = o) ~> (status[o] = "SENT")
=============================================================================
