---------------------------- MODULE ChatSession ----------------------------
(***************************************************************************)
(* One chat of one user: the requests that stream an answer                *)
(* (AIChatController.chat) and the one that deletes the chat, over the     *)
(* rows of MysqlChatHistoryRepository and MysqlChatMemory.  Only deletion  *)
(* is a transaction; a stream is one statement after the other, and the    *)
(* reads next to each other are one step.                                  *)
(***************************************************************************)
EXTENDS Naturals, FiniteSets

CONSTANTS
    Stream,         \* places for requests to /chat/{chatId}/send
    NoSession,      \* no row
    MaxMessages,    \* of MysqlChatMemory
    MaxChatFaults   \* bound: failing statements, broken connections and crashes

ASSUME ChatConstants ==
    /\ IsFiniteSet(Stream) /\ NoSession \notin Nat
    /\ MaxMessages \in Nat \ {0} /\ MaxChatFaults \in Nat

VARIABLES
    session,    \* tb_chat_session: message_count, or no row
    messages,   \* how many rows the chat has in tb_chat_message
    at, role,   \* streams: the next statement, what kind of message is added
    read,       \* the message count in hand
    deleter,    \* where deleteChat is, and what it has answered
    broken,     \* faults so far
    mixed,      \* history: two streams ran at once, or one broke
    overtaken,  \* history: the deletion met a stream inside add
    revived     \* history: save inserted the session again

streamVars == <<at, role, read>>
chatVars == <<session, messages, streamVars, deleter, broken, mixed, overtaken, revived>>

\* createChat has stored the session.
ChatInit ==
    /\ session = 0 /\ messages = 0
    /\ at = [s \in Stream |-> "idle"] /\ role = [s \in Stream |-> "user"]
    /\ read = [s \in Stream |-> 0]
    /\ deleter = "idle" /\ broken = 0
    /\ mixed = FALSE /\ overtaken = FALSE /\ revived = FALSE

Step(s, from, to) == at[s] = from /\ at' = [at EXCEPT ![s] = to]

-----------------------------------------------------------------------------
\* The chat is the user's (getChatIds); save will look for it once more.
Send(s) ==
    /\ session # NoSession
    /\ Step(s, "idle", "select")
    /\ mixed' = (mixed \/ \E o \in Stream : at[o] # "idle")
    /\ UNCHANGED <<session, messages, role, read, deleter, broken, overtaken, revived>>

SelectSession(s) ==
    /\ \/ Step(s, "select", "create") /\ session = NoSession /\ UNCHANGED read
       \/ /\ Step(s, "select", "touch") /\ session # NoSession
          /\ read' = [read EXCEPT ![s] = session]
    /\ UNCHANGED <<session, messages, role, deleter, broken, mixed, overtaken, revived>>

\* The chat was deleted since getChatIds: save inserts it again, unless another
\* stream did so (uk_chat_id), which ends this request.
CreateSession(s) ==
    /\ \/ /\ Step(s, "create", "limit") /\ session = NoSession
          /\ session' = 0 /\ revived' = TRUE
       \/ Step(s, "create", "idle") /\ session # NoSession /\ UNCHANGED <<session, revived>>
    /\ UNCHANGED <<messages, role, read, deleter, broken, mixed, overtaken>>

\* The count that was read is written back.
TouchSession(s) ==
    /\ Step(s, "touch", "limit")
    /\ session' = IF session = NoSession THEN session ELSE read[s]
    /\ UNCHANGED <<messages, role, read, deleter, broken, mixed, overtaken, revived>>

\* Changed form: > for >=.
MoreThanMax == messages > MaxMessages

LimitReached == messages >= MaxMessages

\* get(chatId) throws without a session; a full context ends the request.
CheckLimit(s) ==
    /\ \/ /\ Step(s, "limit", "owner") /\ session # NoSession /\ ~LimitReached
          /\ role' = [role EXCEPT ![s] = "user"]
       \/ Step(s, "limit", "idle") /\ (session = NoSession \/ LimitReached) /\ UNCHANGED role
    /\ UNCHANGED <<session, messages, read, deleter, broken, mixed, overtaken, revived>>

-----------------------------------------------------------------------------
(* MysqlChatMemory.add, by the advisor for the prompt and for the reply, by *)
(* chat for the text that stands for a late or a failed reply.              *)

\* onErrorResume: the error is to be stored; an error there ends the stream.
Resume(s) ==
    IF role[s] = "error"
    THEN at' = [at EXCEPT ![s] = "idle"] /\ UNCHANGED role
    ELSE at' = [at EXCEPT ![s] = "owner"] /\ role' = [role EXCEPT ![s] = "error"]

LookUpOwner(s) ==
    /\ at[s] = "owner"
    /\ IF session = NoSession
       THEN Resume(s)
       ELSE Step(s, "owner", "insert") /\ UNCHANGED role
    /\ UNCHANGED <<session, messages, read, deleter, broken, mixed, overtaken, revived>>

InsertMessage(s) ==
    /\ Step(s, "insert", "count")
    /\ messages' = messages + 1
    /\ UNCHANGED <<session, role, read, deleter, broken, mixed, overtaken, revived>>

\* The model answers after the prompt is stored.
AfterAdd(s) == IF role[s] = "user" THEN "wait" ELSE "idle"

\* Changed form: the new message is counted twice.
CountedTwice == messages + 1

Counted == messages

\* updateSessionMeta: nothing to do without a session.
CountMessages(s) ==
    /\ \/ Step(s, "count", AfterAdd(s)) /\ session = NoSession /\ UNCHANGED read
       \/ /\ Step(s, "count", "write") /\ session # NoSession
          /\ read' = [read EXCEPT ![s] = Counted]
    /\ UNCHANGED <<session, messages, role, deleter, broken, mixed, overtaken, revived>>

WriteMeta(s) ==
    /\ Step(s, "write", AfterAdd(s))
    /\ session' = IF session = NoSession THEN session ELSE read[s]
    /\ UNCHANGED <<messages, role, read, deleter, broken, mixed, overtaken, revived>>

\* The reply, or the ten seconds are over; or the language model fails.
Reply(s) ==
    /\ at[s] = "wait"
    /\ \/ Step(s, "wait", "owner") /\ role' = [role EXCEPT ![s] = "answer"]
       \/ Resume(s)
    /\ UNCHANGED <<session, messages, read, deleter, broken, mixed, overtaken, revived>>

-----------------------------------------------------------------------------
Adding(s) == at[s] \in {"insert", "count", "write"}

ChatFault == broken < MaxChatFaults /\ broken' = broken + 1 /\ mixed' = TRUE

\* A statement of add throws, before or after the insert.
AddThrows(s) ==
    /\ Adding(s) \/ at[s] = "owner"
    /\ ChatFault /\ Resume(s)
    /\ UNCHANGED <<session, messages, read, deleter, overtaken, revived>>

\* A statement before throws, the client hangs up, or the instance dies.
StreamBreaks(s) ==
    /\ at[s] # "idle" /\ ChatFault
    /\ at' = [at EXCEPT ![s] = "idle"]
    /\ UNCHANGED <<session, messages, role, read, deleter, overtaken, revived>>

-----------------------------------------------------------------------------
\* Changed form: the messages are left to clear.
OnlySession == messages

Remaining == 0

\* deleteChat checks the owner; repository.delete is one transaction.
AskDelete ==
    /\ deleter = "idle" /\ session # NoSession
    /\ deleter' = "delete"
    /\ UNCHANGED <<session, messages, streamVars, broken, mixed, overtaken, revived>>

DeleteChat ==
    /\ deleter = "delete" /\ deleter' = "clear"
    /\ session' = NoSession /\ messages' = Remaining
    /\ overtaken' = \E s \in Stream : Adding(s)
    /\ UNCHANGED <<streamVars, broken, mixed, revived>>

\* chatMemory.clear throws when there is no session: "deleted" is answered only when
\* a stream has brought the chat back.
ClearAnswer == IF session = NoSession THEN "error" ELSE "ok"

ClearMemory ==
    /\ deleter = "clear" /\ deleter' = ClearAnswer
    /\ messages' = IF session = NoSession THEN messages ELSE 0
    /\ UNCHANGED <<session, streamVars, broken, mixed, overtaken, revived>>

-----------------------------------------------------------------------------
Prepare(s) == Send(s) \/ SelectSession(s) \/ CreateSession(s) \/ TouchSession(s) \/ CheckLimit(s)

Add(s) == LookUpOwner(s) \/ InsertMessage(s) \/ CountMessages(s) \/ WriteMeta(s)

Delete == AskDelete \/ DeleteChat \/ ClearMemory

ChatNext ==
    \/ \E s \in Stream : Prepare(s) \/ Add(s) \/ Reply(s) \/ AddThrows(s) \/ StreamBreaks(s)
    \/ Delete

ChatSpec == ChatInit /\ [][ChatNext]_chatVars

-----------------------------------------------------------------------------
ChatTypeOK ==
    /\ session \in Nat \cup {NoSession} /\ messages \in Nat
    /\ at \in [Stream -> {"idle", "select", "create", "touch", "limit", "owner", "insert",
                          "count", "write", "wait"}]
    /\ role \in [Stream -> {"user", "answer", "error"}] /\ read \in [Stream -> Nat]
    /\ deleter \in {"idle", "delete", "clear", "ok", "error"}
    /\ broken \in 0..MaxChatFaults
    /\ mixed \in BOOLEAN /\ overtaken \in BOOLEAN /\ revived \in BOOLEAN

\* The check of the context limit and the inserts are apart: streams that pass it
\* together exceed the limit, but by no more than the two messages of each, and one
\* more for each failure behind an insert, which is stored as an error message.
ContextBounded ==
    messages <= MaxMessages - 1 + 2 * Cardinality(Stream) + broken

\* message_count lags behind when save writes an old count back or two counts are
\* written in the wrong order, but it never runs ahead of the messages, and streams
\* that neither overlapped nor broke leave it exact.
CountHonest ==
    session # NoSession /\ ~revived =>
        /\ session <= messages
        /\ ~mixed /\ (\A s \in Stream : at[s] = "idle") => session = messages

\* A deleted chat leaves messages behind only if a stream had looked up its owner
\* before the deletion and inserts afterwards.
OrphansFromRunning ==
    session = NoSession /\ messages > 0 => overtaken
=============================================================================
