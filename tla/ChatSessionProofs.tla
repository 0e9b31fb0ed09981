------------------------- MODULE ChatSessionProofs -------------------------
(***************************************************************************)
(* Proofs about ChatSession for any number of streams, any limit on the    *)
(* context and any budget of faults.                                       *)
(***************************************************************************)
EXTENDS ChatSession, FiniteSetTheorems, TLAPS

\* Streams that passed the check of the limit and may still insert a message, and
\* those of them that may insert two.
MayAdd ==
    {s \in Stream : \/ at[s] \in {"owner", "insert", "wait"}
                    \/ role[s] = "user" /\ at[s] \in {"count", "write"}}
MayAddTwice == {s \in Stream : role[s] = "user" /\ at[s] \in {"owner", "insert"}}

\* What is stored and what may still come keeps to the bound: a stream passes the
\* check only while there is room for every stream.
Room ==
    messages + Cardinality(MayAdd) + Cardinality(MayAddTwice)
        <= MaxMessages - 1 + 2 * Cardinality(Stream) + broken

\* Until the chat is deleted the counts in hand never exceed the messages.
Behind ==
    session # NoSession /\ ~revived =>
        /\ session <= messages
        /\ \A s \in Stream : at[s] \in {"touch", "write"} => read[s] <= messages

\* Streams one after the other keep the count exact, save between insert and write.
Solo ==
    ~mixed => \A s, o \in Stream : at[s] # "idle" /\ at[o] # "idle" => s = o
Exact ==
    ~mixed /\ ~revived /\ session # NoSession =>
        /\ (\A s \in Stream : at[s] \notin {"count", "write"}) => session = messages
        /\ \A s \in Stream : at[s] = "touch" => read[s] = session
        /\ \A s \in Stream : at[s] = "write" => read[s] = messages

\* The session is gone only after DeleteChat and comes back only by save; a stream
\* that is inside add without a session was there when it went.
Gone ==
    /\ session = NoSession => deleter \in {"clear", "ok", "error"}
    /\ session # NoSession /\ deleter \in {"clear", "ok", "error"} => revived
    /\ session = NoSession =>
          /\ messages > 0 => overtaken
          /\ \A s \in Stream : Adding(s) => overtaken

ChatInv == ChatTypeOK /\ Behind /\ Solo /\ Exact /\ Gone

-----------------------------------------------------------------------------
\* A chat that was just created.
LEMMA ChatInitInv == ChatInit => ChatInv
<1> SUFFICES ASSUME ChatInit PROVE ChatInv
  OBVIOUS
<1> USE ChatConstants DEF ChatInit
<1>1. ChatTypeOK
  <2>1. /\ at \in [Stream -> {"idle", "select", "create", "touch", "limit", "owner", "insert",
                             "count", "write", "wait"}]
        /\ role \in [Stream -> {"user", "answer", "error"}] /\ read \in [Stream -> Nat]
    OBVIOUS
  <2>2. broken \in 0..MaxChatFaults /\ session \in Nat \cup {NoSession} /\ messages \in Nat
    OBVIOUS
  <2>3. mixed \in BOOLEAN /\ overtaken \in BOOLEAN /\ revived \in BOOLEAN
    OBVIOUS
  <2> QED BY <2>1, <2>2, <2>3 DEF ChatTypeOK
<1>2. Behind /\ Solo /\ Exact
  BY DEF Behind, Solo, Exact
<1>3. Gone
  BY DEF Gone
<1> QED BY <1>1, <1>2, <1>3 DEF ChatInv

\* Before the messages.
LEMMA PrepareInv ==
    ASSUME ChatInv, NEW s \in Stream, Prepare(s)
    PROVE  ChatInv'
<1> USE ChatConstants DEF ChatInv, ChatTypeOK, Behind, Solo, Exact, Gone,
        Step, Adding
<1>1. CASE Send(s)
  BY <1>1 DEF Send
<1>2. CASE SelectSession(s)
  BY <1>2 DEF SelectSession
<1>3. CASE CreateSession(s)
  <2>1. CASE session # NoSession
    BY <1>3, <2>1 DEF CreateSession
  <2>2. CASE session = NoSession
    <3>1. at' = [at EXCEPT ![s] = "limit"] /\ session' = 0 /\ revived' = TRUE
      BY <1>3, <2>2 DEF CreateSession
    <3>2. ChatTypeOK'
      BY <1>3, <3>1 DEF CreateSession
    <3>3. Behind' /\ Exact' /\ Gone'
      BY <1>3, <3>1 DEF CreateSession
    <3>4. Solo'
      BY <1>3, <3>1 DEF CreateSession
    <3> QED BY <3>2, <3>3, <3>4
  <2> QED BY <2>1, <2>2
<1>4. CASE TouchSession(s)
  BY <1>4 DEF TouchSession
<1>5. CASE CheckLimit(s)
  BY <1>5 DEF CheckLimit
<1> QED BY <1>1, <1>2, <1>3, <1>4, <1>5 DEF Prepare
\* Resume ends the stream or sends it to store the error, once.
LEMMA ResumeEffect ==
    ASSUME ChatTypeOK, NEW s \in Stream, Resume(s)
    PROVE  /\ at' \in [Stream -> {"idle", "select", "create", "touch", "limit", "owner",
                                  "insert", "count", "write", "wait"}]
           /\ role' \in [Stream -> {"user", "answer", "error"}]
           /\ \A o \in Stream \ {s} : at'[o] = at[o] /\ role'[o] = role[o]
           /\ at'[s] \in {"idle", "owner"}
           /\ at'[s] = "owner" => role'[s] = "error" /\ role[s] # "error"
BY DEF ChatTypeOK, Resume

\* MysqlChatMemory.add.
LEMMA AddInv ==
    ASSUME ChatInv, NEW s \in Stream, Add(s)
    PROVE  ChatInv'
<1> USE ChatConstants DEF ChatInv, ChatTypeOK, Behind, Solo, Exact, Gone,
        Step, Adding
<1>1. CASE LookUpOwner(s)
  <2>1. CASE session # NoSession
    BY <1>1, <2>1 DEF LookUpOwner
  <2>2. CASE session = NoSession
    <3>1. Resume(s)
      BY <1>1, <2>2 DEF LookUpOwner
    <3> QED BY <1>1, <2>2, <3>1, ResumeEffect DEF LookUpOwner
  <2> QED BY <2>1, <2>2
<1>2. CASE InsertMessage(s)
  BY <1>2 DEF InsertMessage
<1>3. CASE CountMessages(s)
  BY <1>3 DEF CountMessages, AfterAdd, Counted
<1>4. CASE WriteMeta(s)
  BY <1>4 DEF WriteMeta, AfterAdd
<1> QED BY <1>1, <1>2, <1>3, <1>4 DEF Add

\* The reply, and the faults.
LEMMA ReplyInv ==
    ASSUME ChatInv, NEW s \in Stream, Reply(s)
    PROVE  ChatInv'
<1> USE ChatConstants DEF ChatInv, ChatTypeOK, Behind, Solo, Exact, Gone,
        Step, Adding
<1>1. CASE Resume(s)
  BY <1>1, ResumeEffect DEF Reply
<1>2. CASE Step(s, "wait", "owner") /\ role' = [role EXCEPT ![s] = "answer"]
  BY <1>2 DEF Reply
<1> QED BY <1>1, <1>2 DEF Reply

\* A failing statement or a broken stream keeps the invariant.
LEMMA FaultInv ==
    ASSUME ChatInv, NEW s \in Stream, AddThrows(s) \/ StreamBreaks(s)
    PROVE  ChatInv'
<1> USE ChatConstants DEF ChatInv, ChatTypeOK, Behind, Solo, Exact, Gone,
        ChatFault, Adding
<1>1. CASE AddThrows(s)
  BY <1>1, ResumeEffect DEF AddThrows
<1>2. CASE StreamBreaks(s)
  BY <1>2 DEF StreamBreaks
<1> QED BY <1>1, <1>2

\* deleteChat.
LEMMA DeleteInv ==
    ASSUME ChatInv, Delete
    PROVE  ChatInv'
<1> USE ChatConstants DEF ChatInv, ChatTypeOK, Behind, Solo, Exact, Gone,
        Adding, streamVars
<1>1. CASE AskDelete
  BY <1>1 DEF AskDelete
<1>2. CASE DeleteChat
  BY <1>2 DEF DeleteChat, Remaining
<1>3. CASE ClearMemory
  BY <1>3 DEF ClearMemory, ClearAnswer
<1> QED BY <1>1, <1>2, <1>3 DEF Delete

\* Every step keeps the invariant.
LEMMA ChatStep == ChatInv /\ [ChatNext]_chatVars => ChatInv'
<1> SUFFICES ASSUME ChatInv, [ChatNext]_chatVars PROVE ChatInv'
  OBVIOUS
<1>1. CASE UNCHANGED chatVars
  BY <1>1 DEF chatVars, streamVars, ChatInv, ChatTypeOK, Behind, Solo, Exact, Gone,
              Adding
<1> QED BY <1>1, PrepareInv, AddInv, ReplyInv, FaultInv, DeleteInv DEF ChatNext

\* The invariant holds in every behaviour.
LEMMA ChatAlways == ChatSpec => []ChatInv
BY ChatInitInv, ChatStep, PTL DEF ChatSpec

\* For any number of streams: message_count never runs ahead of the messages, and
\* streams that neither overlapped nor broke leave it exact.
THEOREM CountsLagOnly == ChatSpec => []CountHonest
<1>1. ChatInv => CountHonest
  BY DEF ChatInv, ChatTypeOK, Behind, Exact, CountHonest
<1> QED BY <1>1, ChatAlways, PTL

\* For any number of streams: messages outlive their session only when a stream was
\* inside add while it was deleted.
THEOREM OrphansExplained == ChatSpec => []OrphansFromRunning
<1>1. ChatInv => OrphansFromRunning
  BY DEF ChatInv, Gone, OrphansFromRunning
<1> QED BY <1>1, ChatAlways, PTL

-----------------------------------------------------------------------------
(* The bound on the context. *)

\* The sets of streams that may still add messages are finite.
LEMMA SetsFinite ==
    /\ IsFiniteSet(MayAdd) /\ IsFiniteSet(MayAddTwice)
    /\ Cardinality(MayAdd) \in Nat /\ Cardinality(MayAddTwice) \in Nat
    /\ Cardinality(MayAdd) <= Cardinality(Stream)
    /\ Cardinality(MayAddTwice) <= Cardinality(Stream)
    /\ Cardinality(Stream) \in Nat
<1>1. MayAdd \in SUBSET Stream /\ MayAddTwice \in SUBSET Stream
  BY DEF MayAdd, MayAddTwice
<1> QED BY <1>1, ChatConstants, FS_Subset, FS_CardinalityType

\* Arithmetic of the bound: what a step adds to the messages it takes from the streams.
LEMMA Sums ==
    ASSUME NEW m \in Nat, NEW m1 \in Nat, NEW a \in Nat, NEW a1 \in Nat, NEW b \in Nat,
           NEW b1 \in Nat, NEW k \in Nat, NEW k1 \in Nat, NEW n \in Nat, NEW max \in Nat,
           m + a + b <= max - 1 + 2 * n + k,
           m1 + a1 + b1 + k <= m + a + b + k1
    PROVE  m1 + a1 + b1 <= max - 1 + 2 * n + k1
OBVIOUS

\* A step after which no more may come, nor more is stored.
LEMMA Fewer ==
    ASSUME ChatTypeOK, ChatTypeOK', Room, messages' <= messages, broken' >= broken,
           MayAdd' \subseteq MayAdd, MayAddTwice' \subseteq MayAddTwice
    PROVE  Room'
<1>1. /\ Cardinality(MayAdd') <= Cardinality(MayAdd) /\ Cardinality(MayAdd') \in Nat
      /\ Cardinality(MayAddTwice') <= Cardinality(MayAddTwice)
      /\ Cardinality(MayAddTwice') \in Nat
  BY SetsFinite, FS_Subset, FS_CardinalityType
<1> DEFINE a == Cardinality(MayAdd)
           b == Cardinality(MayAddTwice)
           a1 == Cardinality(MayAdd')
           b1 == Cardinality(MayAddTwice')
           n == Cardinality(Stream)
<1>2. /\ messages \in Nat /\ messages' \in Nat /\ broken \in Nat /\ broken' \in Nat
      /\ a \in Nat /\ b \in Nat /\ n \in Nat /\ MaxMessages \in Nat
  BY ChatConstants, SetsFinite DEF ChatTypeOK
<1>3. messages + a + b <= MaxMessages - 1 + 2 * n + broken
  BY DEF Room
<1>4. a1 <= a /\ b1 <= b /\ a1 \in Nat /\ b1 \in Nat
  BY <1>1
<1>5. messages' + a1 + b1 + broken <= messages + a + b + broken'
  BY <1>2, <1>4
<1>6. messages' + a1 + b1 <= MaxMessages - 1 + 2 * n + broken'
  BY <1>2, <1>3, <1>4, <1>5, Sums
<1> QED BY <1>6 DEF Room

\* Arithmetic of the bound for a stream that passes the check of the limit.
LEMMA SumsAtCheck ==
    ASSUME NEW m \in Nat, NEW a \in Nat, NEW b \in Nat, NEW k \in Nat, NEW n \in Nat,
           NEW max \in Nat, m < max, a <= n, b <= n
    PROVE  m + a + b <= max - 1 + 2 * n + k
OBVIOUS

\* A stream passes the check: there is room for the two messages of every stream.
LEMMA CheckRoom ==
    ASSUME ChatTypeOK, ChatTypeOK', messages < MaxMessages, messages' = messages
    PROVE  Room'
<1> DEFINE a1 == Cardinality(MayAdd')
           b1 == Cardinality(MayAddTwice')
           n == Cardinality(Stream)
<1>1. MayAdd' \in SUBSET Stream /\ MayAddTwice' \in SUBSET Stream
  BY DEF MayAdd, MayAddTwice
<1>2. a1 \in Nat /\ b1 \in Nat /\ n \in Nat /\ a1 <= n /\ b1 <= n
  BY <1>1, ChatConstants, FS_Subset, FS_CardinalityType
<1>3. /\ messages' \in Nat /\ broken' \in Nat /\ MaxMessages \in Nat
      /\ messages' < MaxMessages
  BY ChatConstants DEF ChatTypeOK
<1>4. messages' + a1 + b1 <= MaxMessages - 1 + 2 * n + broken'
  BY <1>2, <1>3, SumsAtCheck
<1> QED BY <1>4 DEF Room

\* An insert uses up one of the messages that may come.
LEMMA InsertRoom ==
    ASSUME ChatTypeOK, ChatTypeOK', Room, NEW s \in Stream, InsertMessage(s)
    PROVE  Room'
<1> DEFINE a == Cardinality(MayAdd)
           b == Cardinality(MayAddTwice)
           a1 == Cardinality(MayAdd')
           b1 == Cardinality(MayAddTwice')
           n == Cardinality(Stream)
<1>1. s \in MayAdd /\ (role[s] = "user" => s \in MayAddTwice)
  BY DEF InsertMessage, Step, MayAdd, MayAddTwice
<1>2. /\ at' = [at EXCEPT ![s] = "count"] /\ role' = role
      /\ messages' = messages + 1 /\ broken' = broken
  BY DEF InsertMessage, Step
<1>3. /\ a \in Nat /\ b \in Nat /\ n \in Nat /\ MaxMessages \in Nat
      /\ messages \in Nat /\ broken \in Nat
      /\ messages + a + b <= MaxMessages - 1 + 2 * n + broken
  BY ChatConstants, SetsFinite DEF Room, ChatTypeOK
<1>4. a1 \in Nat /\ b1 \in Nat /\ a1 + b1 + 1 = a + b
  <2>1. CASE role[s] = "user"
    <3>1. MayAdd' = MayAdd /\ MayAddTwice' = MayAddTwice \ {s}
      BY <1>1, <1>2, <2>1 DEF ChatTypeOK, MayAdd, MayAddTwice
    <3>2. a1 = a /\ b1 = b - 1 /\ b1 \in Nat
      BY <3>1, <1>1, <2>1, SetsFinite, FS_RemoveElement, FS_CardinalityType
    <3> QED BY <3>2, <1>3
  <2>2. CASE role[s] # "user"
    <3>1. MayAdd' = MayAdd \ {s} /\ MayAddTwice' = MayAddTwice
      BY <1>1, <1>2, <2>2 DEF ChatTypeOK, MayAdd, MayAddTwice
    <3>2. a1 = a - 1 /\ b1 = b /\ a1 \in Nat
      BY <3>1, <1>1, SetsFinite, FS_RemoveElement, FS_CardinalityType
    <3> QED BY <3>2, <1>3
  <2> QED BY <2>1, <2>2
<1>5. /\ messages' \in Nat /\ broken' \in Nat
      /\ messages' + a1 + b1 + broken <= messages + a + b + broken'
  BY <1>2, <1>3, <1>4
<1>6. messages' + a1 + b1 <= MaxMessages - 1 + 2 * n + broken'
  BY <1>3, <1>4, <1>5, Sums
<1> QED BY <1>6 DEF Room

\* A failing add makes room for no more than the error message.
LEMMA ThrowRoom ==
    ASSUME ChatTypeOK, ChatTypeOK', Room, NEW s \in Stream, AddThrows(s)
    PROVE  Room'
<1>1. MayAdd' \subseteq MayAdd \cup {s} /\ MayAddTwice' \subseteq MayAddTwice
  <2>1. Resume(s)
    BY DEF AddThrows
  <2> QED BY <2>1, ResumeEffect DEF MayAdd, MayAddTwice
<1> DEFINE a == Cardinality(MayAdd)
           b == Cardinality(MayAddTwice)
           a1 == Cardinality(MayAdd')
           b1 == Cardinality(MayAddTwice')
           n == Cardinality(Stream)
<1>2. a \in Nat /\ b \in Nat /\ n \in Nat
  BY SetsFinite
<1>3. a1 \in Nat /\ a1 <= a + 1
  <2>1. /\ IsFiniteSet(MayAdd \cup {s})
        /\ Cardinality(MayAdd \cup {s}) <= a + 1 /\ Cardinality(MayAdd \cup {s}) \in Nat
    <3>1. /\ IsFiniteSet(MayAdd \cup {s})
          /\ Cardinality(MayAdd \cup {s}) = IF s \in MayAdd THEN a ELSE a + 1
      BY SetsFinite, FS_AddElement
    <3>2. Cardinality(MayAdd \cup {s}) \in Nat
      BY <3>1, FS_CardinalityType
    <3> QED BY <1>2, <3>1, <3>2
  <2>2. a1 <= Cardinality(MayAdd \cup {s}) /\ IsFiniteSet(MayAdd')
    BY <1>1, <2>1, FS_Subset
  <2>3. a1 \in Nat
    BY <2>2, FS_CardinalityType
  <2> QED BY <2>1, <2>2, <2>3, <1>2
<1>4. b1 \in Nat /\ b1 <= b
  BY <1>1, SetsFinite, FS_Subset, FS_CardinalityType
<1>5. messages' = messages /\ broken' = broken + 1 /\ messages \in Nat /\ broken \in Nat
  BY DEF AddThrows, ChatFault, ChatTypeOK
<1>6. messages + a + b <= MaxMessages - 1 + 2 * n + broken /\ MaxMessages \in Nat
  BY ChatConstants DEF Room
<1>7. /\ messages' \in Nat /\ broken' \in Nat
      /\ messages' + a1 + b1 + broken <= messages + a + b + broken'
  BY <1>2, <1>3, <1>4, <1>5
<1>8. messages' + a1 + b1 <= MaxMessages - 1 + 2 * n + broken'
  BY <1>2, <1>3, <1>4, <1>5, <1>6, <1>7, Sums
<1> QED BY <1>8 DEF Room

\* Every step keeps room for the messages that may still come.
LEMMA RoomStep ==
    ASSUME ChatTypeOK, ChatTypeOK', Room, [ChatNext]_chatVars
    PROVE  Room'
<1>1. ASSUME NEW s \in Stream, CheckLimit(s) PROVE Room'
  <2>1. CASE at' = [at EXCEPT ![s] = "owner"] /\ messages < MaxMessages
    BY <1>1, <2>1, CheckRoom DEF CheckLimit
  <2>2. CASE ~(at' = [at EXCEPT ![s] = "owner"] /\ messages < MaxMessages)
    <3>1. /\ at' = [at EXCEPT ![s] = "idle"]
          /\ role' = role /\ messages' = messages /\ broken' = broken
      BY <1>1, <2>2, ChatConstants DEF CheckLimit, Step, LimitReached, ChatTypeOK
    <3>2. MayAdd' \subseteq MayAdd /\ MayAddTwice' \subseteq MayAddTwice
      BY <3>1 DEF ChatTypeOK, MayAdd, MayAddTwice
    <3> QED BY <3>1, <3>2, Fewer DEF ChatTypeOK
  <2> QED BY <2>1, <2>2
<1>2. ASSUME NEW s \in Stream, InsertMessage(s) PROVE Room'
  BY <1>2, InsertRoom
<1>3. ASSUME NEW s \in Stream, AddThrows(s) PROVE Room'
  BY <1>3, ThrowRoom
<1>4. ASSUME NEW s \in Stream,
             \/ Send(s) \/ SelectSession(s) \/ CreateSession(s) \/ TouchSession(s)
             \/ CountMessages(s) \/ WriteMeta(s)
      PROVE  Room'
  <2>1. /\ role' = role /\ messages' = messages /\ broken' = broken
        /\ \/ at[s] \in {"idle", "select", "create", "touch"}
              /\ \E l \in {"idle", "select", "create", "touch", "limit"} :
                    at' = [at EXCEPT ![s] = l]
           \/ at[s] \in {"count", "write"}
              /\ at' = [at EXCEPT ![s] = IF role[s] = "user" THEN "wait" ELSE "idle"]
           \/ at[s] = "count" /\ at' = [at EXCEPT ![s] = "write"]
    BY <1>4 DEF Send, SelectSession, CreateSession, TouchSession, CountMessages, WriteMeta,
                Step, AfterAdd
  <2>2. MayAdd' \subseteq MayAdd /\ MayAddTwice' \subseteq MayAddTwice
    BY <2>1 DEF ChatTypeOK, MayAdd, MayAddTwice
  <2> QED BY <2>1, <2>2, Fewer DEF ChatTypeOK
<1>5. ASSUME NEW s \in Stream, LookUpOwner(s) \/ Reply(s) PROVE Room'
  <2>1. messages' = messages /\ broken' = broken /\ at[s] \in {"owner", "wait"}
    BY <1>5 DEF LookUpOwner, Reply
  <2>2. MayAdd' \subseteq MayAdd /\ MayAddTwice' \subseteq MayAddTwice
    <3>1. CASE Resume(s)
      BY <2>1, <3>1, ResumeEffect DEF MayAdd, MayAddTwice
    <3>2. CASE ~Resume(s)
      <4>1. \/ at' = [at EXCEPT ![s] = "insert"] /\ role' = role /\ at[s] = "owner"
            \/ at' = [at EXCEPT ![s] = "owner"] /\ role' = [role EXCEPT ![s] = "answer"]
        BY <1>5, <3>2 DEF LookUpOwner, Reply, Step
      <4> QED BY <2>1, <4>1 DEF ChatTypeOK, MayAdd, MayAddTwice
    <3> QED BY <3>1, <3>2
  <2> QED BY <2>1, <2>2, Fewer DEF ChatTypeOK
<1>6. ASSUME NEW s \in Stream, StreamBreaks(s) PROVE Room'
  <2>1. /\ at' = [at EXCEPT ![s] = "idle"] /\ role' = role /\ messages' = messages
        /\ broken' = broken + 1
    BY <1>6 DEF StreamBreaks, ChatFault
  <2>2. MayAdd' \subseteq MayAdd /\ MayAddTwice' \subseteq MayAddTwice
    BY <2>1 DEF ChatTypeOK, MayAdd, MayAddTwice
  <2> QED BY <2>1, <2>2, Fewer DEF ChatTypeOK
<1>7. CASE Delete \/ UNCHANGED chatVars
  <2>1. at' = at /\ role' = role /\ broken' = broken /\ messages' \in {0, messages}
    BY <1>7 DEF Delete, AskDelete, DeleteChat, ClearMemory, Remaining, streamVars, chatVars
  <2>2. MayAdd' = MayAdd /\ MayAddTwice' = MayAddTwice
    BY <2>1 DEF MayAdd, MayAddTwice
  <2> QED BY <2>1, <2>2, Fewer DEF ChatTypeOK
<1> QED BY <1>1, <1>2, <1>3, <1>4, <1>5, <1>6, <1>7 DEF ChatNext, Prepare, Add

\* For any number of streams and any limit: streams that pass the check together
\* store two messages each beyond it at most, and one more for each failure.
THEOREM ContextStaysBounded == ChatSpec => []ContextBounded
<1>1. ChatInit => Room
  <2> SUFFICES ASSUME ChatInit PROVE Room
    OBVIOUS
  <2>1. MayAdd = {} /\ MayAddTwice = {} /\ messages = 0 /\ broken = 0
    BY DEF ChatInit, MayAdd, MayAddTwice
  <2>2. Cardinality(MayAdd) = 0 /\ Cardinality(MayAddTwice) = 0
    BY <2>1, FS_EmptySet
  <2> QED BY <2>1, <2>2, SetsFinite, ChatConstants DEF Room
<1>2. ChatInv /\ ChatInv' /\ Room /\ [ChatNext]_chatVars => Room'
  BY RoomStep DEF ChatInv
<1>3. ChatInv /\ Room => ContextBounded
  BY SetsFinite, ChatConstants DEF ChatInv, ChatTypeOK, Room, ContextBounded
<1> QED BY <1>1, <1>2, <1>3, ChatAlways, PTL DEF ChatSpec
=============================================================================
