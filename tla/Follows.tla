------------------------------ MODULE Follows ------------------------------
(***************************************************************************)
(* One user follows another or not (FollowServiceImpl.follow): the rows of *)
(* tb_follow, which no index keeps single, and the user's set in Redis,    *)
(* from which the common follows are answered.                             *)
(***************************************************************************)
EXTENDS Naturals

CONSTANTS
    FollowRequest, \* places for requests to /follow/{id}/{isFollow}
    MaxRows        \* bound: rows for the pair

ASSUME FollowConstants == MaxRows \in Nat

VARIABLES
    rows,     \* rows for the pair
    member,   \* follows:{user} holds the other
    doing,    \* requests: the statement they are at
    alone,    \* history: requests that have met no other one
    tornPair  \* history: a request met another one or stopped, not repaired since

followVars == <<rows, member, doing, alone, tornPair>>

FollowsInit ==
    /\ rows = 0 /\ member = FALSE
    /\ doing = [r \in FollowRequest |-> "idle"]
    /\ alone = [r \in FollowRequest |-> FALSE] /\ tornPair = FALSE

Does(r, from, to) == doing[r] = from /\ doing' = [doing EXCEPT ![r] = to]

AskFollow(r, wish) ==
    /\ Does(r, "idle", wish)
    /\ LET others == {o \in FollowRequest : doing[o] # "idle"}
       IN  /\ alone' = [o \in FollowRequest |-> IF o = r THEN others = {} ELSE FALSE]
           /\ tornPair' = (tornPair \/ others # {})
    /\ UNCHANGED <<rows, member>>

SaveFollow(r) ==
    /\ rows < MaxRows
    /\ Does(r, "save", "sadd")
    /\ rows' = rows + 1
    /\ UNCHANGED <<member, alone, tornPair>>

\* A follow that ran alone leaves both stores right, whatever they held before.
AddMember(r) ==
    /\ Does(r, "sadd", "idle")
    /\ member' = TRUE
    /\ tornPair' = (tornPair /\ ~alone[r])
    /\ UNCHANGED <<rows, alone>>

\* Changed form: LIMIT 1.
OneRowLess == rows - 1

RowsLeft == 0

\* Every row of the pair goes; Redis is left alone if there was none.
RemoveFollow(r) ==
    /\ Does(r, "remove", IF rows > 0 THEN "srem" ELSE "idle")
    /\ rows' = IF rows > 0 THEN RowsLeft ELSE 0
    /\ UNCHANGED <<member, alone, tornPair>>

RemoveMember(r) ==
    /\ Does(r, "srem", "idle")
    /\ member' = FALSE
    /\ tornPair' = (tornPair /\ ~alone[r])
    /\ UNCHANGED <<rows, alone>>

\* A statement throws or the instance dies.
FollowBreaks(r) ==
    /\ doing[r] # "idle" /\ Does(r, doing[r], "idle")
    /\ tornPair' = TRUE
    /\ UNCHANGED <<rows, member, alone>>

FollowsNext ==
    \E r \in FollowRequest :
        \/ \E wish \in {"save", "remove"} : AskFollow(r, wish)
        \/ SaveFollow(r) \/ AddMember(r) \/ RemoveFollow(r) \/ RemoveMember(r)
        \/ FollowBreaks(r)

FollowsSpec == FollowsInit /\ [][FollowsNext]_followVars

-----------------------------------------------------------------------------
FollowsTypeOK ==
    /\ rows \in 0..MaxRows /\ member \in BOOLEAN
    /\ doing \in [FollowRequest -> {"idle", "save", "sadd", "remove", "srem"}]
    /\ alone \in [FollowRequest -> BOOLEAN] /\ tornPair \in BOOLEAN

\* With no request under way the set of the common follows and the table say the
\* same, also after double rows: requests that overlap or stop halfway can part
\* them, and the next follow, or unfollow that finds a row, that runs alone to its
\* end brings them together.
FollowsAgree ==
    ~tornPair /\ (\A r \in FollowRequest : doing[r] = "idle") => (member <=> rows > 0)
=============================================================================
