----------------------------- MODULE BlogLikes -----------------------------
(***************************************************************************)
(* The likes of one blog (BlogServiceImpl.likeBlog, deleteBlog): a counter *)
(* in tb_blog, the set of those who like it in Redis, and requests that    *)
(* look at the set, change the counter and then the set.                   *)
(***************************************************************************)
EXTENDS Integers, FiniteSets

CONSTANTS
    LikeRequest,  \* places for requests to /blog/like/{id}
    Fan,          \* users
    MaxLiked      \* bound: the counter

ASSUME LikeConstants == IsFiniteSet(Fan) /\ MaxLiked \in Nat

VARIABLES
    blog,      \* the row, and deleteBlog between its two statements
    liked,     \* its counter, INT UNSIGNED
    likers,    \* blog:liked:{id}
    step, fan, \* requests: where they are, whose
    torn       \* history: fans whose requests overlapped, or of whom one failed halfway

likeVars == <<blog, liked, likers, step, fan, torn>>

LikesInit ==
    /\ blog = "posted" /\ liked = 0 /\ likers = {} /\ torn = {}
    /\ step = [r \in LikeRequest |-> "idle"]
    /\ fan \in [LikeRequest -> Fan]

Posted == blog = "posted"

LikeStep(r, from, to) == step[r] = from /\ step' = [step EXCEPT ![r] = to]

AskLike(r, f) ==
    /\ LikeStep(r, "idle", "score")
    /\ fan' = [fan EXCEPT ![r] = f]
    /\ torn' = IF \E o \in LikeRequest \ {r} : step[o] # "idle" /\ fan[o] = f
               THEN torn \cup {f} ELSE torn
    /\ UNCHANGED <<blog, liked, likers>>

ReadScore(r) ==
    /\ LikeStep(r, "score", IF fan[r] \in likers THEN "dec" ELSE "inc")
    /\ UNCHANGED <<blog, liked, likers, fan, torn>>

\* UPDATE ... liked + 1; nothing more happens when there is no such row.
Increase(r) ==
    /\ liked < MaxLiked
    /\ LikeStep(r, "inc", IF Posted THEN "add" ELSE "idle")
    /\ liked' = IF Posted THEN liked + 1 ELSE liked
    /\ UNCHANGED <<blog, likers, fan, torn>>

\* Changed form: a signed column.
CanAlways == Posted

\* INT UNSIGNED: below zero the statement throws.
CanDecrease == Posted /\ liked > 0

\* UPDATE ... liked - 1.
Decrease(r) ==
    /\ LikeStep(r, "dec", IF CanDecrease THEN "remove" ELSE "idle")
    /\ liked' = IF CanDecrease THEN liked - 1 ELSE liked
    /\ UNCHANGED <<blog, likers, fan, torn>>

AddLiker(r) ==
    /\ LikeStep(r, "add", "idle")
    /\ likers' = likers \cup {fan[r]}
    /\ UNCHANGED <<blog, liked, fan, torn>>

\* Changed form: the fan stays in the set.
KeptLiker(r) == likers

WithoutLiker(r) == likers \ {fan[r]}

RemoveLiker(r) ==
    /\ LikeStep(r, "remove", "idle")
    /\ likers' = WithoutLiker(r)
    /\ UNCHANGED <<blog, liked, fan, torn>>

\* A statement throws or the instance dies.
LikeBreaks(r) ==
    /\ step[r] # "idle" /\ LikeStep(r, step[r], "idle")
    /\ torn' = torn \cup {fan[r]}
    /\ UNCHANGED <<blog, liked, likers, fan>>

\* deleteBlog: the row, then the key.
DeleteBlog ==
    /\ Posted /\ blog' = "deleted"
    /\ UNCHANGED <<liked, likers, step, fan, torn>>

DeleteLikers ==
    /\ blog = "deleted" /\ blog' = "gone"
    /\ likers' = {}
    /\ UNCHANGED <<liked, step, fan, torn>>

LikesNext ==
    \/ \E r \in LikeRequest :
          \/ ReadScore(r) \/ Increase(r) \/ Decrease(r)
          \/ AddLiker(r) \/ RemoveLiker(r) \/ LikeBreaks(r)
          \/ \E f \in Fan : AskLike(r, f)
    \/ DeleteBlog \/ DeleteLikers

LikesSpec == LikesInit /\ [][LikesNext]_likeVars

-----------------------------------------------------------------------------
LikesTypeOK ==
    /\ blog \in {"posted", "deleted", "gone"} /\ liked \in Nat
    /\ likers \subseteq Fan /\ torn \subseteq Fan
    /\ step \in [LikeRequest -> {"idle", "score", "inc", "dec", "add", "remove"}]
    /\ fan \in [LikeRequest -> Fan]

\* The fans the counter counts: the set, ahead of it by the requests between their
\* two writes.
At(label) == {fan[r] : r \in {q \in LikeRequest : step[q] = label}}
CountedFans == (likers \cup At("add")) \ At("remove")

\* The counter is the number of those who like the blog, with requests of different
\* fans in any order, as long as no fan clicks twice at once and no request stops
\* between its two writes; the damage of a fan who did is not repaired.
LikesAddUp == Posted /\ torn = {} => liked = Cardinality(CountedFans)
=============================================================================
