--------------------------- MODULE ServicesProofs ---------------------------
(***************************************************************************)
(* Proofs about BloomFilter, BlogLikes, Follows, FeedScroll and ShopTypes  *)
(* for any number of shops, users, requests, rows and blogs: what two      *)
(* stores, or a store and a page, keep in step although no transaction     *)
(* spans them.  Then about the services as one system: what holds of each  *)
(* alone holds of all together.                                            *)
(***************************************************************************)
EXTENDS Services, IdWorkerProofs, ChatSessionProofs, LoginSessionProofs,
        FiguresProofs

-----------------------------------------------------------------------------
(* BloomFilter *)

\* When the filter exists, along the phases of a reload.
Phases ==
    /\ reload = "init" => ~bloom.exists
    /\ reload \in {"select", "load"} => bloom.exists
    /\ reload = "idle" /\ ~loadFailed => bloom.exists

\* A creation that has not met a reload finds the filter and its id stays in it.
Creating ==
    \A s \in Shop :
        /\ creating[s] # "done" => s \notin shops
        /\ creating[s] \in {"saved", "added"} /\ s \notin met => bloom.exists
        /\ creating[s] = "added" /\ s \notin met => s \in bloom.ids

\* What the reload still has to load, it has selected.
Covered ==
    /\ reload = "load" => shops \ met \subseteq bloom.ids \cup selected
    /\ reload = "idle" /\ ~loadFailed => shops \ met \subseteq bloom.ids

BloomInv == BloomTypeOK /\ Phases /\ Creating /\ Covered

\* A running system: the filter holds every shop.
LEMMA BloomInitInv == BloomInit => BloomInv
<1> SUFFICES ASSUME BloomInit PROVE BloomInv
  OBVIOUS
<1> USE DEF BloomInit
<1>1. /\ bloom \in [exists : BOOLEAN, ids : SUBSET Shop]
      /\ bloom.exists /\ bloom.ids = shops
  OBVIOUS
<1>2. BloomTypeOK
  BY <1>1 DEF BloomTypeOK
<1>3. Phases /\ Covered
  BY <1>1 DEF Phases, Covered
<1>4. Creating
  BY <1>1, Zenon DEF Creating
<1> QED BY <1>2, <1>3, <1>4 DEF BloomInv

\* The steps of createShop.
LEMMA CreateInv ==
    ASSUME BloomInv, NEW s \in Shop, Create(s)
    PROVE  BloomInv'
<1> USE DEF BloomInv, BloomTypeOK, Phases, Creating, Covered, Creation
<1>1. CASE SaveShop(s)
  BY <1>1 DEF SaveShop
<1>2. CASE AddElement(s)
  BY <1>2 DEF AddElement, Added
<1>3. CASE CommitShop(s)
  BY <1>3 DEF CommitShop
<1>4. CASE AbortShop(s)
  BY <1>4 DEF AbortShop
<1> QED BY <1>1, <1>2, <1>3, <1>4 DEF Create

\* The steps of a reload, and its failure.
LEMMA ReloadInv ==
    ASSUME BloomInv, Reload \/ ReloadFails
    PROVE  BloomInv'
<1> USE DEF BloomInv, BloomTypeOK, Phases, Creating, Covered
<1>1. CASE DeleteBloom
  BY <1>1 DEF DeleteBloom, InCreation
<1>2. CASE TryInitBloom
  BY <1>2 DEF TryInitBloom
<1>3. CASE SelectShops
  BY <1>3 DEF SelectShops
<1>4. ASSUME NEW s \in Shop, LoadOne(s) PROVE BloomInv'
  BY <1>4 DEF LoadOne
<1>5. CASE LoadDone
  BY <1>5 DEF LoadDone
<1>6. CASE ReloadFails
  BY <1>6 DEF ReloadFails
<1> QED BY <1>1, <1>2, <1>3, <1>4, <1>5, <1>6 DEF Reload

\* Every step keeps the invariant.
LEMMA BloomStep == BloomInv /\ [BloomNext]_bloomVars => BloomInv'
<1> SUFFICES ASSUME BloomInv, [BloomNext]_bloomVars PROVE BloomInv'
  OBVIOUS
<1>1. CASE UNCHANGED bloomVars
  BY <1>1 DEF bloomVars, BloomInv, BloomTypeOK, Phases, Creating, Covered
<1> QED BY <1>1, CreateInv, ReloadInv DEF BloomNext

\* The invariant holds in every behaviour.
LEMMA BloomAlways == BloomSpec => []BloomInv
BY BloomInitInv, BloomStep, PTL DEF BloomSpec

\* After a complete reload the filter of BloomFilterConfig denies no committed shop,
\* save those whose creation met a reload, for any number of shops.
THEOREM NothingDenied == BloomSpec => []NoShopDenied
<1>1. BloomInv => NoShopDenied
  BY DEF BloomInv, Covered, NoShopDenied, MightContain
<1> QED BY <1>1, BloomAlways, PTL
-----------------------------------------------------------------------------
(* BlogLikes *)

\* No fan has two requests under way.
OnePerFan ==
    \A q, r \in LikeRequest :
        step[q] # "idle" /\ step[r] # "idle" /\ fan[q] = fan[r] => q = r

\* What a request has read of the set still holds when it writes.
ScoreHolds ==
    \A r \in LikeRequest :
        /\ step[r] \in {"inc", "add"} => fan[r] \notin likers
        /\ step[r] \in {"dec", "remove"} => fan[r] \in likers

Agreement ==
    Posted /\ torn = {} =>
        OnePerFan /\ ScoreHolds /\ liked = Cardinality(CountedFans)

LikesInv == LikesTypeOK /\ Agreement

\* Every step keeps the types; INT UNSIGNED keeps the counter above zero.
LEMMA LikesTypeStep == LikesTypeOK /\ [LikesNext]_likeVars => LikesTypeOK'
<1> SUFFICES ASSUME LikesTypeOK, [LikesNext]_likeVars PROVE LikesTypeOK'
  OBVIOUS
<1> USE DEF LikesTypeOK, LikeStep
<1>1. ASSUME NEW r \in LikeRequest, NEW f \in Fan, AskLike(r, f) PROVE LikesTypeOK'
  BY <1>1 DEF AskLike
<1>2. ASSUME NEW r \in LikeRequest, ReadScore(r) PROVE LikesTypeOK'
  BY <1>2 DEF ReadScore
<1>3. ASSUME NEW r \in LikeRequest, Increase(r) PROVE LikesTypeOK'
  BY <1>3 DEF Increase
<1>4. ASSUME NEW r \in LikeRequest, Decrease(r) PROVE LikesTypeOK'
  BY <1>4 DEF Decrease, CanDecrease
<1>5. ASSUME NEW r \in LikeRequest, AddLiker(r) \/ RemoveLiker(r) PROVE LikesTypeOK'
  BY <1>5 DEF AddLiker, RemoveLiker, WithoutLiker
<1>6. ASSUME NEW r \in LikeRequest, LikeBreaks(r) PROVE LikesTypeOK'
  BY <1>6 DEF LikeBreaks
<1>7. CASE DeleteBlog \/ DeleteLikers \/ UNCHANGED likeVars
  BY <1>7 DEF DeleteBlog, DeleteLikers, likeVars
<1> QED BY <1>1, <1>2, <1>3, <1>4, <1>5, <1>6, <1>7 DEF LikesNext

\* The sets that are counted are finite.
LEMMA CountedFinite ==
    ASSUME LikesTypeOK
    PROVE  CountedFans \subseteq Fan /\ IsFiniteSet(CountedFans)
<1>1. CountedFans \subseteq Fan
  BY DEF CountedFans, At, LikesTypeOK
<1> QED BY <1>1, LikeConstants, FS_Subset

\* A step that changes neither the counter nor whom it counts.
LEMMA SameCount ==
    ASSUME Agreement, Posted, torn = {},
           liked' = liked, CountedFans' = CountedFans, OnePerFan', ScoreHolds'
    PROVE  Agreement'
BY DEF Agreement

\* A first like counts a fan who was not counted.
LEMMA IncreaseAgrees ==
    ASSUME LikesInv, Posted, torn = {}, NEW r \in LikeRequest, Increase(r)
    PROVE  Agreement'
<1> USE DEF LikesInv, LikesTypeOK, LikeStep
<1>1. OnePerFan /\ ScoreHolds /\ liked = Cardinality(CountedFans)
  BY DEF Agreement
<1>2. /\ step[r] = "inc" /\ step' = [step EXCEPT ![r] = "add"]
      /\ liked' = liked + 1 /\ UNCHANGED <<blog, likers, fan, torn>>
  BY DEF Increase
<1>3. OnePerFan' /\ ScoreHolds'
  BY <1>1, <1>2 DEF OnePerFan, ScoreHolds
<1>4. fan[r] \notin CountedFans
  BY <1>1, <1>2 DEF OnePerFan, ScoreHolds, CountedFans, At
<1>5. CountedFans' = CountedFans \cup {fan[r]}
  BY <1>1, <1>2 DEF OnePerFan, CountedFans, At
<1>6. Cardinality(CountedFans') = Cardinality(CountedFans) + 1
  BY <1>4, <1>5, CountedFinite, FS_AddElement
<1> QED BY <1>1, <1>2, <1>3, <1>6 DEF Agreement

\* An unlike takes away a fan who was counted, so the counter is not zero.
LEMMA DecreaseAgrees ==
    ASSUME LikesInv, Posted, torn = {}, NEW r \in LikeRequest, Decrease(r)
    PROVE  Agreement'
<1> USE DEF LikesInv, LikesTypeOK, LikeStep
<1>1. OnePerFan /\ ScoreHolds /\ liked = Cardinality(CountedFans)
  BY DEF Agreement
<1>2. step[r] = "dec" /\ UNCHANGED <<blog, likers, fan, torn>>
  BY DEF Decrease
<1>3. fan[r] \in CountedFans
  BY <1>1, <1>2 DEF OnePerFan, ScoreHolds, CountedFans, At
<1>4. /\ IsFiniteSet(CountedFans \ {fan[r]})
      /\ Cardinality(CountedFans \ {fan[r]}) = Cardinality(CountedFans) - 1
  BY <1>3, CountedFinite, FS_RemoveElement
<1>5. liked > 0
  BY <1>1, <1>4, FS_CardinalityType
<1>6. step' = [step EXCEPT ![r] = "remove"] /\ liked' = liked - 1
  BY <1>5 DEF Decrease, CanDecrease
<1>7. OnePerFan' /\ ScoreHolds'
  BY <1>1, <1>2, <1>6 DEF OnePerFan, ScoreHolds
<1>8. CountedFans' = CountedFans \ {fan[r]}
  BY <1>1, <1>2, <1>6 DEF OnePerFan, CountedFans, At
<1> QED BY <1>1, <1>2, <1>4, <1>6, <1>7, <1>8 DEF Agreement

\* Every step keeps the agreement.
LEMMA AgreementStep ==
    ASSUME LikesInv, [LikesNext]_likeVars
    PROVE  Agreement'
<1> SUFFICES ASSUME Posted', torn' = {} PROVE Agreement'
  BY DEF Agreement
<1> USE DEF LikesInv, LikesTypeOK, LikeStep
<1>1. Posted /\ torn = {}
  BY DEF LikesNext, AskLike, ReadScore, Increase, Decrease, AddLiker, RemoveLiker,
         LikeBreaks, DeleteBlog, DeleteLikers, likeVars, Posted
<1>2. OnePerFan /\ ScoreHolds /\ liked = Cardinality(CountedFans)
  BY <1>1 DEF Agreement
<1>3. ASSUME NEW r \in LikeRequest, NEW f \in Fan, AskLike(r, f) PROVE Agreement'
  <2>1. /\ step[r] = "idle" /\ step' = [step EXCEPT ![r] = "score"]
        /\ fan' = [fan EXCEPT ![r] = f] /\ UNCHANGED <<blog, liked, likers>>
    BY <1>3 DEF AskLike
  <2>2. \A o \in LikeRequest \ {r} : step[o] = "idle" \/ fan[o] # f
    BY <1>3 DEF AskLike
  <2>3. OnePerFan' /\ ScoreHolds'
    BY <1>2, <2>1, <2>2 DEF OnePerFan, ScoreHolds
  <2>4. CountedFans' = CountedFans
    BY <2>1 DEF CountedFans, At
  <2> QED BY <1>1, <2>1, <2>3, <2>4, SameCount
<1>4. ASSUME NEW r \in LikeRequest, ReadScore(r) PROVE Agreement'
  <2>1. /\ step[r] = "score"
        /\ step' = [step EXCEPT ![r] = IF fan[r] \in likers THEN "dec" ELSE "inc"]
        /\ UNCHANGED <<blog, liked, likers, fan>>
    BY <1>4 DEF ReadScore
  <2>2. OnePerFan' /\ ScoreHolds'
    BY <1>2, <2>1 DEF OnePerFan, ScoreHolds
  <2>3. CountedFans' = CountedFans
    BY <2>1 DEF CountedFans, At
  <2> QED BY <1>1, <2>1, <2>2, <2>3, SameCount
<1>5. ASSUME NEW r \in LikeRequest, Increase(r) PROVE Agreement'
  BY <1>1, <1>5, IncreaseAgrees
<1>6. ASSUME NEW r \in LikeRequest, Decrease(r) PROVE Agreement'
  BY <1>1, <1>6, DecreaseAgrees
<1>7. ASSUME NEW r \in LikeRequest, AddLiker(r) PROVE Agreement'
  <2>1. /\ step[r] = "add" /\ step' = [step EXCEPT ![r] = "idle"]
        /\ likers' = likers \cup {fan[r]} /\ UNCHANGED <<blog, liked, fan>>
    BY <1>7 DEF AddLiker
  <2>2. OnePerFan' /\ ScoreHolds'
    BY <1>2, <2>1 DEF OnePerFan, ScoreHolds
  <2>3. CountedFans' = CountedFans
    BY <1>2, <2>1 DEF OnePerFan, CountedFans, At
  <2> QED BY <1>1, <2>1, <2>2, <2>3, SameCount
<1>8. ASSUME NEW r \in LikeRequest, RemoveLiker(r) PROVE Agreement'
  <2>1. /\ step[r] = "remove" /\ step' = [step EXCEPT ![r] = "idle"]
        /\ likers' = likers \ {fan[r]} /\ UNCHANGED <<blog, liked, fan>>
    BY <1>8 DEF RemoveLiker, WithoutLiker
  <2>2. OnePerFan' /\ ScoreHolds'
    BY <1>2, <2>1 DEF OnePerFan, ScoreHolds
  <2>3. CountedFans' = CountedFans
    BY <1>2, <2>1 DEF OnePerFan, CountedFans, At
  <2> QED BY <1>1, <2>1, <2>2, <2>3, SameCount
<1>9. CASE (\E r \in LikeRequest : LikeBreaks(r)) \/ DeleteBlog \/ DeleteLikers
  BY <1>9 DEF LikeBreaks, DeleteBlog, DeleteLikers, Posted
<1>10. CASE UNCHANGED likeVars
  BY <1>10 DEF likeVars, Agreement, Posted, OnePerFan, ScoreHolds, CountedFans, At
<1> QED BY <1>3, <1>4, <1>5, <1>6, <1>7, <1>8, <1>9, <1>10 DEF LikesNext

\* The invariant holds in every behaviour.
LEMMA LikesAlways == LikesSpec => []LikesInv
<1>1. LikesInit => LikesInv
  <2> SUFFICES ASSUME LikesInit PROVE LikesInv
    OBVIOUS
  <2>1. LikesTypeOK
    BY DEF LikesInit, LikesTypeOK
  <2>2. OnePerFan /\ ScoreHolds /\ CountedFans = {} /\ liked = 0
    BY DEF LikesInit, OnePerFan, ScoreHolds, CountedFans, At
  <2> QED BY <2>1, <2>2, FS_EmptySet DEF LikesInv, Agreement
<1>2. LikesInv /\ [LikesNext]_likeVars => LikesInv'
  BY LikesTypeStep, AgreementStep DEF LikesInv
<1> QED BY <1>1, <1>2, PTL DEF LikesSpec

\* For any number of fans and requests the counter of the blog is the number of those
\* who like it, requests between their two writes included, until a fan clicks twice at
\* once or a request stops halfway.
THEOREM LikesStayEqual == LikesSpec => []LikesAddUp
<1>1. LikesInv => LikesAddUp
  BY DEF LikesInv, Agreement, LikesAddUp
<1> QED BY <1>1, LikesAlways, PTL

-----------------------------------------------------------------------------
(* Follows *)

Busy(r) == doing[r] # "idle"

\* A request that has met no other one is the only one, and until something is torn
\* every request is such a request.
Solitude ==
    \A r \in FollowRequest :
        /\ Busy(r) /\ alone[r] => \A o \in FollowRequest : Busy(o) => o = r
        /\ Busy(r) /\ ~tornPair => alone[r]

\* Between its two writes such a request knows what the table holds; at any other
\* time the stores agree unless they are torn.
PairAgrees ==
    /\ \A r \in FollowRequest :
          /\ alone[r] /\ doing[r] = "sadd" => rows > 0
          /\ alone[r] /\ doing[r] = "srem" => rows = 0
    /\ ~tornPair /\ (\A r \in FollowRequest : doing[r] \notin {"sadd", "srem"})
          => (member <=> rows > 0)

FollowsInv == FollowsTypeOK /\ Solitude /\ PairAgrees

\* The steps of one request keep the invariant.
LEMMA FollowsStep ==
    ASSUME FollowsInv, [FollowsNext]_followVars
    PROVE  FollowsInv'
<1> USE FollowConstants DEF FollowsInv, FollowsTypeOK, Solitude, PairAgrees, Busy, Does
<1>1. ASSUME NEW r \in FollowRequest, NEW wish \in {"save", "remove"}, AskFollow(r, wish)
      PROVE  FollowsInv'
  <2> DEFINE others == {o \in FollowRequest : doing[o] # "idle"}
  <2>1. /\ doing[r] = "idle" /\ doing' = [doing EXCEPT ![r] = wish]
        /\ alone' = [o \in FollowRequest |-> IF o = r THEN others = {} ELSE FALSE]
        /\ tornPair' = (tornPair \/ others # {})
        /\ UNCHANGED <<rows, member>>
    BY <1>1 DEF AskFollow
  <2>2. FollowsTypeOK'
    BY <2>1
  <2>3. Solitude'
    BY <2>1
  <2>4. PairAgrees'
    BY <2>1
  <2> QED BY <2>2, <2>3, <2>4
<1>2. ASSUME NEW r \in FollowRequest, SaveFollow(r) PROVE FollowsInv'
  BY <1>2 DEF SaveFollow
<1>3. ASSUME NEW r \in FollowRequest, AddMember(r) PROVE FollowsInv'
  BY <1>3 DEF AddMember
<1>4. ASSUME NEW r \in FollowRequest, RemoveFollow(r) PROVE FollowsInv'
  BY <1>4 DEF RemoveFollow, RowsLeft
<1>5. ASSUME NEW r \in FollowRequest, RemoveMember(r) PROVE FollowsInv'
  <2>1. /\ doing[r] = "srem" /\ doing' = [doing EXCEPT ![r] = "idle"]
        /\ member' = FALSE /\ tornPair' = (tornPair /\ ~alone[r])
        /\ UNCHANGED <<rows, alone>>
    BY <1>5 DEF RemoveMember
  <2>2. FollowsTypeOK'
    BY <2>1
  <2>3. Solitude'
    BY <2>1
  <2>4. ASSUME ~tornPair' PROVE rows' = 0
    BY <2>1, <2>4
  <2>5. PairAgrees'
    <3>1. rows' = 0 => ~(rows' > 0)
      OBVIOUS
    <3> QED BY <2>1, <2>4, <3>1
  <2> QED BY <2>2, <2>3, <2>5
<1>6. ASSUME NEW r \in FollowRequest, FollowBreaks(r) PROVE FollowsInv'
  BY <1>6 DEF FollowBreaks
<1>7. CASE UNCHANGED followVars
  BY <1>7 DEF followVars
<1> QED BY <1>1, <1>2, <1>3, <1>4, <1>5, <1>6, <1>7 DEF FollowsNext

\* The invariant holds in every behaviour.
LEMMA FollowsAlways == FollowsSpec => []FollowsInv
<1>1. FollowsInit => FollowsInv
  <2> SUFFICES ASSUME FollowsInit PROVE FollowsInv
    OBVIOUS
  <2>1. FollowsTypeOK
    <3>1. member \in BOOLEAN /\ tornPair \in BOOLEAN
      BY DEF FollowsInit
    <3>2. rows \in 0..MaxRows
      BY FollowConstants DEF FollowsInit
    <3>3. /\ doing \in [FollowRequest -> {"idle", "save", "sadd", "remove", "srem"}]
          /\ alone \in [FollowRequest -> BOOLEAN]
      BY DEF FollowsInit
    <3> QED BY <3>1, <3>2, <3>3 DEF FollowsTypeOK
  <2>2. Solitude
    BY DEF FollowsInit, Solitude, Busy
  <2>3. ~member /\ ~(rows > 0) /\ (\A r \in FollowRequest : ~alone[r])
    BY DEF FollowsInit
  <2> QED BY <2>1, <2>2, <2>3 DEF FollowsInv, PairAgrees
<1>2. FollowsInv /\ [FollowsNext]_followVars => FollowsInv'
  BY FollowsStep
<1> QED BY <1>1, <1>2, PTL DEF FollowsSpec

\* For any number of requests the set of the common follows and the table say the
\* same once nobody works on the pair and nothing is torn.
THEOREM FollowsStayEqual == FollowsSpec => []FollowsAgree
<1>1. FollowsInv => FollowsAgree
  BY DEF FollowsInv, PairAgrees, FollowsAgree
<1> QED BY <1>1, FollowsAlways, PTL

-----------------------------------------------------------------------------
(* FeedScroll *)

\* With one request at a time, what is shown lies at or above the cursor of the page
\* and what comes lies below it.
OneAtATime ==
    /\ \A p, q \in FeedRequest : request[p] # Idle /\ request[q] # Idle => p = q
    /\ \A q \in FeedRequest :
          /\ request[q].kind = "sent" => request[q].cursor = lastId
          /\ request[q].kind = "answer" =>
                \A b \in request[q].page : lastId = 0 \/ b < lastId
    /\ \A b \in BlogId : shown[b] > 0 => lastId > 0 /\ b >= lastId
    /\ \A b \in BlogId : shown[b] <= 1

\* Whatever cursor a request has, and whatever page it brings, the steady blogs at or
\* above it are shown already or on that page.
PageCovers ==
    \A q \in FeedRequest :
        /\ request[q].kind = "sent" /\ request[q].cursor > 0 =>
              \A b \in steady : b >= request[q].cursor => shown[b] > 0
        /\ request[q].kind = "answer" =>
              \A a \in request[q].page, b \in steady :
                  b >= a => b \in request[q].page \/ shown[b] > 0

FeedInv ==
    /\ FeedTypeOK /\ NothingSkipped /\ PageCovers
    /\ ~doubled => OneAtATime

\* A page has no gap: what lies above one of its blogs and below the cursor is on it.
LEMMA PageHasNoGap ==
    ASSUME NEW S, S \subseteq BlogId, NEW a \in PageOf(S), NEW b \in S, b >= a
    PROVE  b \in PageOf(S)
<1>1. IsFiniteSet(BlogId)
  BY FeedConstants, FS_Interval DEF BlogId
<1> DEFINE above(x) == {y \in S : y > x}
<1>2. IsFiniteSet(above(a)) /\ IsFiniteSet(above(b))
  BY <1>1, FS_Subset
<1>3. above(b) \subseteq above(a)
  <2>1. S \subseteq Nat /\ a \in Nat /\ b \in Nat
    BY FeedConstants DEF BlogId, PageOf
  <2>2. \A x, y, z \in Nat : x > y /\ y >= z => x > z
    OBVIOUS
  <2> QED BY <2>1, <2>2
<1>4. Cardinality(above(b)) <= Cardinality(above(a))
  BY <1>2, <1>3, FS_Subset
<1>5. Cardinality(above(a)) < PageSize
  BY DEF PageOf
<1>6. Cardinality(above(a)) \in Nat /\ Cardinality(above(b)) \in Nat
  BY <1>2, FS_CardinalityType
<1>7. Cardinality(above(b)) < PageSize
  BY <1>4, <1>5, <1>6, FeedConstants
<1> QED BY <1>7 DEF PageOf
\* Which blog a page ends with, and what the page then shows.
LEMMA Appended ==
    ASSUME FeedTypeOK, NEW q \in FeedRequest, ShowPage(q)
    PROVE  /\ request[q].kind = "answer" /\ request' = [request EXCEPT ![q] = Idle]
           /\ shown' \in [BlogId -> 0..2]
           /\ \A b \in BlogId :
                 IF b \in request[q].page /\ shown[b] < 2 THEN shown'[b] = shown[b] + 1
                                                         ELSE shown'[b] = shown[b]
           /\ \/ request[q].page = {} /\ lastId' = lastId
              \/ lastId' \in request[q].page /\ \A a \in request[q].page : lastId' <= a
           /\ lastId' \in 0..MaxBlog
           /\ UNCHANGED <<posted, deleted, steady, doubled>>
<1>1. request[q].page \subseteq BlogId
  BY DEF FeedTypeOK
<1>2. shown' = [b \in BlogId |-> IF b \in request[q].page /\ shown[b] < 2
                                  THEN shown[b] + 1 ELSE shown[b]]
  BY DEF ShowPage
<1>3. shown' \in [BlogId -> 0..2]
  BY <1>2 DEF FeedTypeOK
<1>4. \/ request[q].page = {} /\ lastId' = lastId
      \/ lastId' \in request[q].page /\ \A a \in request[q].page : lastId' <= a
  BY DEF ShowPage
<1>5. lastId' \in 0..MaxBlog
  BY <1>1, <1>4, FeedConstants DEF FeedTypeOK, BlogId
<1> QED BY <1>2, <1>3, <1>4, <1>5 DEF ShowPage

\* The types of requests.
LEMMA RequestTypes ==
    /\ Idle \in [kind : {"idle", "sent", "answer"},
                 cursor : 0..MaxBlog, page : SUBSET BlogId]
    /\ Idle.kind = "idle"
    /\ \A c \in 0..MaxBlog :
          /\ Sent(c) \in [kind : {"idle", "sent", "answer"},
                          cursor : 0..MaxBlog, page : SUBSET BlogId]
          /\ Sent(c).kind = "sent" /\ Sent(c).cursor = c /\ Sent(c) # Idle
    /\ \A p \in SUBSET BlogId :
          /\ Answer(p) \in [kind : {"idle", "sent", "answer"},
                            cursor : 0..MaxBlog, page : SUBSET BlogId]
          /\ Answer(p).kind = "answer" /\ Answer(p).page = p /\ Answer(p) # Idle
BY FeedConstants DEF Idle, Sent, Answer

\* The service answers with blogs below the cursor and leaves none of them out.
LEMMA AnswerStep ==
    ASSUME FeedInv, NEW q \in FeedRequest, QueryBlogOfFollow(q)
    PROVE  FeedInv'
<1> DEFINE c == request[q].cursor
           p == PageOf(Below(c))
<1>1. /\ request[q].kind = "sent" /\ request' = [request EXCEPT ![q] = Answer(p)]
      /\ UNCHANGED <<posted, deleted, lastId, shown, steady, doubled>>
  BY DEF QueryBlogOfFollow
<1>2. /\ c \in 0..MaxBlog /\ posted \subseteq BlogId /\ steady \subseteq posted
      /\ Below(c) \subseteq posted /\ p \subseteq Below(c)
  BY DEF FeedInv, FeedTypeOK, Below, PageOf
<1>3. \A b \in p : c = 0 \/ b < c
  BY <1>2 DEF Below
<1>4. \A a \in p, b \in steady : b >= a => b \in p \/ shown[b] > 0
  <2> SUFFICES ASSUME NEW a \in p, NEW b \in steady, b >= a, ~(shown[b] > 0)
               PROVE  b \in p
    OBVIOUS
  <2>1. c > 0 => ~(b >= c)
    BY <1>1 DEF FeedInv, PageCovers
  <2>2. b \in Nat
    <3>1. b \in BlogId
      BY <1>2
    <3> QED BY <3>1, FeedConstants DEF BlogId
  <2>3. b \in Below(c)
    <3>1. b \in posted /\ c \in Nat
      BY <1>2, FeedConstants
    <3>2. c = 0 \/ b < c
      BY <2>1, <2>2, <3>1
    <3> QED BY <3>1, <3>2 DEF Below
  <2> QED BY <1>2, <2>3, PageHasNoGap
<1>5. Answer(p).kind = "answer" /\ Answer(p).page = p /\ Answer(p) # Idle
  BY <1>2, RequestTypes
<1>6. FeedTypeOK'
  BY <1>1, <1>2, RequestTypes DEF FeedInv, FeedTypeOK
<1> HIDE DEF p, c
<1>7. PageCovers'
  BY <1>1, <1>4, <1>5 DEF FeedInv, FeedTypeOK, PageCovers
<1>8. NothingSkipped'
  BY <1>1 DEF FeedInv, NothingSkipped
<1>9. ~doubled' => OneAtATime'
  <2> SUFFICES ASSUME ~doubled' PROVE OneAtATime'
    OBVIOUS
  <2>1. OneAtATime /\ c = lastId
    BY <1>1 DEF FeedInv, OneAtATime, c
  <2>2. request[q] # Idle
    BY <1>1, RequestTypes
  <2> QED BY <1>1, <1>3, <1>5, <2>1, <2>2 DEF OneAtATime, FeedInv, FeedTypeOK
<1> QED BY <1>6, <1>7, <1>8, <1>9 DEF FeedInv

\* What was not on the page and is appended has not been shown before; what is
\* scrolled past was shown or is appended.
LEMMA ShowStep ==
    ASSUME FeedInv, NEW q \in FeedRequest, ShowPage(q)
    PROVE  FeedInv'
<1> DEFINE p == request[q].page
<1>1. FeedTypeOK /\ p \subseteq BlogId /\ BlogId \subseteq Nat /\ lastId \in Nat
  BY FeedConstants DEF FeedInv, FeedTypeOK, BlogId
<1>2. /\ request[q].kind = "answer" /\ request' = [request EXCEPT ![q] = Idle]
      /\ shown' \in [BlogId -> 0..2]
      /\ \A b \in BlogId :
            IF b \in p /\ shown[b] < 2 THEN shown'[b] = shown[b] + 1
                                       ELSE shown'[b] = shown[b]
      /\ \/ p = {} /\ lastId' = lastId
         \/ lastId' \in p /\ \A a \in p : lastId' <= a
      /\ lastId' \in 0..MaxBlog
      /\ UNCHANGED <<posted, deleted, steady, doubled>>
  BY <1>1, Appended
<1>3. \A b \in BlogId : shown[b] \in 0..2 /\ (shown[b] > 0 \/ b \in p => shown'[b] > 0)
  BY <1>1, <1>2 DEF FeedTypeOK
<1>4. FeedTypeOK'
  BY <1>1, <1>2, RequestTypes DEF FeedTypeOK
<1>5. steady \subseteq BlogId
  BY <1>1 DEF FeedTypeOK
<1>6. \A a \in p, b \in steady : b >= a => b \in p \/ shown[b] > 0
  BY <1>2 DEF FeedInv, PageCovers
<1> HIDE DEF p
<1>7. NothingSkipped'
  BY <1>2, <1>3, <1>5, <1>6 DEF FeedInv, NothingSkipped
<1>8. PageCovers'
  BY <1>1, <1>2, <1>3, <1>5, RequestTypes DEF FeedInv, FeedTypeOK, PageCovers
<1>9. ~doubled' => OneAtATime'
  <2> SUFFICES ASSUME ~doubled' PROVE OneAtATime'
    OBVIOUS
  <2>1. OneAtATime
    BY <1>2 DEF FeedInv
  <2>2. \A b \in p : lastId = 0 \/ b < lastId
    BY <1>2, <2>1 DEF OneAtATime, p
  <2>3. \A b \in p : shown[b] = 0
    BY <1>1, <1>3, <2>1, <2>2 DEF OneAtATime
  <2>4. request[q] # Idle
    BY <1>2, RequestTypes
  <2>5. \A r \in FeedRequest : request'[r] = Idle
    BY <1>1, <1>2, <2>1, <2>4 DEF OneAtATime, FeedTypeOK
  <2>6. \A b \in BlogId : shown'[b] <= 1
    BY <1>2, <1>3, <2>1, <2>3 DEF OneAtATime
  <2>7. ASSUME NEW b \in BlogId, shown'[b] > 0 PROVE lastId' > 0 /\ b >= lastId'
    <3>1. CASE b \in p
      BY <1>1, <1>2, <3>1, FeedConstants DEF BlogId
    <3>2. CASE b \notin p
      <4>1. lastId > 0 /\ b >= lastId
        BY <1>2, <2>1, <2>7, <3>2 DEF OneAtATime
      <4>2. lastId' = lastId \/ (lastId' \in BlogId /\ lastId' < lastId)
        BY <1>1, <1>2, <2>2, <4>1
      <4> QED BY <1>1, <4>1, <4>2 DEF BlogId
    <3> QED BY <3>1, <3>2
  <2> QED BY <2>5, <2>6, <2>7, RequestTypes DEF OneAtATime
<1> QED BY <1>4, <1>7, <1>8, <1>9 DEF FeedInv

\* Every step keeps the invariant.
LEMMA FeedStep ==
    ASSUME FeedInv, [FeedNext]_feedVars
    PROVE  FeedInv'
<1> USE FeedConstants DEF FeedInv, FeedTypeOK, NothingSkipped, PageCovers, OneAtATime
<1>1. ASSUME NEW b \in BlogId, SaveBlog(b) \/ RemoveBlog(b) PROVE FeedInv'
  BY <1>1 DEF SaveBlog, RemoveBlog
<1>2. ASSUME NEW q \in FeedRequest, QueryFollowBlogs(q) PROVE FeedInv'
  <2>1. /\ request[q] = Idle /\ request' = [request EXCEPT ![q] = Sent(lastId)]
        /\ doubled' = (doubled \/ \E o \in FeedRequest : request[o] # Idle)
        /\ UNCHANGED <<posted, deleted, lastId, shown, steady>>
    BY <1>2 DEF QueryFollowBlogs
  <2>2. /\ Sent(lastId).kind = "sent" /\ Sent(lastId).cursor = lastId
        /\ Sent(lastId) # Idle
    BY RequestTypes
  <2>3. FeedTypeOK'
    BY <2>1, RequestTypes
  <2>4. PageCovers' /\ NothingSkipped'
    BY <2>1, <2>2
  <2>5. ~doubled' => OneAtATime'
    <3> SUFFICES ASSUME ~doubled' PROVE OneAtATime'
      OBVIOUS
    <3>1. OneAtATime /\ \A o \in FeedRequest : request[o] = Idle
      BY <2>1
    <3> QED BY <2>1, <2>2, <3>1, RequestTypes
  <2> QED BY <2>3, <2>4, <2>5
<1>3. ASSUME NEW q \in FeedRequest, QueryBlogOfFollow(q) PROVE FeedInv'
  BY <1>3, AnswerStep
<1>4. ASSUME NEW q \in FeedRequest, ShowPage(q) PROVE FeedInv'
  BY <1>4, ShowStep
<1>5. ASSUME NEW q \in FeedRequest, RequestLost(q) PROVE FeedInv'
  BY <1>5, RequestTypes DEF RequestLost
<1>6. CASE UNCHANGED feedVars
  BY <1>6 DEF feedVars
<1> QED BY <1>1, <1>2, <1>3, <1>4, <1>5, <1>6 DEF FeedNext

\* The page starts empty.
LEMMA FeedStart == FeedInit => FeedInv
<1> SUFFICES ASSUME FeedInit PROVE FeedInv
  OBVIOUS
<1>1. \A q \in FeedRequest : request[q] = Idle
  BY DEF FeedInit
<1>2. FeedTypeOK
  <2>1. doubled \in BOOLEAN
    BY DEF FeedInit
  <2>2. posted \subseteq BlogId /\ deleted \subseteq BlogId /\ steady \subseteq posted
    BY DEF FeedInit
  <2>3. lastId \in 0..MaxBlog /\ shown \in [BlogId -> 0..2]
    BY FeedConstants DEF FeedInit
  <2>4. request \in [FeedRequest -> [kind : {"idle", "sent", "answer"},
                                     cursor : 0..MaxBlog, page : SUBSET BlogId]]
    BY RequestTypes DEF FeedInit
  <2> QED BY <2>1, <2>2, <2>3, <2>4 DEF FeedTypeOK
<1>3. lastId = 0 /\ \A b \in BlogId : shown[b] = 0
  BY DEF FeedInit
<1> QED BY <1>1, <1>2, <1>3, RequestTypes
        DEF FeedInv, NothingSkipped, PageCovers, OneAtATime

\* The invariant holds in every behaviour.
LEMMA FeedAlways == FeedSpec => []FeedInv
<1>1. FeedInv /\ [FeedNext]_feedVars => FeedInv'
  BY FeedStep
<1> QED BY <1>1, FeedStart, PTL DEF FeedSpec

\* However many blogs are saved and deleted while the user scrolls, none is shown
\* twice as long as the page has one request on its way.
THEOREM NoBlogTwice == FeedSpec => []ShownOnce
<1>1. FeedInv => ShownOnce
  BY DEF FeedInv, OneAtATime, ShownOnce
<1> QED BY <1>1, FeedAlways, PTL

\* A blog that is there all the time is never skipped, in whatever order the answers
\* of however many requests come back.
THEOREM NoBlogSkipped == FeedSpec => []NothingSkipped
<1>1. FeedInv => NothingSkipped
  BY DEF FeedInv
<1> QED BY <1>1, FeedAlways, PTL

-----------------------------------------------------------------------------
(* ShopTypes *)

\* The requests that have still to push a type.
Owing(t) == {r \in TypeReader : next[r] \in 1..t}

\* Every request that began pushes every type once: what the list holds of a type and
\* what is still to come are the same for all types.
EvenFills ==
    \E n \in Nat : \A t \in ShopType : copies[t] + Cardinality(Owing(t)) = n

TypesInv == ShopTypesTypeOK /\ (~stopped => EvenFills)

\* The requests that owe a type can be counted.
LEMMA OwingFinite ==
    ASSUME NEW t
    PROVE  IsFiniteSet(Owing(t)) /\ Cardinality(Owing(t)) \in Nat
<1>1. Owing(t) \subseteq TypeReader
  BY DEF Owing
<1> QED BY <1>1, TypeConstants, FS_Subset, FS_CardinalityType

\* A request that begins owes every type.
LEMMA QueryEven ==
    ASSUME TypesInv, ~stopped, NEW r \in TypeReader, QueryTypes(r)
    PROVE  EvenFills'
<1> USE DEF TypesInv, ShopTypesTypeOK
<1>1. /\ next[r] = 0 /\ next' = [next EXCEPT ![r] = 1]
      /\ UNCHANGED <<copies, stopped>>
  BY DEF QueryTypes
<1>2. PICK n \in Nat : \A t \in ShopType : copies[t] + Cardinality(Owing(t)) = n
  BY DEF EvenFills
<1>3. ASSUME NEW t \in ShopType
      PROVE  copies'[t] + Cardinality(Owing(t)') = n + 1
  <2>1. t \in Nat /\ t >= 1 /\ copies[t] \in Nat
    BY TypeConstants DEF ShopType
  <2>2. Owing(t)' = Owing(t) \cup {r} /\ r \notin Owing(t)
    BY <1>1, <2>1 DEF Owing
  <2>3. Cardinality(Owing(t)') = Cardinality(Owing(t)) + 1
    BY <2>2, OwingFinite, FS_AddElement
  <2> QED BY <1>1, <1>2, <2>1, <2>3, OwingFinite
<1> QED BY <1>3 DEF EvenFills

\* A push pays what the request owes of that type and nothing else.
LEMMA PushEven ==
    ASSUME TypesInv, ~stopped, NEW r \in TypeReader, RightPush(r)
    PROVE  EvenFills'
<1> USE DEF TypesInv, ShopTypesTypeOK
<1> DEFINE k == next[r]
<1>1. /\ k > 0 /\ k \in ShopType
      /\ copies' = [copies EXCEPT ![k] = @ + 1]
      /\ next' = [next EXCEPT ![r] = IF k = TypeCount THEN 0 ELSE k + 1]
  BY TypeConstants DEF RightPush, Finished, ShopType
<1>2. PICK n \in Nat : \A t \in ShopType : copies[t] + Cardinality(Owing(t)) = n
  BY DEF EvenFills
<1>3. ASSUME NEW t \in ShopType
      PROVE  copies'[t] + Cardinality(Owing(t)') = n
  <2>1. t \in 1..TypeCount /\ k \in 1..TypeCount /\ copies[t] \in Nat
    BY <1>1 DEF ShopType
  <2>2. CASE t = k
    <3>1. Owing(t)' = Owing(t) \ {r} /\ r \in Owing(t)
      BY <1>1, <2>1, <2>2, TypeConstants DEF Owing
    <3>2. Cardinality(Owing(t)') = Cardinality(Owing(t)) - 1
      BY <3>1, OwingFinite, FS_RemoveElement
    <3>3. copies'[t] = copies[t] + 1
      BY <1>1, <2>2
    <3> QED BY <1>2, <2>1, <3>2, <3>3, OwingFinite
  <2>3. CASE t # k
    <3>1. Owing(t)' = Owing(t)
      BY <1>1, <2>1, <2>3, TypeConstants DEF Owing
    <3>2. copies'[t] = copies[t]
      BY <1>1, <2>3
    <3> QED BY <1>2, <3>1, <3>2
  <2> QED BY <2>2, <2>3
<1> QED BY <1>3 DEF EvenFills

\* Every step keeps the invariant.
LEMMA TypesStep ==
    ASSUME TypesInv, [TypesNext]_typeVars
    PROVE  TypesInv'
<1> USE DEF ShopTypesTypeOK
<1>1. ASSUME NEW r \in TypeReader, QueryTypes(r) PROVE TypesInv'
  <2>1. ShopTypesTypeOK' /\ stopped' = stopped
    BY <1>1, TypeConstants DEF TypesInv, QueryTypes
  <2> QED BY <1>1, <2>1, QueryEven DEF TypesInv
<1>2. ASSUME NEW r \in TypeReader, RightPush(r) PROVE TypesInv'
  <2>1. ShopTypesTypeOK' /\ stopped' = stopped
    BY <1>2, TypeConstants DEF TypesInv, RightPush, Finished, ShopType
  <2> QED BY <1>2, <2>1, PushEven DEF TypesInv
<1>3. ASSUME NEW r \in TypeReader, FillBreaks(r) PROVE TypesInv'
  BY <1>3, TypeConstants DEF TypesInv, FillBreaks
<1>4. CASE UNCHANGED typeVars
  BY <1>4 DEF typeVars, TypesInv, EvenFills, Owing
<1> QED BY <1>1, <1>2, <1>3, <1>4 DEF TypesNext

\* The invariant holds in every behaviour.
LEMMA TypesAlways == TypesSpec => []TypesInv
<1>1. TypesInit => TypesInv
  <2> SUFFICES ASSUME TypesInit PROVE TypesInv
    OBVIOUS
  <2>1. ShopTypesTypeOK
    <3>1. stopped \in BOOLEAN
      BY DEF TypesInit
    <3>2. copies \in [ShopType -> Nat] /\ next \in [TypeReader -> 0..TypeCount]
      BY TypeConstants DEF TypesInit
    <3> QED BY <3>1, <3>2 DEF ShopTypesTypeOK
  <2>2. \A t \in ShopType : copies[t] = 0 /\ Owing(t) = {}
    BY DEF TypesInit, Owing
  <2> QED BY <2>1, <2>2, FS_EmptySet DEF TypesInv, EvenFills
<1>2. TypesInv /\ [TypesNext]_typeVars => TypesInv'
  BY TypesStep
<1> QED BY <1>1, <1>2, PTL DEF TypesSpec

\* For any number of readers and types the list holds every type equally often once
\* nobody fills it, as long as no request stopped halfway.
THEOREM ListStaysEven == TypesSpec => []ListWhole
<1>1. TypesInv => ListWhole
  <2> SUFFICES ASSUME TypesInv, ~stopped, \A r \in TypeReader : next[r] = 0
               PROVE  \A s, t \in ShopType : copies[s] = copies[t]
    BY DEF ListWhole
  <2>1. PICK n \in Nat : \A t \in ShopType : copies[t] + Cardinality(Owing(t)) = n
    BY DEF TypesInv, EvenFills
  <2>2. \A t \in ShopType : Cardinality(Owing(t)) = 0 /\ copies[t] \in Nat
    BY FS_EmptySet DEF Owing, TypesInv, ShopTypesTypeOK
  <2> QED BY <2>1, <2>2
<1> QED BY <1>1, TypesAlways, PTL

-----------------------------------------------------------------------------
(* The services as one system *)

\* A step of the system leaves a service alone or is one of its steps.
LEMMA StepOfEach ==
    ASSUME [ServicesNext]_servicesVars
    PROVE  /\ [BloomNext]_bloomVars
           /\ [IdNext]_idVars
           /\ [ChatNext]_chatVars
           /\ [LikesNext]_likeVars
           /\ [FollowsNext]_followVars
           /\ [FeedNext]_feedVars
           /\ [TypesNext]_typeVars
           /\ [LoginNext]_loginVars
           /\ [FiguresNext]_figureVars
<1>1. CASE UNCHANGED servicesVars
  BY <1>1 DEF servicesVars
<1>2. CASE BloomOnly
  BY <1>2 DEF BloomOnly, noBloom
<1>3. CASE IdsOnly
  BY <1>3 DEF IdsOnly, noIds
<1>4. CASE ChatOnly
  BY <1>4 DEF ChatOnly, noChat
<1>5. CASE LikesOnly
  BY <1>5 DEF LikesOnly, noLikes
<1>6. CASE FollowsOnly
  BY <1>6 DEF FollowsOnly, noFollows
<1>7. CASE FeedOnly
  BY <1>7 DEF FeedOnly, noFeed
<1>8. CASE TypesOnly
  BY <1>8 DEF TypesOnly, noTypes
<1>9. CASE LoginOnly
  BY <1>9 DEF LoginOnly, noLogin
<1>10. CASE FiguresOnly
  BY <1>10 DEF FiguresOnly, noFigures
<1> QED BY <1>1, <1>2, <1>3, <1>4, <1>5, <1>6, <1>7, <1>8, <1>9, <1>10 DEF ServicesNext

\* Seen at the stores of one service, a behaviour of the system is a behaviour of that
\* service: nobody else writes there.
THEOREM Composition ==
    ServicesSpec =>
        /\ BloomSpec /\ IdSpec /\ ChatSpec /\ LikesSpec /\ FollowsSpec
        /\ FeedSpec /\ TypesSpec /\ LoginSpec /\ FiguresSpec
<1>1. ServicesInit =>
          /\ BloomInit /\ IdInit /\ ChatInit /\ LikesInit /\ FollowsInit
          /\ FeedInit /\ TypesInit /\ LoginInit /\ FiguresInit
  BY DEF ServicesInit
<1>2. [ServicesNext]_servicesVars => [BloomNext]_bloomVars
  BY StepOfEach
<1>3. [ServicesNext]_servicesVars => [IdNext]_idVars
  BY StepOfEach
<1>4. [ServicesNext]_servicesVars => [ChatNext]_chatVars
  BY StepOfEach
<1>5. [ServicesNext]_servicesVars => [LikesNext]_likeVars
  BY StepOfEach
<1>6. [ServicesNext]_servicesVars => [FollowsNext]_followVars
  BY StepOfEach
<1>7. [ServicesNext]_servicesVars => [FeedNext]_feedVars
  BY StepOfEach
<1>8. [ServicesNext]_servicesVars => [TypesNext]_typeVars
  BY StepOfEach
<1>9. [ServicesNext]_servicesVars => [LoginNext]_loginVars
  BY StepOfEach
<1>10. [ServicesNext]_servicesVars => [FiguresNext]_figureVars
  BY StepOfEach
<1> QED BY <1>1, <1>2, <1>3, <1>4, <1>5, <1>6, <1>7, <1>8, <1>9, <1>10, PTL
        DEF ServicesSpec, BloomSpec, IdSpec, ChatSpec, LikesSpec, FollowsSpec, FeedSpec,
            TypesSpec, LoginSpec, FiguresSpec

\* In the system of all services, for every value of the constants, every variable keeps
\* its type.
THEOREM EveryServiceTyped == ServicesSpec => []TypesOK
<1>1. /\ BloomInv => BloomTypeOK
      /\ IdInv => IdTypeOK
      /\ ChatInv => ChatTypeOK
      /\ LikesInv => LikesTypeOK
      /\ FollowsInv => FollowsTypeOK
      /\ FeedInv => FeedTypeOK
      /\ TypesInv => ShopTypesTypeOK
      /\ LoginInv => LoginTypeOK
  BY DEF BloomInv, IdInv, ChatInv, LikesInv, FollowsInv, FeedInv, TypesInv, LoginInv
<1>2. /\ BloomTypeOK /\ IdTypeOK /\ ChatTypeOK /\ LikesTypeOK /\ FollowsTypeOK
      /\ FeedTypeOK /\ ShopTypesTypeOK /\ LoginTypeOK /\ FiguresTypeOK
      => TypesOK
  BY DEF TypesOK
<1> QED BY <1>1, <1>2, Composition, BloomAlways, IdAlways, ChatAlways, LikesAlways,
           FollowsAlways, FeedAlways, TypesAlways, LoginAlways, FiguresTyped, PTL

\* What is proved of each service holds while all of them run.
THEOREM EveryServiceCorrect ==
    ServicesSpec =>
        /\ [](/\ NoShopDenied /\ IdsUnique
              /\ ContextBounded /\ CountHonest /\ OrphansFromRunning
              /\ LikesAddUp /\ FollowsAgree /\ ShownOnce /\ NothingSkipped /\ ListWhole
              /\ HandlerSeesUser /\ StreakCounted /\ PriceExact)
        /\ LoggedOutStaysOut
BY Composition, NothingDenied, UniqueIds, ContextStaysBounded, CountsLagOnly,
   OrphansExplained, LikesStayEqual, FollowsStayEqual, NoBlogTwice,
   NoBlogSkipped, ListStaysEven, HandlersSeeTheirUser, LogoutIsFinal, StreakIsCounted,
   PriceIsExact, PTL
=============================================================================
