------------------------------ MODULE Services ------------------------------
(***************************************************************************)
(* The services around the orders as one system.  They run in the same     *)
(* server and share no store: a step of the system is a step of one of     *)
(* them, in any order.                                                     *)
(***************************************************************************)
EXTENDS BloomFilter, IdWorker, ChatSession, BlogLikes, Follows, FeedScroll,
        ShopTypes, LoginSession, Figures

ServicesInit ==
    /\ BloomInit /\ IdInit /\ ChatInit /\ LikesInit /\ FollowsInit
    /\ FeedInit /\ TypesInit /\ LoginInit /\ FiguresInit

noBloom == <<idVars, chatVars, likeVars, followVars, feedVars, typeVars, loginVars, figureVars>>
noIds == <<bloomVars, chatVars, likeVars, followVars, feedVars, typeVars, loginVars, figureVars>>
noChat == <<bloomVars, idVars, likeVars, followVars, feedVars, typeVars, loginVars, figureVars>>
noLikes == <<bloomVars, idVars, chatVars, followVars, feedVars, typeVars, loginVars, figureVars>>
noFollows == <<bloomVars, idVars, chatVars, likeVars, feedVars, typeVars, loginVars, figureVars>>
noFeed == <<bloomVars, idVars, chatVars, likeVars, followVars, typeVars, loginVars, figureVars>>
noTypes == <<bloomVars, idVars, chatVars, likeVars, followVars, feedVars, loginVars, figureVars>>
noLogin == <<bloomVars, idVars, chatVars, likeVars, followVars, feedVars, typeVars, figureVars>>
noFigures == <<bloomVars, idVars, chatVars, likeVars, followVars, feedVars, typeVars, loginVars>>

BloomOnly == BloomNext /\ UNCHANGED noBloom
IdsOnly == IdNext /\ UNCHANGED noIds
ChatOnly == ChatNext /\ UNCHANGED noChat
LikesOnly == LikesNext /\ UNCHANGED noLikes
FollowsOnly == FollowsNext /\ UNCHANGED noFollows
FeedOnly == FeedNext /\ UNCHANGED noFeed
TypesOnly == TypesNext /\ UNCHANGED noTypes
LoginOnly == LoginNext /\ UNCHANGED noLogin
FiguresOnly == FiguresNext /\ UNCHANGED noFigures

ServicesNext ==
    \/ BloomOnly \/ IdsOnly \/ ChatOnly \/ LikesOnly \/ FollowsOnly
    \/ FeedOnly \/ TypesOnly \/ LoginOnly \/ FiguresOnly

servicesVars ==
    <<bloomVars, idVars, chatVars, likeVars, followVars, feedVars, typeVars, loginVars,
      figureVars>>

ServicesSpec == ServicesInit /\ [][ServicesNext]_servicesVars

-----------------------------------------------------------------------------
\* Every variable of every service has its type.
TypesOK ==
    /\ BloomTypeOK /\ IdTypeOK /\ ChatTypeOK /\ LikesTypeOK /\ FollowsTypeOK
    /\ FeedTypeOK /\ ShopTypesTypeOK /\ LoginTypeOK /\ FiguresTypeOK
=============================================================================
