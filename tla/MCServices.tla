----------------------------- MODULE MCServices -----------------------------
(* Small instances of the services around the orders for TLC.  A behaviour     *)
(* works in one of them, the others stay in one initial state: the run has the *)
(* sum of their states and not the product.  ServicesProofs shows that a       *)
(* behaviour of Services is one of each service.                               *)
EXTENDS Services

CONSTANTS s1, s2, a1, a2, c1, c2, r1, r2, r3, f1, f2, t1, t2, w1, w2

VARIABLE part

MCInit ==
    /\ part \in {"bloom", "ids", "chat", "likes", "follows", "feed", "types", "login",
                 "figures"}
    /\ ServicesInit
    /\ part # "bloom" => shops = {}
    /\ part # "ids" => now = [w \in IdCaller |-> 0]
    /\ part # "likes" => fan = [r \in LikeRequest |-> f1]
    /\ part # "feed" => posted = {}
    /\ part # "figures" => price = [whole |-> 1, tenths |-> <<>>]

MCNext ==
    /\ UNCHANGED part
    /\ \/ part = "bloom" /\ BloomOnly
       \/ part = "ids" /\ IdsOnly
       \/ part = "chat" /\ ChatOnly
       \/ part = "likes" /\ LikesOnly
       \/ part = "follows" /\ FollowsOnly
       \/ part = "feed" /\ FeedOnly
       \/ part = "types" /\ TypesOnly
       \/ part = "login" /\ LoginOnly
       \/ part = "figures" /\ FiguresOnly

MCSpec == MCInit /\ [][MCNext]_<<part, servicesVars>>
=============================================================================
