---------------------------- MODULE MCShopCache ----------------------------
(* Small instances of ShopCache for TLC. *)
EXTENDS ShopCache

CONSTANTS n1, n2, r1, r2, t1

\* The executor of r2's instance is full of the rebuilds of other shops.
MCNodeOf == [t \in Thread |-> IF t = r2 THEN n2 ELSE n1]
=============================================================================
