---------------------------- MODULE VoucherSale ----------------------------
(***************************************************************************)
(* What the database promises about one seckill voucher, whatever path the *)
(* order took: every sale takes one unit of a stock that never goes below  *)
(* zero, a user owns at most one order of the voucher, and an order that   *)
(* exists stays.  `granted' are the orders of the regular purchase         *)
(* endpoint, which takes no stock.  SeckillOrder is shown to implement it. *)
(***************************************************************************)
EXTENDS Naturals

CONSTANTS User, Stock

VARIABLES stock, sold, granted

vars == <<stock, sold, granted>>

Init ==
    /\ stock = Stock
    /\ sold = {}
    /\ granted = {}

Sell(u) ==
    /\ stock > 0
    /\ u \notin sold \cup granted
    /\ stock' = stock - 1
    /\ sold' = sold \cup {u}
    /\ UNCHANGED granted

Grant(u) ==
    /\ u \notin sold \cup granted
    /\ granted' = granted \cup {u}
    /\ UNCHANGED <<stock, sold>>

Next == \E u \in User : Sell(u) \/ Grant(u)

Spec == Init /\ [][Next]_vars
=============================================================================
