--------------------------- MODULE MCSeckillOrder ---------------------------
(* Small instances of SeckillOrder for TLC. *)
EXTENDS SeckillOrder

CONSTANTS u1, u2, r1, r2, r3, b1

\* u1 clicks twice at the same time, u2 once; u1 also uses the other endpoint.
MCUserOf == [q \in SeckillReq \cup RegularReq |-> IF q = r2 THEN u2 ELSE u1]

NoFault == [f \in Fault |-> 0]
Once(kinds) == [f \in Fault |-> IF f \in kinds THEN 1 ELSE 0]

DbFaults       == Once({"crash", "lease", "redis", "close"})
DeliveryFaults == Once({"crash", "db", "mq"})
HealingFaults  == Once({"crash", "lease", "db", "mq"})
=============================================================================
