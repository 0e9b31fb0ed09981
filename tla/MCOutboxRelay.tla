--------------------------- MODULE MCOutboxRelay ---------------------------
(* Small instances of OutboxRelay for TLC. *)
EXTENDS OutboxRelay

NoFault == [f \in Fault |-> 0]
Once(kinds) == [f \in Fault |-> IF f \in kinds THEN 1 ELSE 0]

EveryFault == Once(Fault)
LostPublish == Once({"publish"})
=============================================================================
