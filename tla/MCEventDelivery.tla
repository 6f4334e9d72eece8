-------------------------- MODULE MCEventDelivery --------------------------
(* Instances of EventDelivery: the whole local path with commands racing,  *)
(* and service mode with two instances that share outbox and inbox.        *)
EXTENDS EventDelivery

Both == {"local", "service"}
OneOrTwoFaults == [local |-> 1, service |-> 2]
=============================================================================
