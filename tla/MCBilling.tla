------------------------------ MODULE MCBilling -----------------------------
(***************************************************************************)
(* An instance of Billing for TLC: one Session buys a subscription, and two*)
(* calls report the same usage under one key.                              *)
(***************************************************************************)
EXTENDS Billing, TLC

CONSTANTS s1, c1, c2, u1

BuysOne == s1 :> "bought"
OneQuantity == [c \in Calls |-> [key |-> u1, quantity |-> 1]]
=============================================================================
