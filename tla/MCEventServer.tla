---------------------------- MODULE MCEventServer -----------------------------
(***************************************************************************)
(* The two halves of the events of a server, which share no state: a topic *)
(* of the store, with two processes whose clocks drift apart by up to the  *)
(* bound, a log of two entries and one poller (`part` is "store"), and the *)
(* subscriptions of one process (`part` is "delivery").                    *)
(***************************************************************************)
EXTENDS EventStore, EventDelivery, TLC

VARIABLE part

serverVars == <<part, vars, deliveryVars>>

Started == part \in {"store", "delivery"} /\ Init /\ DeliveryInit

StoreStep    == part = "store" /\ Next /\ UNCHANGED <<part, deliveryVars>>
DeliveryStep == part = "delivery" /\ DeliveryNext /\ UNCHANGED <<part, vars>>

ServerSpec == Started /\ [][StoreStep \/ DeliveryStep]_serverVars

Symmetric == Permutations(Procs) \cup Permutations(Topics)
=============================================================================
