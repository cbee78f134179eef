--------------------------- MODULE MCFeedDelivery ---------------------------
(* The adapter and a consumer of its streams, on a small instance.         *)
EXTENDS FeedDelivery

(* Every feed asks for what is stored, and runs until it is stopped. *)
AsDeployed == [n \in 1..MaxSessions |-> AllStored]
Endless    == [n \in 1..MaxSessions |-> Unlimited]
=============================================================================
