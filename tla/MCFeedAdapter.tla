---------------------------- MODULE MCFeedAdapter ----------------------------
(* FeedAdapter on small instances; the bounds are in the .cfg files. *)
EXTENDS FeedAdapter

(* Every feed asks for what is stored, and runs until it is stopped. *)
AsDeployed == [n \in 1..MaxSessions |-> AllStored]
Endless    == [n \in 1..MaxSessions |-> Unlimited]

(* The first feed names one of the symbols and asks for one tick of it. *)
FirstNamed   == [AsDeployed EXCEPT ![1] = {CHOOSE s \in Symbols : TRUE}]
FirstBounded == [Endless EXCEPT ![1] = 1]
=============================================================================
