-------------------------- MODULE MCDeliveryTracker --------------------------
(* DeliveryTracker on small instances; session ids are model values, as    *)
(* the tracker only compares them for equality.                            *)
EXTENDS DeliveryTracker, TLC

Symmetry == Permutations(Sessions) \cup Permutations(Symbols)
=============================================================================
