-------------------------- MODULE MCTrackingBundles --------------------------
(* TrackingBundles on small instances. *)
EXTENDS TrackingBundles, TLC

\* Two suppliers' bundles with an order in both.
SharedOrder == [s \in Sources |-> Orders]
IdSymmetry == Permutations(Orders) \cup Permutations(Calls)
=============================================================================
