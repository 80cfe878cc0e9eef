------------------------- MODULE MCPackageFulfillment -------------------------
(* PackageFulfillment on small instances. *)
EXTENDS PackageFulfillment, TLC

\* Ids are interchangeable; not for liveness.
IdSymmetry == Permutations(Packages) \cup Permutations(Items)
=============================================================================
