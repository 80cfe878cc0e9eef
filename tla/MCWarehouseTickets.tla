-------------------------- MODULE MCWarehouseTickets --------------------------
(* WarehouseTickets on small instances. *)
EXTENDS WarehouseTickets, TLC

\* Ids are interchangeable; not for liveness.
IdSymmetry == Permutations(Tickets) \cup Permutations(Items) \cup Permutations(Requests)
=============================================================================
