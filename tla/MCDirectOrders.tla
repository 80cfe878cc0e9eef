---------------------------- MODULE MCDirectOrders ----------------------------
(* DirectOrders on small instances. *)
EXTENDS DirectOrders, TLC

\* The ids of requests, orders and transactions are interchangeable.
IdSymmetry ==
  Permutations(Requests) \cup Permutations(Orders) \cup Permutations(Txns)
=============================================================================
