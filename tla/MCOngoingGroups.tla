--------------------------- MODULE MCOngoingGroups ---------------------------
(* OngoingGroups on small instances. *)
EXTENDS OngoingGroups, TLC

\* Ids are interchangeable.
IdSymmetry == Permutations(Ids) \cup Permutations(Groups) \cup Permutations(Variants)
              \cup Permutations(Callers)
=============================================================================
