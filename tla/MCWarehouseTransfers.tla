------------------------- MODULE MCWarehouseTransfers -------------------------
(* WarehouseTransfers on small instances. *)
EXTENDS WarehouseTransfers, TLC

\* Ids are interchangeable.
IdSymmetry ==
  UNION {Permutations(ids) : ids \in {Packages, Items, Bins, AisleBins}}

\* Packages and stock share no row and no bin, so a call about one changes nothing a
\* call about the other reads: behaviours about either are enough.
OneFloor ==
  \/ Existing \cap Stock = {}
  \/ transfers = <<>> /\ \A e \in Packages : entries[e] = [NewEntry(1) EXCEPT !.isTransferable = TRUE]
StaysOnOneFloor == OneFloor'
=============================================================================
