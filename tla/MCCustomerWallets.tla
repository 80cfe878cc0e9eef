-------------------------- MODULE MCCustomerWallets --------------------------
(* CustomerWallets on small instances. *)
EXTENDS CustomerWallets, TLC

AllOn == [walletEnabled |-> TRUE, depositsEnabled |-> TRUE,
          withdrawalsEnabled |-> TRUE, requiresApproval |-> TRUE]

\* Withdrawals are approved or processed automatically.
BothModes == {AllOn, [AllOn EXCEPT !.requiresApproval = FALSE]}

\* The slots run the same code.
SlotSymmetry == Permutations(Requests)
=============================================================================
