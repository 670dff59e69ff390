-------------------------- MODULE MCPointTransfer --------------------------
(* Points and activations on a small instance: what tells customers and    *)
(* requests apart is only their names.                                     *)
EXTENDS VoucherActivation, TLC

Symmetry == Permutations(Customers) \cup Permutations(Requests)
=============================================================================
