------------------------ MODULE MCVoucherRedemption -------------------------
(* Instances of VoucherRedemption for model checking.                      *)
EXTENDS VoucherRedemption, TLC

Symmetry == Permutations(Codes) \cup Permutations(Requests)
              \cup Permutations(Customers)
=============================================================================
