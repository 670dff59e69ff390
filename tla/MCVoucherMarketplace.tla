------------------------ MODULE MCVoucherMarketplace ------------------------
(* Instances of VoucherMarketplace for model checking.                     *)
EXTENDS VoucherMarketplace, TLC

Symmetry == Permutations(Codes) \cup Permutations(Requests)
              \cup Permutations(Customers) \cup Permutations(Merchants)
=============================================================================
