--------------------------- MODULE MCSellerMarket ---------------------------
(* Instances of SellerMarket and SellerDashboard for model checking.       *)
EXTENDS SellerDashboard, TLC

Symmetry == Permutations(Requests) \cup Permutations(Merchants)
              \cup Permutations(Vouchers)
=============================================================================
