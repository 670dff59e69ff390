-------------------------- MODULE MCMarketplaceView --------------------------
(* Instances of MarketplaceView for model checking.                        *)
EXTENDS MarketplaceView, TLC

Symmetry == Permutations(Buyers) \cup Permutations(Readers)
              \cup Permutations(Writers)
=============================================================================
