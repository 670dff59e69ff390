-------------------------- MODULE MCDirectTransfer --------------------------
(* Instances of DirectTransfer for model checking.                         *)
EXTENDS DirectTransfer, TLC

Symmetry == Permutations(Codes) \cup Permutations(Ops)
              \cup Permutations(Customers) \cup Permutations(Workers)
=============================================================================
