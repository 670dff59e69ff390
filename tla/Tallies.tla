------------------------------ MODULE Tallies -------------------------------
(***************************************************************************)
(* The sum of a function with values in Nat, as the number of pairs that   *)
(* are below it: a sum that can be reasoned about without induction.       *)
(***************************************************************************)
EXTENDS Integers, FiniteSets

Below(f) == UNION {{x} \X (1 .. f[x]) : x \in DOMAIN f}
Tally(f) == Cardinality(Below(f))

\* The value of a function, and 0 where it has none.
ValueAt(f, x) == IF x \in DOMAIN f THEN f[x] ELSE 0
=============================================================================
