--------------------------- MODULE MCDistribution ---------------------------
(* Distribution on a small instance: one voucher, of which one merchant    *)
(* has two codes and another has one.                                      *)
EXTENDS Distribution, TLC

CONSTANTS v1, k1, k2, m1, m2

R(k, v, n) == [to |-> k, voucher |-> v, quantity |-> n]
F(kind, rows) == [kind |-> kind, merchant |-> m1, rows |-> rows]

MCVoucherOf == [c \in Codes |-> v1]
MCHolderOf  == [c \in Codes |-> IF c < 3 THEN m1 ELSE m2]

\* Files of one merchant: rows that fit together, rows that do not, rows
\* that are invalid, a quantity below zero, and a file that is too long.
MCFiles ==
  {F("csv", <<R(k1, v1, 1), R(k, v1, 1)>>) : k \in {k2, Stranger}}
  \cup {F("csv", <<R(k2, v1, 2)>>), F("csv", <<R(k1, v1, 2), R(k2, v1, -1)>>)}
  \cup {F("csv", <<R(k2, v1, 1), R(k1, Unminted, 0)>>)}
  \cup {F("csv", <<R(k1, v1, 1), R(k1, v1, 1), R(k1, v1, 0)>>)}
  \cup {F("json", <<R(k1, v1, 1), R(k2, v1, 1)>>)}
  \cup {F("single", <<R(k2, v1, 2)>>)}
  \cup {F("rewards", <<R(k1, v1, 1), R(k, v1, 1)>>) : k \in {k2, Stranger}}

Symmetry == Permutations(Requests)
=============================================================================
