------------------------ MODULE MCCustomerOnboarding ------------------------
(* CustomerOnboarding with its merchants on a small instance: what tells   *)
(* requests apart is only their names.                                     *)
EXTENDS CustomerOnboarding, TLC

Sent(by, n) == {f \in [Requests -> Senders] :
                  Cardinality({r \in Requests : f[r] = by}) = n}

\* Links alone, merchants alone, and two partners beside a user.
MCWorkloads == Sent("person", 3) \cup Sent("user", 3)
                 \cup (Sent("partner", 2) \cap Sent("user", 1))

Symmetry == Permutations(Requests) \cup Permutations(Users)
              \cup Permutations(Emails) \cup Permutations(Phones)
=============================================================================
