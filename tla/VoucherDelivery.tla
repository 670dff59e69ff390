-------------------------- MODULE VoucherDelivery ---------------------------
(***************************************************************************)
(* What a direct transfer promises, whatever fails in between: the coupons *)
(* of an operation leave the merchant's wallet at most once, and only then *)
(* may its voucher codes pass, all together and once, from the merchant to *)
(* one customer.                                                           *)
(***************************************************************************)
CONSTANTS Codes, Ops, Customers, Merchant

VARIABLES
  owner,      \* who holds each voucher code
  settled,    \* operations whose coupons moved on chain
  delivered   \* the codes each operation handed over

dvars == <<owner, settled, delivered>>

DInit ==
  /\ owner = [c \in Codes |-> Merchant]
  /\ settled = {}
  /\ delivered = [o \in Ops |-> {}]

Settle(o) ==
  /\ o \notin settled
  /\ settled' = settled \cup {o}
  /\ UNCHANGED <<owner, delivered>>

Deliver(o, k, S) ==
  /\ o \in settled
  /\ delivered[o] = {} /\ S # {}
  /\ \A c \in S : owner[c] = Merchant
  /\ owner' = [c \in Codes |-> IF c \in S THEN k ELSE owner[c]]
  /\ delivered' = [delivered EXCEPT ![o] = S]
  /\ UNCHANGED settled

DNext == \E o \in Ops :
           \/ Settle(o)
           \/ \E k \in Customers, S \in SUBSET Codes : Deliver(o, k, S)

DSpec == DInit /\ [][DNext]_dvars
=============================================================================
