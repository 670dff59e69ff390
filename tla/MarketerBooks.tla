---------------------------- MODULE MarketerBooks ----------------------------
(***************************************************************************)
(* The books of those who hand coupons out: a marketer's inventory and     *)
(* dashboard, and the dashboard of the merchant whose coupons they are.    *)
(* Each is one query, so it is of one moment.  HolderOf is the merchant of *)
(* the THB_BUY row of a code.  A code that is shelved here has a listing,  *)
(* a voucherGroupId; withdrawn ones are VoucherMarketplace's.              *)
(***************************************************************************)
EXTENDS WalletPool

Sold == {c \in Codes : owner[c] \in Customers}

(***************************************************************************)
(* getVouchersByMerchant and getMarketerInventory.                         *)
(***************************************************************************)
\* Claimed codes count as upcoming, though nobody else can have them.
CountUpcomingCodes(v, m) ==
  Cardinality({c \in Codes : /\ VoucherOf[c] = v /\ owner[c] = m
                             /\ c \notin used \cup shelved})

\* Codes of the merchant, and codes a transaction of the merchant gave to a
\* customer.  A group of them is upcoming, or active on the shelf and with
\* customers.
MarketerCodes(m) == {c \in Codes : owner[c] = m \/ (c \in Sold /\ HolderOf[c] = m)}

InventoryStatus(m, c) ==
  IF owner[c] = m /\ c \notin used \cup shelved THEN "upcoming" ELSE "active"

GetMarketerInventory(m, v, status) ==
  LET codes == {c \in MarketerCodes(m) : VoucherOf[c] = v /\ InventoryStatus(m, c) = status}
      here  == {c \in codes : owner[c] = m /\ c \notin used} IN
  [totalIssued    |-> Cardinality(codes),
   availableCount |-> Cardinality(here),
   totalRedeemed  |-> Cardinality(codes \ here)]

(***************************************************************************)
(* GetMarketerDashboard, with the row of the purchase, and of one that is  *)
(* owned without it.                                                       *)
(***************************************************************************)
FetchUniqueCouponCodes(m) == {c \in Codes : HolderOf[c] = m \/ owner[c] = m}

\* A code without a row would count by its owner, and so does every code that
\* was listed.
IsPurchasedCode(c, m) == HolderOf[c] = m \/ owner[c] = m

CouponCounts(S) ==
  [total      |-> Cardinality(S),
   sold       |-> Cardinality(S \cap Sold),
   unsold     |-> Cardinality(S \ Sold),
   unredeemed |-> Cardinality((S \cap Sold) \ used),
   redeemed   |-> Cardinality(S \cap Sold \cap used)]

ComputeCouponCounts(m) ==
  CouponCounts({c \in FetchUniqueCouponCodes(m) : IsPurchasedCode(c, m)})

\* Seeded fault: a customer who has redeemed one coupon has redeemed all.
UsersWhoNeverRedeemed(S) ==
  LET sold == S \cap Sold IN
  [total      |-> {owner[c] : c \in sold},
   unredeemed |-> {owner[c] : c \in sold} \ {owner[c] : c \in sold \cap used},
   redeemed   |-> {owner[c] : c \in sold \cap used}]

ComputeEndUserStats(S) ==
  LET sold == S \cap Sold IN
  [total      |-> {owner[c] : c \in sold},
   unredeemed |-> {owner[c] : c \in sold \ used},
   redeemed   |-> {owner[c] : c \in sold \cap used}]

\* GetMerchantRefDashboard: the codes of a merchant's vouchers, whoever
\* bought them.
GetMerchantSummary(V) ==
  LET S == {c \in Codes : VoucherOf[c] \in V} IN
  [coupon |-> CouponCounts(S), endUser |-> ComputeEndUserStats(S)]

(***************************************************************************)
(* GetMerchantDashboardStats, which goes by the vouchers' merchant.        *)
(***************************************************************************)
GetVoucherStats(V) ==
  LET sold == {c \in Sold : VoucherOf[c] \in V} IN
  [total          |-> Cardinality({c \in Codes : VoucherOf[c] \in V}),
   sold           |-> Cardinality(sold),
   soldButNotUsed |-> Cardinality(sold \ used),
   redeemed       |-> Cardinality(sold \cap used)]

Usage(k, V) ==
  LET mine == {c \in Codes : VoucherOf[c] \in V /\ owner[c] = k}
  IN [hasUsed |-> mine \cap used # {}, hasUnused |-> mine \ used # {}]

GetEndUserStats(V) ==
  [purchased           |-> {k \in Customers : Usage(k, V).hasUsed \/ Usage(k, V).hasUnused},
   purchasedButNotUsed |-> {k \in Customers : Usage(k, V).hasUnused},
   redeemed            |-> {k \in Customers : Usage(k, V).hasUsed}]
=============================================================================
