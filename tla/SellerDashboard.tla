-------------------------- MODULE SellerDashboard --------------------------
(***************************************************************************)
(* What sellers and marketers are shown of SellerMarket.  The dashboards   *)
(* add up codes and transactions; what customers do with the coupons later *)
(* is not in it (Distribution has it).  Values that are a price for each   *)
(* code are left out as their number is here; sums of rows are not.        *)
(***************************************************************************)
EXTENDS SellerMarket

VoucherOf(c) == listing[c[1]].voucher

\* The merchants of the THB_BUY rows of a code; the seller's maps keep the
\* last one that is read.
BuyersOf(rowsOf, c) == {req[r].by : r \in {q \in Requests : c \in rowsOf[q]}}

\* The codes in the THB_BUY rows of a merchant.
CodesBought(m) == UNION {buyRows[r] : r \in {q \in Requests : req[q].by = m}}

-----------------------------------------------------------------------------
(* GetSellerDashboard reads the codes and then, in another query, the rows.*)

\* vouchersFromSeller and allVoucherCodes.
SellersVouchers       == {v \in Vouchers : voucher[v] = "row"}
AllVoucherCodes(own)  == {c \in Codes : own[c] # Absent}
NotListed(own, v) ==
  LET n == Cardinality({c \in AllVoucherCodes(own) : VoucherOf(c) = v})
  IN IF n < Issued THEN Issued - n ELSE 0

\* Seeded fault: a code with a row is reserved, whether it has an owner or not.
SummaryByRows(own, rowsOf) ==
  LET codes == AllVoucherCodes(own)
      owned == {c \in codes : own[c] # None} IN
  [unsold     |-> Tally([v \in SellersVouchers |-> NotListed(own, v)]),
   sold       |-> Cardinality(codes),
   reserved   |-> Cardinality({c \in codes : BuyersOf(rowsOf, c) # {}}),
   unreserved |-> Cardinality(codes \ owned)]

\* calculateOverallSummary: a code with an owner is reserved if it has a row.
CalculateOverallSummary(own, rowsOf) ==
  LET codes == AllVoucherCodes(own)
      owned == {c \in codes : own[c] # None} IN
  [unsold     |-> Tally([v \in SellersVouchers |-> NotListed(own, v)]),
   sold       |-> Cardinality(codes),
   reserved   |-> Cardinality({c \in owned : BuyersOf(rowsOf, c) # {}}),
   unreserved |-> Cardinality(codes \ owned)]

\* getMerchants, one query: the codes of each merchant, whoever owns them.
CalculateMerchantBreakdown(m) == CodesBought(m) \cap AllVoucherCodes(owner)

GetMerchants ==
  {[merchant |-> m, total |-> Cardinality(CalculateMerchantBreakdown(m))] :
     m \in {n \in Merchants : CalculateMerchantBreakdown(n) # {}}}

-----------------------------------------------------------------------------
(* GetMarketerDashboard.                                                   *)

\* Every code was listed and names its ListingBatch, so all that are found
\* count as purchased.
FetchUniqueCouponCodes(m) ==
  CodesBought(m) \cup {c \in Codes : owner[c] = m}

\* The purchases of a merchant that have THB_BUY rows.
Purchases(m) == {r \in Requests : req[r].by = m /\ buyRows[r] # {}}

\* The sum of the THB_BUY rows of a merchant.
Bought(m) ==
  Tally([r \in Purchases(m) |-> Cardinality(buyRows[r]) * PricePerUnitTHB(req[r].amount)])

GetTransactionAndThbStats(m) ==
  [deposited |-> mintRows[m].thb, bought |-> Bought(m),
   balance |-> mintRows[m].thb - Bought(m)]

\* GetMerchantDashboardStats.
GetThbStats(m) == [deposited |-> mintRows[m].thb, purchasedFromSeller |-> Bought(m)]

\* getCouponDropdown, of the marketer and of the seller for a marketer.
MarketerDropdown(m) == {VoucherOf(c) : c \in CodesBought(m)}

SellerDropdown(m) ==
  IF m = None THEN SellersVouchers
  ELSE {VoucherOf(c) : c \in CodesBought(m)} \cap SellersVouchers

-----------------------------------------------------------------------------
(* Properties.                                                             *)

\* The sold coupons of a seller are the unreserved and the reserved ones
\* (get-seller-dashboard:34), although codes and rows are read one after the
\* other while purchases go on and fail: a row is there before its code has
\* an owner, and as rows are never taken away it is there at any later moment.
SellerHierarchy ==
  LET shown == CalculateOverallSummary(owner, buyRows) IN
  shown.sold = shown.reserved + shown.unreserved

\* The number of the THB_BUY rows of a merchant.
BuyRowsOf(m) == Tally([r \in Purchases(m) |-> Cardinality(buyRows[r])])

\* The THB a marketer is shown is what is in the wallet (deposited less
\* bought, get-marketer-dashboard:426), but for what an operator minted
\* without a row and for purchases and mints whose rows are not written.  Each
\* row is less than one THB off, because mints and payments are cut and prices
\* rounded (merchantBuyCouponFromSeller:166, :216, :345), so that the balance
\* shown may be negative; nothing is off if there are no fractions.
ShownBalance ==
  \A m \in Merchants :
    {r \in Running({"mintRow", "find", "rows", "unrecorded"}) : req[r].by = m} = {} =>
      LET shown == Unit * GetTransactionAndThbStats(m).balance + granted[m]
          paid  == BuyRowsOf(m)
      IN /\ thb[m] - shown <= (Unit - 1) * (mintRows[m].rows + paid)
         /\ shown - thb[m] <= (Unit - 1) * paid

\* No listing has more coupons to sell on chain than the seller's dashboard
\* has unreserved codes for it, in any interleaving: a purchase that has paid
\* takes away at most as many codes as it has bought coupons.
OnSaleIsUnreserved ==
  \A l \in Listings :
    (\E c \in CodesOf(l) : owner[c] # Absent) =>
      Cardinality(Unsold(l)) >= listing[l].left

\* When polite merchants have paid and nothing failed, all books have the same
\* coupons of a marketer: the seller's breakdown, the marketer's dashboard and
\* the wallet; the THB spent are what they cost, to less than one for each.  Of
\* two purchases that picked one code the breakdown has only one.
BooksAgree ==
  polite => \A m \in Merchants :
    {r \in Running(Paid \cup {"unrecorded"}) : req[r].by = m} = {} =>
      LET n == TokensOf(m)
          spent == Unit * GetThbStats(m).purchasedFromSeller
      IN
      /\ Cost(n) - spent <= (Unit - 1) * n /\ spent - Cost(n) <= (Unit - 1) * n
      /\ BuyRowsOf(m) = n
      /\ GetTransactionAndThbStats(m).bought = GetThbStats(m).purchasedFromSeller
      /\ Cardinality(FetchUniqueCouponCodes(m)) = n
      /\ n > 0 => [merchant |-> m, total |-> n] \in GetMerchants
      /\ \A v \in Vouchers : v \in MarketerDropdown(m) <=> tokens[v][m] > 0
      /\ MarketerDropdown(m) = SellerDropdown(m)

\* What sellers and marketers are shown fits together and fits the chain.
DashboardsAreTrue == ShownBalance /\ OnSaleIsUnreserved /\ BooksAgree /\ SellerHierarchy
=============================================================================
