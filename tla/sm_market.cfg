SPECIFICATION Spec
CONSTANTS
  Vouchers = {v1}
  Merchants = {m1, m2}
  Seller = Seller
  Requests = {r1, r2, r3}
  None = None
  MaxItems = 2
  MaxTotal = 2
  Issued = 2
  Unit = 2
  Price = 3
  MaxFaults = 1
SYMMETRY Symmetry
INVARIANTS NoCodeWithoutCoupon BooksBalance PoliteTrade DashboardsAreTrue
CHECK_DEADLOCK FALSE
