--------------------------- MODULE CustomerWallet ---------------------------
(***************************************************************************)
(* The coupons a customer is shown (GetCustomerOwnedVouchers).  The codes  *)
(* are read from the database first, the coupons on chain afterwards: of   *)
(* the unused codes of a voucher as many are shown as there are coupons,   *)
(* the newest first, and every used code is shown, if the customer asks    *)
(* for it.  The answer has them by voucher and status, each group with its *)
(* newest code: coupons of one group come from one listing, and directly   *)
(* transferred ones have none.                                             *)
(***************************************************************************)
EXTENDS WalletPool

VARIABLE view     \* the wallet a request looks at, and what it has seen

Statuses == {"unused", "used"}

Looks == [by: Customers, asked: Statuses \cup {"all"}, unused: SUBSET Codes,
          used: SUBSET Codes, shown: SUBSET Codes]

ASSUME NoLookIsNull == None \notin Looks

ViewTypeOK == view \in [Requests -> Looks \cup {None}]

ViewInit == view = [r \in Requests |-> None]

Look(k, status, unusedCodes, usedCodes, S) ==
  [by |-> k, asked |-> status, unused |-> unusedCodes, used |-> usedCodes, shown |-> S]
Show(r, S) ==
  view' = [view EXCEPT ![r] = Look(@.by, @.asked, @.unused, @.used, S)]

Newest(S, n) == {c \in S : Cardinality({d \in S : d >= c}) <= n}

FetchCodes(r) ==
  /\ pc[r] = "idle"
  /\ \E k \in Customers, status \in Statuses \cup {"all"} :
       LET mine == {c \in Codes : owner[c] = k} IN
       view' = [view EXCEPT ![r] = Look(k, status, mine \ used, mine \cap used, {})]
  /\ Goto(r, "balances") /\ Begins(r)
  /\ UNCHANGED poolVars

\* Coupons of a voucher whose balance could not be read count as none.
Backed(r, unread) ==
  UNION {Newest({c \in view[r].unused : VoucherOf[c] = v}, tokens[<<v, view[r].by>>]) :
           v \in Vouchers \ unread}

Asks(r, status) == view[r].asked \in {status, "all"}

Filtered(r, S) == {c \in S : Asks(r, IF c \in view[r].used THEN "used" ELSE "unused")}

\* Seeded fault: used codes are looked for behind coupons, which they burned.
FetchBalancesOnly(r) ==
  /\ pc[r] = "balances"
  /\ \E unread \in SUBSET Vouchers :
       /\ Show(r, Filtered(r, Backed(r, unread)))
       /\ IF unread = {} THEN Quietly(r) ELSE Raises(r)
  /\ Goto(r, "over")
  /\ UNCHANGED poolVars

FetchBalances(r) ==
  /\ pc[r] = "balances"
  /\ \E unread \in SUBSET Vouchers :
       /\ Show(r, Filtered(r, Backed(r, unread) \cup view[r].used))
       /\ IF unread = {} THEN Quietly(r) ELSE Raises(r)
  /\ Goto(r, "over")
  /\ UNCHANGED poolVars

GroupVouchersByGroupId(r, S) ==
  {[codes |-> D, latest |-> CHOOSE c \in D : \A d \in D : d <= c,
    used |-> D \subseteq view[r].used] :
     D \in {{c \in S : VoucherOf[c] = v /\ (c \in view[r].used) = b} :
              v \in Vouchers, b \in BOOLEAN} \ {{}}}

ViewStep(r) == FetchCodes(r) \/ FetchBalances(r)
=============================================================================
