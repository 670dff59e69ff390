---------------------------- MODULE SellerMarket ----------------------------
(***************************************************************************)
(* The stage before VoucherMarketplace.  A seller creates vouchers, mints  *)
(* coupons and offers them for THB; merchants buy some of them, with THB   *)
(* that the back office mints for them when they have too little.          *)
(*                                                                         *)
(*   seller     CreateVoucherWithCodes, SellerListOnMarketplace and        *)
(*              BatchListOnMarketplace                                     *)
(*   merchant   MerchantBuyCouponFromSeller                                *)
(*   operator   AddToWhitelist, MintTHBToMerchant                          *)
(*                                                                         *)
(* Between any two awaits of these handlers other requests go on, and      *)
(* nothing but the creation of a voucher is in a transaction.  A listing   *)
(* and its codes are named after the request and the item they are for,    *)
(* because a listing gets an id of its own and its codes are numbered      *)
(* within it.  Every coupon is offered at one price, which need not be     *)
(* whole; wallets count in the token's smallest unit, rows in THB.         *)
(***************************************************************************)
EXTENDS Integers, FiniteSets, Sequences, Tallies

CONSTANTS
  Vouchers,
  Merchants,
  Seller,            \* the wallet of the seller
  Requests,          \* HTTP requests
  None,              \* SQL NULL
  MaxItems,          \* bound: items of a batch
  MaxTotal,          \* bound: coupons in the items of all requests
  Issued,            \* Voucher.totalIssued, and the largest amount asked for
  Unit,              \* smallest units of a THB (10^18 of the token's wei)
  Price,             \* of a coupon, in these units
  MaxFaults          \* bound: calls that raise, and mints of an operator

ASSUME Different == /\ None \notin Merchants \cup Vouchers
                    /\ Seller \notin Merchants \cup {None}
                    /\ "absent" \notin Merchants \cup {None}
ASSUME Finite    == IsFiniteSet(Requests) /\ IsFiniteSet(Vouchers)
ASSUME Bounds    == /\ MaxItems \in Nat \ {0} /\ MaxTotal \in Nat
                    /\ Issued \in Nat /\ MaxFaults \in Nat
                    /\ Unit \in Nat \ {0} /\ Price \in Nat

VARIABLES
  voucher,    \* a voucher's coupon type and row
  whitelist,  \* wallets the marketplace accepts
  tokens,     \* coupons of each voucher in each wallet
  thb,        \* THB of each merchant
  allowance,  \* THB of each merchant the vault may take
  listing,    \* listings on chain
  batch,      \* ListingBatch rows
  owner,      \* VoucherCode.currentOwnerId, Absent before the row exists
  currency,   \* vouchers whose currency is THB
  mintRows,   \* the THB_MINT rows of each merchant, and their THB
  buyRows,    \* codes of the THB_BUY rows of each request
  req,        \* arguments of a request and what it has read
  pc,         \* where a request stands
  granted,    \* history: THB an operator has minted for each merchant
  polite,     \* whether purchases wait for each other and for the codes
  faults

chain == <<tokens, thb, allowance, listing>>
rows  == <<batch, owner, currency, mintRows, buyRows>>
stays == <<granted, polite>>
vars  == <<voucher, whitelist, tokens, thb, allowance, listing, batch, owner,
           currency, mintRows, buyRows, req, pc, granted, polite, faults>>

Wallets  == Merchants \cup {Seller}
Listings == Requests \X (1 .. MaxItems)
Codes    == Listings \X (1 .. Issued)
Absent   == "absent"

ListPlaces == {"admit", "batch", "mint", "list", "codes", "sync"}
BuyPlaces  == {"balance", "mintTHB", "mintRow", "approve", "pay", "find",
               "rows", "own", "count", "close"}
Ends       == {"listed", "bought", "failed", "unrecorded", "uncounted", "unclosed"}
Places     == {"idle"} \cup ListPlaces \cup BuyPlaces \cup Ends

Items     == [voucher: Vouchers, amount: 1 .. MaxTotal]
Reqs      == [by: Wallets \cup {None}, items: Seq(Items), at: Nat,
              early: BOOLEAN, listing: Listings \cup {None}, amount: Nat,
              short: Nat, held: SUBSET Codes]
NoReq     == [by |-> None, items |-> <<>>, at |-> 1, early |-> FALSE,
              listing |-> None, amount |-> 0, short |-> 0, held |-> {}]
SellReq(items, early) ==
  [by |-> Seller, items |-> items, at |-> 1, early |-> early,
   listing |-> None, amount |-> 0, short |-> 0, held |-> {}]
BuyReq(m, l, n) ==
  [by |-> m, items |-> <<>>, at |-> 1, early |-> FALSE,
   listing |-> l, amount |-> n, short |-> 0, held |-> {}]
Advanced(q)   == [q EXCEPT !.at = @ + 1]
Lacking(q, n) == [q EXCEPT !.short = n]
Holding(q, S) == [q EXCEPT !.held = S]

OnChain   == [voucher: Vouchers \cup {None}, left: Nat]
NoListing == [voucher |-> None, left |-> 0]
Minted    == [rows: Nat, thb: Nat]
Batches   == [total: Nat, sold: Nat, soldOut: BOOLEAN]
NewBatch(n) == [total |-> n, sold |-> 0, soldOut |-> FALSE]
NoBatch     == NewBatch(0)

TypeOK ==
  /\ voucher \in [Vouchers -> {"none", "typed", "row", "orphan"}]
  /\ whitelist \subseteq Wallets
  /\ tokens \in [Vouchers -> [Wallets -> Nat]]
  /\ thb \in [Merchants -> Nat]
  /\ allowance \in [Merchants -> Nat]
  /\ listing \in [Listings -> OnChain]
  /\ batch \in [Requests -> Batches]
  /\ owner \in [Codes -> Merchants \cup {None, Absent}]
  /\ currency \subseteq Vouchers
  /\ mintRows \in [Merchants -> Minted]
  /\ buyRows \in [Requests -> SUBSET Codes]
  /\ req \in [Requests -> Reqs]
  /\ pc \in [Requests -> Places]
  /\ granted \in [Merchants -> Nat]
  /\ polite \in BOOLEAN
  /\ faults \in Nat

Init ==
  /\ voucher = [v \in Vouchers |-> "none"]
  /\ whitelist = {}
  /\ tokens = [v \in Vouchers |-> [w \in Wallets |-> 0]]
  /\ thb = [m \in Merchants |-> 0]
  /\ allowance = [m \in Merchants |-> 0]
  /\ listing = [l \in Listings |-> NoListing]
  /\ batch = [r \in Requests |-> NoBatch]
  /\ owner = [c \in Codes |-> Absent]
  /\ currency = {}
  /\ mintRows = [m \in Merchants |-> [rows |-> 0, thb |-> 0]]
  /\ buyRows = [r \in Requests |-> {}]
  /\ req = [r \in Requests |-> NoReq]
  /\ pc = [r \in Requests |-> "idle"]
  /\ granted = [m \in Merchants |-> 0]
  /\ polite \in BOOLEAN
  /\ faults = 0

-----------------------------------------------------------------------------
Move(r, place) == pc' = [pc EXCEPT ![r] = place]

\* What a request has read is gone when it ends, unless it has paid.
Goto(r, place) ==
  /\ Move(r, place)
  /\ req' = IF place \in {"failed", "listed"} THEN [req EXCEPT ![r] = NoReq] ELSE req

Raises == faults < MaxFaults /\ faults' = faults + 1

Item(r) == req[r].items[req[r].at]

\* The id in the event of the receipt.  The last active listing, which the
\* code takes when it cannot read the event, is never needed.
Here(r) == <<r, req[r].at>>

CodesOf(l) == {l} \X (1 .. Issued)
Unsold(l)  == {c \in CodesOf(l) : owner[c] = None}

-----------------------------------------------------------------------------
(* CreateVoucherWithCodes: the coupon type is made on chain inside of the  *)
(* transaction that inserts the row; when the transaction fails or times   *)
(* out, the type stays.                                                    *)

CreateType(v) ==
  /\ voucher[v] = "none"
  /\ \/ voucher' = [voucher EXCEPT ![v] = "typed"] /\ UNCHANGED faults
     \/ voucher' = [voucher EXCEPT ![v] = "orphan"] /\ Raises
  /\ UNCHANGED <<whitelist, chain, rows, req, pc, stays>>

PersistVoucher(v) ==
  /\ voucher[v] = "typed"
  /\ \/ voucher' = [voucher EXCEPT ![v] = "row"] /\ UNCHANGED faults
     \/ voucher' = [voucher EXCEPT ![v] = "orphan"] /\ Raises
  /\ UNCHANGED <<whitelist, chain, rows, req, pc, stays>>

Missing(W) == W \ whitelist

AddWallet(w)  == whitelist' = whitelist \cup {w}
AddWallets(W) == whitelist' = whitelist \cup W

\* AddToWhitelist: reads which addresses are missing and adds them; those of a
\* batch that are not missing are left out.  Nothing removes an address, so
\* a stale read does no harm.  A seller is added by each of its listings.
Whitelist(w) ==
  /\ Missing({w}) # {} /\ AddWallet(w)
  /\ UNCHANGED <<voucher, chain, rows, req, pc, stays, faults>>

WhitelistBatch(W) ==
  /\ Cardinality(W) > 1 /\ Missing(W) = W /\ AddWallets(W)
  /\ UNCHANGED <<voucher, chain, rows, req, pc, stays, faults>>

-----------------------------------------------------------------------------
(* SellerListOnMarketplace has one item and makes the ListingBatch after   *)
(* the listing; BatchListOnMarketplace has several and makes it first.     *)

TotalOf(items) == Tally([i \in DOMAIN items |-> items[i].amount])

\* The voucher exists and issued at least as many; what was listed before is
\* not subtracted.
Valid(item) == voucher[item.voucher] = "row" /\ item.amount <= Issued

\* Of a request that has ended its batch is left, if it came that far.
Ordered ==
  Tally([r \in Requests |-> IF req[r].by = Seller THEN TotalOf(req[r].items)
                            ELSE batch[r].total])

Begin(r, items, early) ==
  /\ Ordered + TotalOf(items) <= MaxTotal
  /\ pc[r] = "idle" /\ Move(r, "admit")
  /\ req' = [req EXCEPT ![r] = SellReq(items, early)]
  /\ UNCHANGED <<voucher, whitelist, chain, rows, stays, faults>>

List(r) == \E i \in Items : Valid(i) /\ Begin(r, <<i>>, FALSE)

ValidBatch(items) == \A i \in DOMAIN items : Valid(items[i])

ListBatch(r) ==
  \E n \in 1 .. MaxItems : \E items \in [1 .. n -> Items] :
    ValidBatch(items) /\ Begin(r, items, TRUE)

\* isWhitelisted and addToMarketplaceWhitelist for the seller.
Admit(r) ==
  /\ pc[r] = "admit"
  /\ \/ /\ AddWallet(Seller)
        /\ Goto(r, IF req[r].early THEN "batch" ELSE "mint")
        /\ UNCHANGED faults
     \/ Raises /\ Goto(r, "failed") /\ UNCHANGED whitelist
  /\ UNCHANGED <<voucher, chain, rows, stays>>

CreateBatch(r) ==
  /\ pc[r] = "batch"
  /\ \/ /\ batch' = [batch EXCEPT ![r] = NewBatch(TotalOf(req[r].items))]
        /\ Goto(r, IF req[r].early THEN "mint" ELSE "codes")
        /\ UNCHANGED faults
     \/ Raises /\ Goto(r, "failed") /\ UNCHANGED batch
  /\ UNCHANGED <<voucher, whitelist, chain, owner, currency, mintRows,
                 buyRows, stays>>

MintCoupons(v, n) == tokens' = [tokens EXCEPT ![v][Seller] = @ + n]

\* The answer of mintCoupon may be lost.
Mint(r) ==
  /\ pc[r] = "mint"
  /\ \/ /\ MintCoupons(Item(r).voucher, Item(r).amount)
        /\ \/ Goto(r, "list") /\ UNCHANGED faults
           \/ Goto(r, "failed") /\ Raises
     \/ Raises /\ Goto(r, "failed") /\ UNCHANGED tokens
  /\ UNCHANGED <<voucher, whitelist, thb, allowance, listing, rows, stays>>

\* The contract takes n coupons of the seller into its escrow.
Escrow(l, v, n) ==
  /\ tokens[v][Seller] >= n
  /\ tokens' = [tokens EXCEPT ![v][Seller] = @ - n]
  /\ listing' = [listing EXCEPT ![l] = [voucher |-> v, left |-> n]]

\* The answer of listCoupon may be lost.
ListOnChain(r) ==
  /\ pc[r] = "list"
  /\ \/ /\ Escrow(Here(r), Item(r).voucher, Item(r).amount)
        /\ \/ Goto(r, IF req[r].early THEN "codes" ELSE "batch") /\ UNCHANGED faults
           \/ Goto(r, "failed") /\ Raises
     \/ Raises /\ Goto(r, "failed") /\ UNCHANGED <<tokens, listing>>
  /\ UNCHANGED <<voucher, whitelist, thb, allowance, rows, stays>>

\* voucherCode.createMany: one code for each coupon of the listing, without
\* an owner.
CreateCodes(r) ==
  /\ pc[r] = "codes"
  /\ \/ /\ owner' = [c \in Codes |->
             IF c[1] = Here(r) /\ c[2] <= Item(r).amount THEN None ELSE owner[c]]
        /\ Goto(r, "sync")
        /\ UNCHANGED faults
     \/ Raises /\ Goto(r, "failed") /\ UNCHANGED owner
  /\ UNCHANGED <<voucher, whitelist, chain, batch, currency, mintRows,
                 buyRows, stays>>

\* The voucher's currency follows that of its codes; then the next item.
SyncCurrency(r) ==
  /\ pc[r] = "sync"
  /\ \/ /\ currency' = currency \cup {Item(r).voucher}
        /\ IF req[r].at < Len(req[r].items)
           THEN req' = [req EXCEPT ![r] = Advanced(@)] /\ Move(r, "mint")
           ELSE Goto(r, "listed")
        /\ UNCHANGED faults
     \/ Raises /\ Goto(r, "failed") /\ UNCHANGED currency
  /\ UNCHANGED <<voucher, whitelist, chain, batch, owner, mintRows, buyRows,
                 stays>>

-----------------------------------------------------------------------------
(* MerchantBuyCouponFromSeller.                                            *)

Running(places) == {r \in Requests : pc[r] \in places}

\* Polite purchases: one at a time of a merchant and of a listing, and only
\* of a listing whose codes are shown.
MayBuy(m, l) ==
  polite =>
    /\ \A r \in Running(BuyPlaces) : req[r].by # m /\ req[r].listing # l
    /\ \E c \in CodesOf(l) : owner[c] # Absent

\* getMarketplaceListing.
Active(l) == listing[l].left > 0

\* The amount is not compared with what is left.
Buy(r) ==
  /\ pc[r] = "idle"
  /\ \E m \in Merchants, l \in Listings, n \in 1 .. Issued :
       /\ Active(l)
       /\ MayBuy(m, l)
       /\ req' = [req EXCEPT ![r] = BuyReq(m, l, n)]
  /\ Move(r, "balance")
  /\ UNCHANGED <<voucher, whitelist, chain, rows, stays, faults>>

Cost(n) == n * Price

\* Rows are in whole THB: Number(wei / BigInt(10 ** 18)) drops the rest.
WholeTHB(n) == n \div Unit

\* getUserTHBBalance.
THBOf(m) == thb[m]

\* autoMintIfNeeded: the balance.
CheckTHB(r) ==
  LET missing == Cost(req[r].amount) - THBOf(req[r].by) IN
  /\ pc[r] = "balance"
  /\ \/ missing <= 0 /\ Goto(r, "approve") /\ UNCHANGED faults
     \/ /\ missing > 0
        /\ req' = [req EXCEPT ![r] = Lacking(@, missing)]
        /\ Move(r, "mintTHB") /\ UNCHANGED faults
     \/ Raises /\ Goto(r, "failed")
  /\ UNCHANGED <<voucher, whitelist, chain, rows, stays>>

\* Seeded fault: what is missing is not what is minted.
MintOne(r) ==
  /\ pc[r] = "mintTHB"
  /\ thb' = [thb EXCEPT ![req[r].by] = @ + 1]
  /\ Goto(r, "mintRow")
  /\ UNCHANGED <<voucher, whitelist, tokens, allowance, listing, rows, stays,
                 faults>>

MintFor(m, n) == thb' = [thb EXCEPT ![m] = @ + n]

\* autoMintIfNeeded: the answer of mintTHB may be lost.
MintTHB(r) ==
  /\ pc[r] = "mintTHB"
  /\ \/ /\ MintFor(req[r].by, req[r].short)
        /\ \/ Goto(r, "mintRow") /\ UNCHANGED faults
           \/ Goto(r, "unrecorded") /\ Raises
     \/ Raises /\ Goto(r, "failed") /\ UNCHANGED thb
  /\ UNCHANGED <<voucher, whitelist, tokens, allowance, listing, rows, stays>>

\* autoMintIfNeeded: the THB_MINT row.
RecordMint(r) ==
  /\ pc[r] = "mintRow"
  /\ \/ /\ mintRows' = [mintRows EXCEPT ![req[r].by] =
             [rows |-> @.rows + 1, thb |-> @.thb + WholeTHB(req[r].short)]]
        /\ req' = [req EXCEPT ![r] = Lacking(@, 0)]
        /\ Move(r, "approve") /\ UNCHANGED faults
     \/ Raises /\ Goto(r, "unrecorded") /\ UNCHANGED mintRows
  /\ UNCHANGED <<voucher, whitelist, chain, batch, owner, currency, buyRows,
                 stays>>

CanBuy(r) ==
  /\ listing[req[r].listing].left >= req[r].amount
  /\ thb[req[r].by] >= Cost(req[r].amount)

\* Seeded fault: the price of one coupon is approved.
ApproveUnit(r) ==
  /\ pc[r] = "approve"
  /\ CanBuy(r) /\ req[r].by \in whitelist
  /\ allowance' = [allowance EXCEPT ![req[r].by] = Price]
  /\ Goto(r, "pay")
  /\ UNCHANGED <<voucher, whitelist, tokens, thb, listing, rows, stays, faults>>

\* buyCoupon up to the approval, which replaces the one before.
Approve(r) ==
  LET m == req[r].by IN
  /\ pc[r] = "approve"
  /\ \/ /\ CanBuy(r) /\ m \in whitelist
        /\ allowance' = [allowance EXCEPT ![m] = Cost(req[r].amount)]
        /\ Goto(r, "pay") /\ UNCHANGED faults
     \/ /\ ~CanBuy(r) \/ m \notin whitelist
        /\ Goto(r, "failed") /\ UNCHANGED <<allowance, faults>>
     \/ Raises /\ Goto(r, "failed") /\ UNCHANGED allowance
  /\ UNCHANGED <<voucher, whitelist, tokens, thb, listing, rows, stays>>

\* The contract sells n coupons to a merchant.
Sell(l, m, n) ==
  /\ listing' = [listing EXCEPT ![l] = [voucher |-> @.voucher, left |-> @.left - n]]
  /\ tokens' = [tokens EXCEPT ![listing[l].voucher][m] = @ + n]
  /\ thb' = [thb EXCEPT ![m] = @ - Cost(n)]
  /\ allowance' = [allowance EXCEPT ![m] = @ - Cost(n)]

\* The transaction of buyCoupon: its answer may be lost.
Pay(r) ==
  LET m == req[r].by  n == req[r].amount IN
  /\ pc[r] = "pay"
  /\ \/ /\ CanBuy(r) /\ allowance[m] >= Cost(n)
        /\ Sell(req[r].listing, m, n)
        /\ \/ Goto(r, "find") /\ UNCHANGED faults
           \/ Goto(r, "unrecorded") /\ Raises
     \/ /\ ~CanBuy(r) \/ allowance[m] < Cost(n)
        /\ Goto(r, "failed") /\ UNCHANGED <<chain, faults>>
     \/ Raises /\ Goto(r, "failed") /\ UNCHANGED chain
  /\ UNCHANGED <<voucher, whitelist, rows, stays>>

\* Codes of the listing that nobody owns, taken without a lock and after
\* the payment.
FindCodes(r) ==
  LET n == req[r].amount  free == Unsold(req[r].listing) IN
  /\ pc[r] = "find"
  /\ \/ /\ \E S \in SUBSET free :
             Cardinality(S) = n /\ req' = [req EXCEPT ![r] = Holding(@, S)]
        /\ Move(r, "rows") /\ UNCHANGED faults
     \/ Cardinality(free) < n /\ Goto(r, "unrecorded") /\ UNCHANGED faults
     \/ Raises /\ Goto(r, "unrecorded")
  /\ UNCHANGED <<voucher, whitelist, chain, rows, stays>>

\* Of codes of one listing.
First(S) == CHOOSE c \in S : \A d \in S : c[2] <= d[2]

\* Math.round, of a fraction that is not negative.
Rounded(a, b) == (2 * a + b) \div (2 * b)

\* Of each row of a purchase of n coupons.
PricePerUnitTHB(n) == Rounded(WholeTHB(Cost(n)), n)

\* createThbBuyTransactions: a row of PricePerUnitTHB for each code, one after
\* the other.
BuyRow(r) ==
  /\ pc[r] = "rows"
  /\ \/ /\ buyRows' = [buyRows EXCEPT ![r] = @ \cup {First(req[r].held \ @)}]
        /\ Goto(r, IF buyRows'[r] = req[r].held THEN "own" ELSE "rows")
        /\ UNCHANGED faults
     \/ Raises /\ Goto(r, "unrecorded") /\ UNCHANGED buyRows
  /\ UNCHANGED <<voucher, whitelist, chain, batch, owner, currency, mintRows,
                 stays>>

\* Seeded fault: every code of the listing is handed over.
OwnAll(r) ==
  /\ pc[r] = "own"
  /\ owner' = [c \in Codes |-> IF c[1] = req[r].listing /\ owner[c] # Absent
                               THEN req[r].by ELSE owner[c]]
  /\ Goto(r, "count")
  /\ UNCHANGED <<voucher, whitelist, chain, batch, currency, mintRows,
                 buyRows, stays, faults>>

\* The codes are updated by their ids, whoever owns them by now.
Own(r) ==
  /\ pc[r] = "own"
  /\ \/ /\ owner' = [c \in Codes |->
                       IF c \in req[r].held THEN req[r].by ELSE owner[c]]
        /\ Goto(r, "count") /\ UNCHANGED faults
     \/ Raises /\ Goto(r, "unrecorded") /\ UNCHANGED owner
  /\ UNCHANGED <<voucher, whitelist, chain, batch, currency, mintRows,
                 buyRows, stays>>

BatchOf(r) == req[r].listing[1]

\* updateListingBatchStats: the count, then the mark.
Count(r) ==
  /\ pc[r] = "count"
  /\ \/ /\ batch' = [batch EXCEPT ![BatchOf(r)] =
             [total |-> @.total, sold |-> @.sold + req[r].amount, soldOut |-> @.soldOut]]
        /\ Goto(r, "close") /\ UNCHANGED faults
     \/ Raises /\ Goto(r, "uncounted") /\ UNCHANGED batch
  /\ UNCHANGED <<voucher, whitelist, chain, owner, currency, mintRows,
                 buyRows, stays>>

SoldOut(b) == b.sold >= b.total

Close(r) ==
  /\ pc[r] = "close"
  /\ \/ /\ batch' = [batch EXCEPT ![BatchOf(r)] =
             [total |-> @.total, sold |-> @.sold, soldOut |-> @.soldOut \/ SoldOut(@)]]
        /\ Goto(r, "bought") /\ UNCHANGED faults
     \/ Raises /\ Goto(r, "unclosed") /\ UNCHANGED batch
  /\ UNCHANGED <<voucher, whitelist, chain, owner, currency, mintRows,
                 buyRows, stays>>

\* MintTHBToMerchant: the THB is minted, and no row is written.
MintTHBToMerchant(m) ==
  /\ faults < MaxFaults /\ faults' = faults + 1
  /\ MintFor(m, 1)
  /\ granted' = [granted EXCEPT ![m] = @ + 1]
  /\ UNCHANGED <<voucher, whitelist, tokens, allowance, listing, rows, req,
                 pc, polite>>

\* The steps of both handlers; their order is in the places.
Selling(r) == \/ List(r) \/ ListBatch(r) \/ Admit(r) \/ CreateBatch(r) \/ Mint(r)
              \/ ListOnChain(r) \/ CreateCodes(r) \/ SyncCurrency(r)
Buying(r)  == \/ Buy(r) \/ CheckTHB(r) \/ MintTHB(r) \/ RecordMint(r)
              \/ Approve(r) \/ Pay(r) \/ FindCodes(r) \/ BuyRow(r) \/ Own(r)
              \/ Count(r) \/ Close(r)

Next ==
  \/ \E v \in Vouchers : CreateType(v) \/ PersistVoucher(v)
  \/ \E m \in Merchants : Whitelist(m)
  \/ \E m \in Merchants : MintTHBToMerchant(m)
  \/ \E W \in SUBSET Missing(Merchants) : WhitelistBatch(W)
  \/ \E r \in Requests : Selling(r) \/ Buying(r)

Spec == Init /\ [][Next]_vars

-----------------------------------------------------------------------------
(* Properties.                                                             *)

AmountOf(R) == Tally([r \in R |-> req[r].amount])
ShortOf(R)  == Tally([r \in R |-> req[r].short])
TokensOf(m) == Tally([v \in Vouchers |-> tokens[v][m]])
LeftOf(b)   == Tally([l \in {l \in Listings : l[1] = b} |-> listing[l].left])

\* Requests of merchant m for coupons of voucher v that stand at a place.
For(m, v, places) ==
  {r \in Running(places) : req[r].by = m /\ listing[req[r].listing].voucher = v}

CodesOwned(m, v) == {c \in Codes : owner[c] = m /\ listing[c[1]].voucher = v}

Paid == {"find", "rows", "own"}

\* A merchant never owns more codes than he has coupons, counting what his
\* running purchases have paid for: although codes are picked without a lock
\* and written by id (merchantBuyCouponFromSeller:185, :242), two merchants
\* who hold the same codes never get a code from nothing.
NoCodeWithoutCoupon ==
  \A m \in Merchants, v \in Vouchers :
    Cardinality(CodesOwned(m, v)) + AmountOf(For(m, v, Paid)) <= tokens[v][m]

\* THB minted for a merchant is in his wallet or was paid for coupons, and is
\* in the THB_MINT rows unless an operator minted it, or the row is still to be
\* written or failed (autoMintIfNeeded:333, :347): concurrent purchases that
\* read one balance mint too much, and lose none.  The rows never have more
\* than was minted; each misses the fraction it drops (:345), and no more.
MintedIsAccounted ==
  \A m \in Merchants :
    LET minted == thb[m] + Cost(TokensOf(m))
        known  == Unit * mintRows[m].thb + granted[m]
                    + ShortOf({r \in Running({"mintRow", "unrecorded"}) : req[r].by = m})
    IN known <= minted /\ minted <= known + (Unit - 1) * mintRows[m].rows

\* What the batch has sold, what its listings have left on chain and what was
\* paid and not counted yet stay within its total: batches whose later items
\* failed (batchListOnMarketplace:147 before :177), two purchases of the same
\* codes and failed records included.
SoldWithinTotal ==
  \A b \in Requests :
    batch[b] # NoBatch =>
      batch[b].sold + LeftOf(b)
        + AmountOf({r \in Running(Paid \cup {"count"}) : BatchOf(r) = b})
      <= batch[b].total

\* A batch is marked when it is full and only then, whoever looks last
\* (merchantBuyCouponFromSeller:433 to :447).
SoldOutWhenFull ==
  \A b \in Requests :
    /\ batch[b].soldOut => batch[b].sold = batch[b].total
    /\ batch[b] # NoBatch /\ batch[b].sold = batch[b].total =>
         \/ batch[b].soldOut
         \/ \E r \in Running({"close", "unclosed"}) : BatchOf(r) = b

\* A polite merchant who has paid finds his codes, so "Not enough voucher
\* codes available" (merchantBuyCouponFromSeller:202), which comes after the
\* payment, is never the end of a purchase.
PaidFindsCodes ==
  polite => \A r \in Running({"find"}) :
              Cardinality(Unsold(req[r].listing)) >= req[r].amount

\* Between the approval of a polite merchant and his payment neither another
\* approval nor another payment takes what it needs: the transaction can only
\* be refused because the listing has sold out.
ApprovalSuffices ==
  polite => \A r \in Running({"pay"}) :
              /\ thb[req[r].by] >= Cost(req[r].amount)
              /\ allowance[req[r].by] >= Cost(req[r].amount)

\* Polite merchants start VoucherMarketplace from its initial states: where
\* no purchase failed after its payment, they have a coupon in the wallet for
\* every code they own.
HandsOver ==
  polite => \A m \in Merchants, v \in Vouchers :
    For(m, v, {"unrecorded"}) = {} =>
      tokens[v][m] = Cardinality(CodesOwned(m, v)) + AmountOf(For(m, v, Paid))

\* The books of THB and of the listings, whatever fails and whoever overlaps.
BooksBalance == TypeOK /\ MintedIsAccounted /\ SoldWithinTotal /\ SoldOutWhenFull

\* What merchants who wait for each other can rely on.
PoliteTrade == PaidFindsCodes /\ ApprovalSuffices /\ HandsOver
=============================================================================
