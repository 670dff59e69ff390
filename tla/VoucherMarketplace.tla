------------------------- MODULE VoucherMarketplace -------------------------
(***************************************************************************)
(* A merchant who bought coupons from a seller offers them to customers    *)
(* for points.  The coupons of a listing are in the escrow of the          *)
(* marketplace contract, and every one of them has a code in PostgreSQL;   *)
(* a sale moves the coupon and the points on chain first and the code and  *)
(* the customer's balance in the database afterwards.                      *)
(*                                                                         *)
(*   merchant   ActivateVoucher, DelistMarketplaceListing                  *)
(*   customer   BuyCouponFromMarketplace                                   *)
(*   cron       DelistExpiredVouchers                                      *)
(*   transfer   direct transfers of codes that are not listed, as far as   *)
(*              the marketplace sees them (module DirectTransfer)          *)
(*                                                                         *)
(* Nobody redeems a code that is still for sale (VoucherRedemption knows   *)
(* that it is possible); a code redeemed by its buyer is out of this.      *)
(* One voucher, one kind of points, one point for a code.  An activation   *)
(* makes one listing on chain and one ListingBatch, so both are named      *)
(* after the request that makes them.                                      *)
(***************************************************************************)
EXTENDS Integers, FiniteSets

CONSTANTS
  Codes,             \* voucher codes merchants have bought from the seller
  Merchants,
  Customers,
  Requests,          \* HTTP requests
  None,              \* SQL NULL
  Funds,             \* points of a customer at the start
  SerialSellers,     \* a merchant does one thing at a time
  MaxFaults          \* bound: calls that raise

ASSUME NoneIsNobody == None \notin Requests \cup Merchants \cup Customers
ASSUME TwoSides     == Merchants \cap Customers = {}
ASSUME FinitelyMany == IsFiniteSet(Codes) /\ IsFiniteSet(Requests)
ASSUME Bounds       == /\ Funds \in Nat /\ MaxFaults \in Nat
                       /\ SerialSellers \in BOOLEAN

VARIABLES
  owner,      \* VoucherCode.currentOwnerId
  group,      \* VoucherCode.voucherGroupId: the listing of a code
  priced,     \* codes with a pointId
  claimed,    \* codes with a directTransferOperationId
  batch,      \* ListingBatch of a listing
  listing,    \* the listing on chain
  tokens,     \* coupons in the wallet of each owner, on chain
  points,     \* points of each customer, on chain
  balance,    \* CustomerPoint.balances
  req,        \* operation and arguments of a request
  pc,         \* where a request stands
  phase,      \* the voucher's endDate and status
  sweep,      \* the listings the cron still has to withdraw, and for whom
  faults

codes == <<owner, group, priced, claimed>>
chain == <<listing, tokens, points>>
cron  == <<phase, sweep>>
vars  == <<owner, group, priced, claimed, batch, listing, tokens, points,
           balance, req, pc, phase, sweep, faults>>

Buying    == {"balance", "pay", "record", "count", "close"}
Selling   == {"fetch", "list", "persist", "delist", "clear"}
Answered  == {"bought", "activated", "delisted", "refused"}
Failed    == {"unrecorded", "uncounted", "unclosed", "stranded", "uncleared"}
Running   == Buying \cup Selling

Batches   == [total: Nat, sold: Nat, soldOut: BOOLEAN]
NoBatch   == [total |-> 0, sold |-> 0, soldOut |-> FALSE]
OnChain   == [seller: Merchants \cup {None}, left: Nat, open: BOOLEAN]
NoListing == [seller |-> None, left |-> 0, open |-> FALSE]
Reqs      == [by: Merchants \cup Customers \cup {None},
              listing: Requests \cup {None}, amount: Nat, held: SUBSET Codes]
Sweeps    == [todo: SUBSET Requests, clearing: Requests \cup {None},
              signer: [Requests -> Merchants \cup {None}]]
NoSweep   == [todo |-> {}, clearing |-> None,
              signer |-> [l \in Requests |-> None]]
NoReq     == [by |-> None, listing |-> None, amount |-> 0, held |-> {}]

TypeOK ==
  /\ owner \in [Codes -> Merchants \cup Customers]
  /\ group \in [Codes -> Requests \cup {None}]
  /\ priced \subseteq Codes
  /\ claimed \subseteq Codes
  /\ batch \in [Requests -> Batches]
  /\ listing \in [Requests -> OnChain]
  /\ tokens \in [Merchants \cup Customers -> Nat]
  /\ points \in [Customers -> Nat]
  /\ balance \in [Customers -> Int]
  /\ req \in [Requests -> Reqs]
  /\ pc \in [Requests -> {"idle"} \cup Running \cup Answered \cup Failed]
  /\ phase \in {"valid", "ended", "sweeping", "expired"}
  /\ sweep \in Sweeps
  /\ faults \in Nat

\* A merchant has one coupon for each of the codes bought from the seller.
Init ==
  /\ owner \in [Codes -> Merchants]
  /\ group = [c \in Codes |-> None]
  /\ priced = {}
  /\ claimed = {}
  /\ batch = [l \in Requests |-> NoBatch]
  /\ listing = [l \in Requests |-> NoListing]
  /\ tokens = [w \in Merchants \cup Customers |->
                 Cardinality({c \in Codes : owner[c] = w})]
  /\ points = [k \in Customers |-> Funds]
  /\ balance = [k \in Customers |-> Funds]
  /\ req = [r \in Requests |-> NoReq]
  /\ pc = [r \in Requests |-> "idle"]
  /\ phase = "valid"
  /\ sweep = NoSweep
  /\ faults = 0

-----------------------------------------------------------------------------
Goto(r, place) == pc' = [pc EXCEPT ![r] = place]

Raises == faults < MaxFaults /\ faults' = faults + 1

Begin(r, who, l, n, held) ==
  req' = [req EXCEPT ![r] =
            [by |-> who, listing |-> l, amount |-> n, held |-> held]]

\* Codes that a customer may buy in a listing.
OnSale(l) == {c \in priced : group[c] = l /\ owner[c] \in Merchants}

\* Seeded fault: pointId is not looked at.
AllCodes(m) == {c \in Codes : owner[c] = m}

\* Codes of a merchant that were never listed.
Stock(m) == {c \in Codes \ priced : owner[c] = m}

\* Codes a direct transfer has reserved and not delivered yet.
Reserved == {c \in claimed : owner[c] \in Merchants}

\* What a merchant who waits for an answer does not do yet.
SellersIdle ==
  SerialSellers => Reserved = {} /\ \A r \in Requests : pc[r] \notin Selling

-----------------------------------------------------------------------------
(* BuyCouponFromMarketplace.  Requests that are refused before they hold a *)
(* code change nothing and are left out.                                   *)

\* findAvailableVoucherCode and validateVoucherCode.
FindCode(r) ==
  /\ pc[r] = "idle"
  /\ phase = "valid"
  /\ \E k \in Customers, l \in Requests : \E c \in OnSale(l) :
       Begin(r, k, l, 1, {c})
  /\ Goto(r, "balance")
  /\ UNCHANGED <<codes, batch, chain, balance, cron, faults>>

\* validateCustomerBalance, then the wallet and the whitelist.
CheckBalance(r) ==
  /\ pc[r] = "balance"
  /\ \/ balance[req[r].by] >= 1 /\ Goto(r, "pay") /\ UNCHANGED faults
     \/ balance[req[r].by] < 1 /\ Goto(r, "refused") /\ UNCHANGED faults
     \/ Raises /\ Goto(r, "refused")
  /\ UNCHANGED <<codes, batch, chain, balance, req, cron>>

\* The contract sells one coupon to a customer.
Sell(l, k) ==
  /\ listing[l].open /\ listing[l].left >= 1 /\ points[k] >= 1
  /\ listing' = [listing EXCEPT ![l] =
       [seller |-> @.seller, left |-> @.left - 1, open |-> @.left > 1]]
  /\ tokens' = [tokens EXCEPT ![k] = @ + 1]
  /\ points' = [points EXCEPT ![k] = @ - 1]

CannotSell(l, k) ==
  ~listing[l].open \/ listing[l].left < 1 \/ points[k] < 1

\* executePurchaseOnChain: the answer of a purchase that was made may be
\* lost.
Pay(r) ==
  /\ pc[r] = "pay"
  /\ \/ /\ Sell(req[r].listing, req[r].by)
        /\ \/ Goto(r, "record") /\ UNCHANGED faults
           \/ Goto(r, "unrecorded") /\ Raises
     \/ /\ CannotSell(req[r].listing, req[r].by)
        /\ Goto(r, "refused") /\ UNCHANGED <<chain, faults>>
     \/ Raises /\ Goto(r, "refused") /\ UNCHANGED chain
  /\ UNCHANGED <<codes, batch, balance, req, cron>>

\* Seeded fault: the balance is not updated.
RecordFree(r) ==
  /\ pc[r] = "record"
  /\ owner' = [c \in Codes |->
                 IF c \in req[r].held THEN req[r].by ELSE owner[c]]
  /\ Goto(r, "count")
  /\ UNCHANGED <<group, priced, claimed, batch, chain, balance, req, cron,
                 faults>>

\* transferOwnership: one transaction that updates the code by its id, takes
\* the points and inserts both rows of the purchase.
Record(r) ==
  /\ pc[r] = "record"
  /\ \/ /\ owner' = [c \in Codes |->
                       IF c \in req[r].held THEN req[r].by ELSE owner[c]]
        /\ balance' = [balance EXCEPT ![req[r].by] = @ - 1]
        /\ Goto(r, "count")
        /\ UNCHANGED faults
     \/ Raises /\ Goto(r, "unrecorded") /\ UNCHANGED <<owner, balance>>
  /\ UNCHANGED <<group, priced, claimed, batch, chain, req, cron>>

\* Seeded fault: both rows of a purchase are counted.
CountRows(r) ==
  /\ pc[r] = "count"
  /\ batch' = [batch EXCEPT ![req[r].listing].sold = @ + 2]
  /\ Goto(r, "close")
  /\ UNCHANGED <<codes, chain, balance, req, cron, faults>>

\* updateListingBatchStats, first statement.
Count(r) ==
  /\ pc[r] = "count"
  /\ \/ /\ batch' = [batch EXCEPT ![req[r].listing].sold = @ + 1]
        /\ Goto(r, "close")
        /\ UNCHANGED faults
     \/ Raises /\ Goto(r, "uncounted") /\ UNCHANGED batch
  /\ UNCHANGED <<codes, chain, balance, req, cron>>

SoldOut(b) == b.sold >= b.total

\* updateListingBatchStats, the other two.
Close(r) ==
  LET l == req[r].listing IN
  /\ pc[r] = "close"
  /\ \/ /\ batch' = [batch EXCEPT ![l].soldOut = @ \/ SoldOut(batch[l])]
        /\ Goto(r, "bought")
        /\ UNCHANGED faults
     \/ Raises /\ Goto(r, "unclosed") /\ UNCHANGED batch
  /\ UNCHANGED <<codes, chain, balance, req, cron>>

-----------------------------------------------------------------------------
(* ActivateVoucher, for codes bought from a seller.  The database part is  *)
(* one transaction around the calls of the chain: nothing of it is seen    *)
(* before Persist, and after an error nothing is left of it.               *)

\* The codes are counted before the transaction begins.
Activate(r) ==
  /\ pc[r] = "idle"
  /\ SellersIdle
  /\ \E m \in Merchants : \E n \in 1 .. Cardinality(Stock(m)) :
       Begin(r, m, r, n, {})
  /\ Goto(r, "fetch")
  /\ UNCHANGED <<codes, batch, chain, balance, cron, faults>>

\* fetchOwnedCodesToActivate: as many as are left, without a lock.
FetchStock(r) ==
  LET m == req[r].by IN
  /\ pc[r] = "fetch"
  /\ \E S \in SUBSET Stock(m) :
       /\ \/ Cardinality(S) = req[r].amount
          \/ S = Stock(m) /\ Cardinality(S) < req[r].amount
       /\ req' = [req EXCEPT ![r].held = S]
  /\ Goto(r, "list")
  /\ UNCHANGED <<codes, batch, chain, balance, cron, faults>>

\* The contract takes the coupons of a merchant into its escrow.
Escrow(l, m, n) ==
  /\ tokens[m] >= n
  /\ listing' = [listing EXCEPT ![l] = [seller |-> m, left |-> n, open |-> TRUE]]
  /\ tokens' = [tokens EXCEPT ![m] = @ - n]
  /\ UNCHANGED points

\* assertSufficientNFTBalance and listCoupon: the answer may be lost.
ListOnChain(r) ==
  LET m == req[r].by IN
  /\ pc[r] = "list"
  /\ \/ /\ Escrow(r, m, req[r].amount)
        /\ \/ Goto(r, "persist") /\ UNCHANGED faults
           \/ Goto(r, "stranded") /\ Raises
     \/ /\ tokens[m] < req[r].amount
        /\ Goto(r, "refused") /\ UNCHANGED <<chain, faults>>
     \/ Raises /\ Goto(r, "refused") /\ UNCHANGED chain
  /\ UNCHANGED <<codes, batch, balance, req, cron>>

\* verifyListingActive, createListingBatch, persistVoucherCodes and commit;
\* the codes are updated by their ids.  The transaction may time out.
Persist(r) ==
  /\ pc[r] = "persist"
  /\ \/ /\ listing[r].open
        /\ batch' = [batch EXCEPT ![r] = [NoBatch EXCEPT !.total = req[r].amount]]
        /\ group' = [c \in Codes |-> IF c \in req[r].held THEN r ELSE group[c]]
        /\ priced' = priced \cup req[r].held
        /\ Goto(r, "activated")
        /\ UNCHANGED faults
     \/ /\ ~listing[r].open /\ Goto(r, "stranded")
        /\ UNCHANGED <<batch, group, priced, faults>>
     \/ Raises /\ Goto(r, "stranded") /\ UNCHANGED <<batch, group, priced>>
  /\ UNCHANGED <<owner, claimed, chain, balance, req, cron>>

-----------------------------------------------------------------------------
(* DelistMarketplaceListing.                                               *)

Listed(l) == {c \in Codes : group[c] = l}

\* The merchant to whom a code says its listing belongs; a code that was
\* sold names the voucher's merchant, and a seller's voucher has none.
SellerOf(c) == IF owner[c] \in Merchants THEN owner[c] ELSE None

\* The first of the codes, in any order, decides.
Delist(r) ==
  /\ pc[r] = "idle"
  /\ SellersIdle
  /\ \E m \in Merchants, l \in Requests :
       /\ listing[l].seller # None
       /\ Listed(l) = {} \/ \E c \in Listed(l) : SellerOf(c) \in {m, None}
       /\ Begin(r, m, l, 0, Listed(l))
  /\ Goto(r, "delist")
  /\ UNCHANGED <<codes, batch, chain, balance, cron, faults>>

Withdrawable(l, m) == listing[l].open /\ listing[l].seller = m

\* The contract gives what is left of a listing back to its seller.
Withdraw(l, m) ==
  /\ Withdrawable(l, m)
  /\ listing' = [listing EXCEPT ![l] =
       [seller |-> m, left |-> 0, open |-> FALSE]]
  /\ tokens' = [tokens EXCEPT ![m] = @ + listing[l].left]
  /\ UNCHANGED points

\* delistCoupon: the answer may be lost.
DelistOnChain(r) ==
  LET l == req[r].listing  m == req[r].by IN
  /\ pc[r] = "delist"
  /\ \/ /\ Withdraw(l, m)
        /\ \/ /\ Goto(r, IF req[r].held = {} THEN "delisted" ELSE "clear")
              /\ UNCHANGED faults
           \/ Goto(r, "uncleared") /\ Raises
     \/ ~Withdrawable(l, m) /\ Goto(r, "refused") /\ UNCHANGED <<chain, faults>>
     \/ Raises /\ Goto(r, "refused") /\ UNCHANGED chain
  /\ UNCHANGED <<codes, batch, balance, req, cron>>

Unlist(l) == group' = [c \in Codes |-> IF group[c] = l THEN None ELSE group[c]]

ClearGroup(r) ==
  /\ pc[r] = "clear"
  /\ \/ Unlist(req[r].listing) /\ Goto(r, "delisted") /\ UNCHANGED faults
     \/ Raises /\ Goto(r, "uncleared") /\ UNCHANGED group
  /\ UNCHANGED <<owner, priced, claimed, batch, chain, balance, req, cron>>

RequestStep(r) ==
  \/ CheckBalance(r) \/ Pay(r) \/ Record(r) \/ Count(r) \/ Close(r)
  \/ FetchStock(r) \/ ListOnChain(r) \/ Persist(r)
  \/ DelistOnChain(r) \/ ClearGroup(r)

-----------------------------------------------------------------------------
(* DelistExpiredVouchers.                                                  *)

\* The endDate of the voucher passes.
End ==
  /\ phase = "valid"
  /\ phase' = "ended"
  /\ UNCHANGED <<codes, batch, chain, balance, req, pc, sweep, faults>>

\* findExpiredListedCodes and groupByListing; the first code of a listing,
\* in any order, says who signs.
StartSweep ==
  /\ phase = "ended"
  /\ phase' = "sweeping"
  /\ LET found == {group[c] : c \in Codes} \ {None} IN
     \E who \in [Requests -> Merchants \cup {None}] :
       /\ \A l \in found : \E c \in Listed(l) : who[l] = SellerOf(c)
       /\ \A l \in Requests \ found : who[l] = None
       /\ sweep' = [todo |-> found, clearing |-> None, signer |-> who]
  /\ UNCHANGED <<codes, batch, chain, balance, req, pc, faults>>

\* processListing: a withdrawal that fails is only logged.
SweepOnChain(l) ==
  LET m == sweep.signer[l] IN
  /\ phase = "sweeping"
  /\ l \in sweep.todo /\ sweep.clearing = None
  /\ sweep' = [sweep EXCEPT !.clearing = l]
  /\ \/ Withdraw(l, m) /\ UNCHANGED faults
     \/ ~Withdrawable(l, m) /\ UNCHANGED <<chain, faults>>
     \/ Raises /\ UNCHANGED chain
  /\ UNCHANGED <<codes, batch, balance, req, pc, phase>>

\* clearVoucherGroupId; an error is counted and the loop goes on.
SweepClear(l) ==
  /\ sweep.clearing = l /\ l \in Requests
  /\ sweep' = [sweep EXCEPT !.clearing = None, !.todo = @ \ {l}]
  /\ \/ Unlist(l) /\ UNCHANGED faults
     \/ Raises /\ UNCHANGED group
  /\ UNCHANGED <<owner, priced, claimed, batch, chain, balance, req, pc, phase>>

\* markVouchersExpired: the cron does not come back to the voucher.  When it
\* fails, or the process stops in a sweep, the next run starts again.
Mark ==
  /\ phase = "sweeping"
  /\ sweep' = NoSweep
  /\ \/ sweep.todo = {} /\ phase' = "expired" /\ UNCHANGED faults
     \/ phase' = "ended" /\ Raises
  /\ UNCHANGED <<codes, batch, chain, balance, req, pc>>

CronStep ==
  StartSweep \/ Mark \/ \E l \in Requests : SweepOnChain(l) \/ SweepClear(l)

-----------------------------------------------------------------------------
(* Direct transfers.                                                       *)

\* A merchant's request reserves a code of the wallet pool.
Reserve(c) ==
  /\ SellersIdle
  /\ c \notin claimed
  /\ owner[c] \in Merchants /\ group[c] = None /\ c \notin priced
  /\ claimed' = claimed \cup {c}
  /\ UNCHANGED <<owner, group, priced, batch, chain, balance, req, pc, cron,
                 faults>>

\* It ends with the coupon and the code at a customer, or it gives the code
\* back; the code is found again by its reservation alone.
Deliver(c, k) ==
  /\ c \in Reserved /\ tokens[owner[c]] >= 1
  /\ tokens' = [tokens EXCEPT ![owner[c]] = @ - 1, ![k] = @ + 1]
  /\ owner' = [owner EXCEPT ![c] = k]
  /\ group' = [group EXCEPT ![c] = None]
  /\ UNCHANGED <<priced, claimed, batch, listing, points, balance, req, pc,
                 cron, faults>>

Release(c) ==
  /\ c \in Reserved
  /\ claimed' = claimed \ {c}
  /\ UNCHANGED <<owner, group, priced, batch, chain, balance, req, pc, cron,
                 faults>>

Transfer(c) == Reserve(c) \/ Release(c) \/ \E k \in Customers : Deliver(c, k)

Next ==
  \/ \E r \in Requests :
       FindCode(r) \/ Activate(r) \/ Delist(r) \/ RequestStep(r)
  \/ End \/ CronStep
  \/ \E c \in Codes : Transfer(c)

Spec == Init /\ [][Next]_vars

-----------------------------------------------------------------------------
(* Properties.                                                             *)

By(k, places) == {r \in Requests : req[r].by = k /\ pc[r] \in places}
At(l, places) == {r \in Requests : req[r].listing = l /\ pc[r] \in places}

\* The balance the application keeps of a customer is the one on chain plus
\* the purchases that are not recorded yet or whose recording failed, so
\* what it refuses is refused by the chain too, and it never gets negative:
\* a decrement without a condition (:474) after a balance read long before
\* (:253), for two purchases of a customer who can pay for one.
BalanceFollowsChain ==
  \A k \in Customers :
    balance[k] = points[k] + Cardinality(By(k, {"record", "unrecorded"}))

\* What a listing has sold according to its batch, the sales that are not
\* counted there and what is left on chain are together what was listed:
\* two purchases of one code, withdrawals and lost answers included, no
\* batch sells more than it has (:527).
SoldWithinTotal ==
  \A l \in Requests :
    batch[l].sold
      + Cardinality(At(l, {"record", "unrecorded", "count", "uncounted"}))
      + listing[l].left <= batch[l].total \/ batch[l] = NoBatch

\* docs/API_DOCUMENTATION.md:3316 promises SOLD_OUT automatically when soldItems
\* reaches totalItems: between concurrent purchases that each increment
\* and then look, somebody sees the last increment.
SoldOutWhenFull ==
  \A l \in Requests :
    /\ batch[l].soldOut => batch[l].sold = batch[l].total
    /\ batch[l] # NoBatch /\ batch[l].sold = batch[l].total =>
         batch[l].soldOut \/ At(l, {"close", "unclosed"}) # {}

\* While a merchant does one thing at a time, every coupon an open listing
\* has left comes with a code that can still be bought, however the
\* customers' purchases overlap, even two of one code: nobody pays and
\* finds the listing without codes.
EscrowHasCodes ==
  SerialSellers /\ phase = "valid" =>
    \A l \in Requests :
      listing[l].open /\ batch[l] # NoBatch =>
        listing[l].left <= Cardinality(OnSale(l))

-----------------------------------------------------------------------------
(* Inductive invariants of the proofs.                                     *)

Activated(l) == pc[l] = "activated"

Bought == Buying \cup {"bought", "unrecorded", "uncounted", "unclosed"}

\* A request that buys has found its codes in a listing that was activated;
\* only activations make listings and batches.
PlaceInv(r) ==
  /\ pc[r] \in Bought =>
       /\ req[r].by \in Customers
       /\ req[r].listing \in Requests /\ Activated(req[r].listing)
  /\ pc[r] \in {"fetch", "list", "persist", "activated"} =>
       req[r].by \in Merchants /\ req[r].amount >= 1
  /\ pc[r] \in {"delist", "clear"} =>
       req[r].by \in Merchants /\ req[r].listing \in Requests
  /\ pc[r] \notin {"persist", "activated", "stranded"} => listing[r] = NoListing
  /\ pc[r] = "persist" => listing[r].left <= req[r].amount
  /\ listing[r].open => listing[r].seller \in Merchants
  /\ Activated(r) <=> batch[r] # NoBatch

GroupInv == \A c \in Codes : group[c] # None => Activated(group[c])

IInv ==
  /\ TypeOK
  /\ \A r \in Requests : PlaceInv(r)
  /\ GroupInv
  /\ BalanceFollowsChain
  /\ SoldWithinTotal
  /\ SoldOutWhenFull

\* Where a merchant's requests and direct transfers wait for each other.
OneAtATime ==
  /\ \A r, q \in Requests : pc[r] \in Selling /\ pc[q] \in Selling => r = q
  /\ \A r \in Requests : pc[r] \in Selling => Reserved = {}
  /\ \A c \in Reserved : group[c] = None

\* A seller's request then works on stock that nobody else takes, and a code
\* a buyer holds is not listed again.
HeldInv(r) ==
  /\ pc[r] = "fetch" => req[r].amount <= Cardinality(Stock(req[r].by))
  /\ pc[r] \in {"list", "persist"} =>
       /\ req[r].held \subseteq Stock(req[r].by)
       /\ Cardinality(req[r].held) = req[r].amount
  /\ pc[r] = "clear" => ~listing[req[r].listing].open
  /\ pc[r] \in Bought =>
       /\ req[r].held \subseteq priced
       /\ Cardinality(req[r].held) = 1
       /\ \A c \in req[r].held : group[c] \in {req[r].listing, None}

\* Every sale that is about to be recorded still has its code on sale.
Backed(l) ==
  listing[l].open /\ Activated(l) =>
    listing[l].left + Cardinality(At(l, {"record"})) <= Cardinality(OnSale(l))

PoliteInv ==
  SerialSellers =>
    /\ OneAtATime
    /\ \A r \in Requests : HeldInv(r)
    /\ phase = "valid" => sweep.clearing = None
    /\ phase = "valid" => \A l \in Requests : Backed(l)
=============================================================================
