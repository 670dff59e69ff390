-------------------------- MODULE MarketplaceView --------------------------
(***************************************************************************)
(* What the application shows of the marketplace, beside the requests that *)
(* change it.                                                              *)
(*                                                                         *)
(*   lists    getMarketplaceListings, ...Enduser and ...ByMerchantRef read *)
(*            the open listings from a cache of the server, or in two      *)
(*            calls to the node, and complete them from the database;      *)
(*   one      getVoucherByListingId reads one listing and the database;    *)
(*   audit    checkAndSyncVoucherOnchain compares both for a voucher.      *)
(*                                                                         *)
(* One voucher of a seller is followed: the seller lists coupons for THB,  *)
(* a merchant buys them and lists them for points, customers buy and       *)
(* redeem them.  The cache is that of one server; the requests that change *)
(* the marketplace (the subject of SellerMarket and VoucherMarketplace)    *)
(* run on it or on another.  Codes are counted, not named: a request has   *)
(* found its code at some time, and whether another request has moved that *)
(* code since is settled when the code is written.                         *)
(***************************************************************************)
EXTENDS Integers, FiniteSets, Sequences, SequencesExt, Tallies

CONSTANTS
  Listings,
  ThbListings,     \* those the seller offers to merchants
  Buyers,
  Writers,         \* requests that change the marketplace
  Readers,         \* requests that look at it
  Null,
  TTL,             \* LISTINGS_CACHE_TTL_MS, in ticks of the clock
  Amounts,         \* bound: coupons of a listing
  Supply,          \* bound: coupons the merchant has from earlier purchases
  MaxRaises        \* bound: calls that raise

Merchant == "merchant"
Kinds    == {"offer", "trade", "list", "buy", "delist", "redeem"}

ASSUME Sides       == ThbListings \subseteq Listings
ASSUME FewOfEach   == /\ IsFiniteSet(Listings) /\ IsFiniteSet(Buyers)
                      /\ IsFiniteSet(Writers)
ASSUME NullIsNoOne == /\ Null \notin Listings \cup Buyers \cup Kinds
                      /\ Merchant \notin Buyers
ASSUME ViewBounds  == /\ Amounts \subseteq Nat \ {0}
                      /\ {TTL, Supply, MaxRaises} \subseteq Nat

VARIABLES
  order,      \* getActiveListings: the open listings, in the contract's order
  left,       \* coupons of each listing in the escrow
  coins,      \* coupons of the merchant and of each customer
  redeemed,   \* totalRedeemed of the coupon type
  stock,      \* codes the merchant may list
  unsold,     \* codes of a listing no customer owns
  sold,       \* codes of a listing a customer owns; they keep voucherGroupId
  unused,     \* unused codes of each customer
  used,       \* codes with isUsed
  cache,      \* listingsCache of the server, or Null
  listed,     \* ids the contract has given
  closedFor,  \* ticks since a listing was closed
  writer,
  reader,
  lost,       \* kinds of chain operations whose record failed
  shared,     \* kinds of those that wrote a code which another had moved
  raised

onChain  == <<order, left, coins, redeemed, listed>>
rows     == <<stock, unsold, sold, unused, used>>
viewVars == <<order, left, coins, redeemed, listed, stock, unsold, sold, unused,
              used, cache, closedFor, writer, reader, lost, shared, raised>>

\* A listing with the struct of listing "of", which had "left" coupons.
Pairs   == [id: Listings, of: Listings, left: Nat]
Caches  == [data: Seq(Pairs), age: 0 .. TTL, missed: SUBSET Listings,
            torn: BOOLEAN]

Changers == [place: {"idle", "mined", "record"}, kind: Kinds \cup {Null},
             listing: Listings \cup {Null}, by: Buyers \cup {Null}, n: Nat,
             here: BOOLEAN]
Idle     == [place |-> "idle", kind |-> Null, listing |-> Null, by |-> Null,
             n |-> 0, here |-> TRUE]

Structs  == [of: Listings, left: Nat]
Censuses == [listed: Nat, unowned: Nat, unused: [Buyers -> Nat]]
Lookers  == [place: {"idle", "fetch", "details", "counts", "row", "answered",
                     "statsRead", "codesRead", "heldRead", "audited"},
             pointOnly: BOOLEAN, sellerOnly: BOOLEAN,
             ids: Seq(Listings) \cup {Null}, structs: Seq(Structs) \cup {Null},
             view: Seq(Pairs), found: SUBSET Listings, answer: SUBSET Pairs,
             redeemed: Nat, used: Nat, codes: Censuses \cup {Null},
             held: [Buyers -> Nat] \cup {Null},
             alarms: SUBSET {"market", "redeemed", "customer", "merchant"},
             one: Listings \cup {Null}, calm: BOOLEAN, torn: BOOLEAN, ok: BOOLEAN]
Waiting  == [place |-> "idle", pointOnly |-> FALSE, sellerOnly |-> FALSE,
             ids |-> Null, structs |-> Null, view |-> <<>>, found |-> {},
             answer |-> {}, redeemed |-> 0, used |-> 0, codes |-> Null,
             held |-> Null, alarms |-> {}, one |-> Null, calm |-> FALSE,
             torn |-> FALSE, ok |-> TRUE]

Open(l)      == left[l] > 0
WasClosed(l) == l \in listed /\ ~Open(l)

ViewTypeOK ==
  /\ left \in [Listings -> Nat]
  /\ order \in SetToSeqs({l \in Listings : Open(l)})
  /\ coins \in [Buyers \cup {Merchant} -> Nat]
  /\ redeemed \in Nat /\ stock \in Nat /\ used \in Nat
  /\ unsold \in [Listings -> Nat]
  /\ sold \in [Listings -> Nat]
  /\ unused \in [Buyers -> Nat]
  /\ cache = Null \/ cache \in Caches
  /\ listed \subseteq Listings
  /\ closedFor \in [Listings -> 0 .. TTL]
  /\ writer \in [Writers -> Changers]
  /\ reader \in [Readers -> Lookers]
  /\ lost \subseteq Kinds /\ shared \subseteq Kinds
  /\ raised \in 0 .. MaxRaises

ViewInit ==
  /\ order = <<>>
  /\ left = [l \in Listings |-> 0]
  /\ coins = [w \in Buyers \cup {Merchant} |-> IF w = Merchant THEN Supply ELSE 0]
  /\ redeemed = 0 /\ stock = Supply /\ used = 0
  /\ unsold = [l \in Listings |-> 0]
  /\ sold = [l \in Listings |-> 0]
  /\ unused = [k \in Buyers |-> 0]
  /\ cache = Null
  /\ listed = {}
  /\ closedFor = [l \in Listings |-> 0]
  /\ writer = [w \in Writers |-> Idle]
  /\ reader = [r \in Readers |-> Waiting]
  /\ lost = {} /\ shared = {} /\ raised = 0

-----------------------------------------------------------------------------
(* Requests that change the marketplace: the transaction is mined, its     *)
(* receipt arrives, and the database is written.                           *)

CallRaises == raised < MaxRaises /\ raised' = raised + 1

\* What happens while a request reads: its answer may be of no single moment,
\* and what it fetches may be torn.
Disturb ==
  reader' = [r \in Readers |-> [reader[r] EXCEPT
               !.calm = FALSE, !.torn = @ \/ reader[r].place = "fetch"]]

\* The contract's list after l was opened or closed, in any order.
Reorder(S) == order' \in SetToSeqs(S)

Sends(w, kind, l, k, n) ==
  /\ writer[w] = Idle
  /\ \E here \in BOOLEAN :
       writer' = [writer EXCEPT ![w] =
         [place |-> "mined", kind |-> kind, listing |-> l, by |-> k, n |-> n,
          here |-> here]]
  /\ Disturb
  /\ UNCHANGED <<rows, cache, lost, shared, raised>>

\* sellerListOnMarketplace mints what it lists, activateVoucher lists codes
\* of the merchant; two activations at a time are a subject of
\* VoucherMarketplace.
Offer(w, l, n) ==
  /\ l \notin listed /\ listed' = listed \cup {l}
  /\ left' = [left EXCEPT ![l] = n]
  /\ Reorder(ToSet(order) \cup {l})
  /\ IF l \in ThbListings
       THEN Sends(w, "offer", l, Null, n) /\ UNCHANGED coins
       ELSE /\ stock >= n /\ coins[Merchant] >= n
            /\ coins' = [coins EXCEPT ![Merchant] = @ - n]
            /\ \A v \in Writers : writer[v].kind # "list"
            /\ Sends(w, "list", l, Null, n)
  /\ UNCHANGED <<redeemed, closedFor>>

\* The contract closes a listing whose last coupon is sold.
Take(l) ==
  /\ Open(l)
  /\ left' = [left EXCEPT ![l] = @ - 1]
  /\ IF left[l] = 1 THEN Reorder(ToSet(order) \ {l}) ELSE UNCHANGED order

\* A merchant pays before he looks for codes.
Trade(w, l) ==
  /\ l \in ThbListings /\ Take(l)
  /\ coins' = [coins EXCEPT ![Merchant] = @ + 1]
  /\ Sends(w, "trade", l, Null, 1)
  /\ UNCHANGED <<redeemed, listed, closedFor>>

\* A customer has found a code, which may have been sold since.
Buy(w, l, k) ==
  /\ l \notin ThbListings /\ unsold[l] + sold[l] > 0
  /\ Take(l)
  /\ coins' = [coins EXCEPT ![k] = @ + 1]
  /\ Sends(w, "buy", l, k, 1)
  /\ UNCHANGED <<redeemed, listed, closedFor>>

DelistCoupon(w, l) ==
  /\ l \notin ThbListings /\ Open(l) /\ unsold[l] > 0
  /\ coins' = [coins EXCEPT ![Merchant] = @ + left[l]]
  /\ left' = [left EXCEPT ![l] = 0]
  /\ Reorder(ToSet(order) \ {l})
  /\ Sends(w, "delist", l, Null, left[l])
  /\ UNCHANGED <<redeemed, listed, closedFor>>

\* Nor may the code be unused any more.
Redeem(w, k) ==
  /\ unused[k] + used > 0 /\ coins[k] > 0
  /\ coins' = [coins EXCEPT ![k] = @ - 1]
  /\ redeemed' = redeemed + 1
  /\ Sends(w, "redeem", Null, k, 1)
  /\ UNCHANGED <<order, left, listed, closedFor>>

\* Seeded fault: buyCoupon does not invalidate the cache.
KeepAfterSale(w) ==
  IF writer[w].here /\ writer[w].kind \notin {"redeem", "buy", "trade"}
    THEN cache' = Null
    ELSE cache' = IF cache = Null \/ writer[w].kind = "redeem" \/ writer[w].here
                  THEN cache
                  ELSE [cache EXCEPT !.missed = @ \cup {writer[w].listing}]

\* invalidateListingsCache, on the server of the request; the copy of another
\* server misses the change.
Invalidate(w) ==
  cache' = IF writer[w].kind = "redeem" \/ cache = Null THEN cache ELSE
           IF writer[w].here THEN Null
           ELSE [cache EXCEPT !.missed = @ \cup {writer[w].listing}]

\* The receipt.  When it is lost, nothing is invalidated or recorded.
Receipt(w) ==
  /\ writer[w].place = "mined"
  /\ \/ /\ Invalidate(w)
        /\ writer' = [writer EXCEPT ![w].place = "record"]
        /\ UNCHANGED <<lost, raised>>
     \/ /\ CallRaises
        /\ lost' = lost \cup {writer[w].kind}
        /\ cache' = IF cache = Null THEN Null
                    ELSE [cache EXCEPT !.missed = @ \cup ({writer[w].listing} \ {Null})]
        /\ writer' = [writer EXCEPT ![w] = Idle]
  /\ Disturb
  /\ UNCHANGED <<onChain, rows, closedFor, shared>>

\* A code whose listing was withdrawn meanwhile has no voucherGroupId; a
\* merchant's purchase clears it.
WriteOwn(q) ==
  LET l == q.listing  k == q.by IN
  \/ /\ q.kind = "offer"
     /\ unsold' = [unsold EXCEPT ![l] = q.n]
     /\ UNCHANGED <<stock, sold, unused, used>>
  \/ /\ q.kind = "trade" /\ unsold[l] > 0
     /\ unsold' = [unsold EXCEPT ![l] = @ - 1] /\ stock' = stock + 1
     /\ UNCHANGED <<sold, unused, used>>
  \/ /\ q.kind = "list"
     /\ unsold' = [unsold EXCEPT ![l] = q.n] /\ stock' = stock - q.n
     /\ UNCHANGED <<sold, unused, used>>
  \/ /\ q.kind = "buy" /\ unsold[l] > 0
     /\ unused' = [unused EXCEPT ![k] = @ + 1]
     /\ unsold' = [unsold EXCEPT ![l] = @ - 1]
     /\ sold' = [sold EXCEPT ![l] = @ + 1]
     /\ UNCHANGED <<stock, used>>
  \/ /\ q.kind = "buy" /\ unsold[l] + sold[l] = 0
     /\ unused' = [unused EXCEPT ![k] = @ + 1]
     /\ UNCHANGED <<stock, unsold, sold, used>>
  \/ /\ q.kind = "delist"
     /\ unsold' = [unsold EXCEPT ![l] = 0] /\ sold' = [sold EXCEPT ![l] = 0]
     /\ UNCHANGED <<stock, unused, used>>
  \/ /\ q.kind = "redeem" /\ unused[k] > 0
     /\ unused' = [unused EXCEPT ![k] = @ - 1] /\ used' = used + 1
     /\ UNCHANGED <<stock, unsold, sold>>

\* The writes go by the id of the code, wherever it is now: a customer may
\* have bought it, and used it; a merchant may have it, or may have listed it.
WriteShared(q) ==
  LET l == q.listing  k == q.by IN
  \/ /\ q.kind = "trade" /\ stock > 0
     /\ UNCHANGED rows
  \/ /\ q.kind = "trade"
     /\ \E m \in Listings \ ThbListings :
          unsold[m] > 0 /\ unsold' = [unsold EXCEPT ![m] = @ - 1]
     /\ stock' = stock + 1
     /\ UNCHANGED <<sold, unused, used>>
  \/ /\ q.kind = "buy" /\ (sold[l] > 0 \/ unsold[l] = 0)
     /\ \E j \in Buyers :
          /\ unused[j] > 0
          /\ unused' = [[unused EXCEPT ![j] = @ - 1] EXCEPT ![k] = @ + 1]
     /\ UNCHANGED <<stock, unsold, sold, used>>
  \/ /\ q.kind \in {"buy", "redeem"} /\ used > 0
     /\ UNCHANGED rows
  \/ /\ q.kind = "redeem" /\ "buy" \in shared
     /\ \E j \in Buyers :
          unused[j] > 0 /\ unused' = [unused EXCEPT ![j] = @ - 1]
     /\ used' = used + 1
     /\ UNCHANGED <<stock, unsold, sold>>

\* Of a merchant's payment for which no code is left nothing is written.
FindsNone(q) ==
  q.kind = "trade" /\ unsold[q.listing] = 0

RecordChange(w) ==
  LET q == writer[w] IN
  /\ q.place = "record"
  /\ \/ WriteOwn(q) /\ UNCHANGED <<lost, shared, raised>>
     \/ /\ WriteShared(q) /\ shared' = shared \cup {q.kind}
        /\ UNCHANGED <<lost, raised>>
     \/ /\ (FindsNone(q) /\ UNCHANGED raised) \/ CallRaises
        /\ lost' = lost \cup {q.kind} /\ UNCHANGED <<rows, shared>>
  /\ writer' = [writer EXCEPT ![w] = Idle]
  /\ Disturb
  /\ UNCHANGED <<onChain, cache, closedFor>>

-----------------------------------------------------------------------------
(* The clock.                                                              *)

Tick ==
  /\ \/ cache # Null /\ cache.age < TTL
     \/ \E l \in Listings : WasClosed(l) /\ closedFor[l] < TTL
  /\ cache' = IF cache = Null \/ cache.age = TTL THEN cache
              ELSE [cache EXCEPT !.age = @ + 1]
  /\ closedFor' = [l \in Listings |->
       IF WasClosed(l) /\ closedFor[l] < TTL THEN closedFor[l] + 1 ELSE closedFor[l]]
  /\ reader' = [r \in Readers |-> [reader[r] EXCEPT
                  !.torn = @ \/ reader[r].place = "fetch"]]
  /\ UNCHANGED <<onChain, rows, writer, lost, shared, raised>>

-----------------------------------------------------------------------------
(* A list of listings.                                                     *)

Stands(r, place)    == reader[r].place = place
Set(r, q)       == reader' = [reader EXCEPT ![r] = q]
Reads           == UNCHANGED <<onChain, rows, closedFor, writer, lost, shared>>
Calm            == \A w \in Writers : writer[w] = Idle

\* Seeded fault: the age of the cache is not looked at.
FreshWhatever == cache # Null

Fresh == cache # Null /\ cache.age < TTL

\* getAllActiveMarketplaceListings: from the cache, or two calls in parallel.
StartList(r, inPoints, thb) ==
  /\ Stands(r, "idle")
  /\ Set(r, [Waiting EXCEPT
               !.pointOnly = inPoints, !.sellerOnly = thb,
               !.place = IF Fresh THEN "details" ELSE "fetch",
               !.view  = IF Fresh THEN cache.data ELSE <<>>,
               !.calm  = Calm /\ (Fresh => cache.missed = {} /\ ~cache.torn)])
  /\ Reads /\ UNCHANGED <<cache, raised>>

\* The three lists differ in what they leave out.
GetMarketplaceListings(r)        == \E thb \in BOOLEAN : StartList(r, FALSE, thb)
GetMarketplaceListingsEndUser(r) == \E thb \in BOOLEAN : StartList(r, TRUE, thb)
ByMerchantRef(r)                 == StartList(r, TRUE, FALSE)

Fails(r) == CallRaises /\ Set(r, Waiting)

FetchIds(r) ==
  /\ Stands(r, "fetch") /\ reader[r].ids = Null
  /\ \/ Set(r, [reader[r] EXCEPT !.ids = order]) /\ UNCHANGED raised
     \/ Fails(r)
  /\ Reads /\ UNCHANGED cache

FetchStructs(r) ==
  /\ Stands(r, "fetch") /\ reader[r].structs = Null
  /\ \/ /\ Set(r, [reader[r] EXCEPT !.structs =
              [i \in DOMAIN order |-> [of |-> order[i], left |-> left[order[i]]]]])
        /\ UNCHANGED raised
     \/ Fails(r)
  /\ Reads /\ UNCHANGED cache

\* Seeded fault: the structs are taken from the other end.
PairBackwards(ids, structs) ==
  [i \in DOMAIN ids |-> LET t == structs[Len(structs) + 1 - i] IN
     [id |-> ids[i], of |-> t.of, left |-> t.left]]

PairUp(ids, structs) ==
  [i \in DOMAIN ids |-> [id |-> ids[i], of |-> structs[i].of, left |-> structs[i].left]]

\* Fewer structs than ids raise; the cache is filled after both calls, with
\* the time of now, whatever was invalidated in between.
Store(r) ==
  LET q == reader[r] IN
  /\ Stands(r, "fetch") /\ q.ids # Null /\ q.structs # Null
  /\ \/ /\ Len(q.structs) >= Len(q.ids)
        /\ cache' = [data |-> PairUp(q.ids, q.structs), age |-> 0, missed |-> {},
                   torn |-> q.torn]
        /\ Set(r, [q EXCEPT !.place = "details", !.view = PairUp(q.ids, q.structs),
                            !.ids = Null, !.structs = Null, !.torn = FALSE])
     \/ Len(q.structs) < Len(q.ids) /\ Set(r, Waiting) /\ UNCHANGED cache
  /\ Reads /\ UNCHANGED raised

\* The payment token comes with the struct.
Offered(q) ==
  {p \in ToSet(q.view) : q.sellerOnly => p.of \in ThbListings}

\* A code that no customer owns, with its voucher.
Detail(l, inPoints) == unsold[l] > 0 /\ (inPoints => l \notin ThbListings)

Details(r) ==
  /\ Stands(r, "details")
  /\ Set(r, [reader[r] EXCEPT !.place = "counts",
       !.found = {p.id : p \in {o \in Offered(reader[r]) :
                                  Detail(o.id, reader[r].pointOnly)}}])
  /\ Reads /\ UNCHANGED <<cache, raised>>

\* Coupons for THB are counted on chain, the others in the database.
Available(p) == IF p.of \in ThbListings THEN p.left ELSE unsold[p.id]

Entry(p) == [id |-> p.id, of |-> p.of, left |-> Available(p)]

\* buildMarketplaceListings; the voucher has not expired.
Shown(q) == {Entry(p) : p \in {o \in Offered(q) : o.id \in q.found /\ Available(o) > 0}}

Counts(r) ==
  /\ Stands(r, "counts")
  /\ Set(r, [reader[r] EXCEPT !.place = "answered", !.view = <<>>, !.found = {},
                              !.answer = Shown(reader[r])])
  /\ Reads /\ UNCHANGED <<cache, raised>>

EndLook(r) ==
  /\ reader[r].place \in {"answered", "audited"} /\ Set(r, Waiting)
  /\ Reads /\ UNCHANGED <<cache, raised>>

-----------------------------------------------------------------------------
(* One listing: a listing that is closed or cannot be read is not found.   *)

StartOne(r) ==
  /\ Stands(r, "idle")
  /\ \E l \in Listings :
       /\ Open(l)
       /\ Set(r, [Waiting EXCEPT !.place = "row", !.one = l, !.calm = Calm,
                   !.view = <<[id |-> l, of |-> l, left |-> left[l]]>>])
  /\ Reads /\ UNCHANGED <<cache, raised>>

ReadOne(r) ==
  LET p == reader[r].view[1] IN
  /\ Stands(r, "row")
  /\ Set(r, [reader[r] EXCEPT !.place = "answered", !.view = <<>>,
                !.answer = IF unsold[p.id] + sold[p.id] > 0 THEN {p} ELSE {}])
  /\ Reads /\ UNCHANGED <<cache, raised>>

-----------------------------------------------------------------------------
(* The audit of the voucher.                                               *)

StartAudit(r) ==
  /\ Stands(r, "idle")
  /\ Set(r, [Waiting EXCEPT !.place = "statsRead", !.redeemed = redeemed,
              !.calm = Calm])
  /\ Reads /\ UNCHANGED <<cache, raised>>

AuditCodes(r) ==
  /\ Stands(r, "statsRead")
  /\ Set(r, [reader[r] EXCEPT !.place = "codesRead", !.used = used, !.codes =
       [listed  |-> Tally([l \in Listings |-> unsold[l] + sold[l]]),
        unowned |-> Tally([l \in ThbListings |-> unsold[l]]),
        unused  |-> unused]])
  /\ Reads /\ UNCHANGED <<cache, raised>>

\* A balance that cannot be read in time is no balance.
AuditWallets(r) ==
  /\ Stands(r, "codesRead")
  /\ \/ /\ Set(r, [reader[r] EXCEPT !.place = "heldRead", !.held =
             [k \in Buyers |-> coins[k]]])
        /\ UNCHANGED raised
     \/ /\ CallRaises
        /\ \E j \in Buyers :
             Set(r, [reader[r] EXCEPT !.place = "heldRead", !.ok = FALSE, !.held =
               [k \in Buyers |-> IF k = j THEN 0 ELSE coins[k]]])
  /\ Reads /\ UNCHANGED cache

\* Seeded fault: codes and coupons are compared in one direction.
MoreCodes(codes, held) == \E k \in Buyers : held[k] < codes.unused[k]

CustomersDiffer(codes, held) == \E k \in Buyers : held[k] # codes.unused[k]

\* What the seller has in his wallet, which is nothing once he has listed it,
\* is compared with all codes without an owner.
SellerDiffers(codes) == codes.unowned # 0

MarketDiffers(codes, n) == codes.listed # n

AuditMarket(r) ==
  LET q == reader[r]
      escrow == Tally(left)
      Verdict(n) ==
        {a \in {"market", "redeemed", "customer", "merchant"} :
           \/ a = "market"   /\ MarketDiffers(q.codes, n)
           \/ a = "redeemed" /\ q.used # q.redeemed
           \/ a = "customer" /\ CustomersDiffer(q.codes, q.held)
           \/ a = "merchant" /\ SellerDiffers(q.codes)}
      done == [Waiting EXCEPT !.place = "audited", !.calm = q.calm]
  IN
  /\ Stands(r, "heldRead")
  /\ \/ Set(r, [done EXCEPT !.alarms = Verdict(escrow), !.ok = q.ok]) /\ UNCHANGED raised
     \/ CallRaises /\ Set(r, [done EXCEPT !.alarms = Verdict(0), !.ok = FALSE])
  /\ Reads /\ UNCHANGED cache

Changes(w) ==
  \/ \E l \in Listings :
       \/ \E n \in Amounts : Offer(w, l, n)
       \/ Trade(w, l) \/ DelistCoupon(w, l)
       \/ \E k \in Buyers : Buy(w, l, k)
  \/ \E k \in Buyers : Redeem(w, k)
  \/ Receipt(w) \/ RecordChange(w)

Looks(r) ==
  \/ GetMarketplaceListings(r) \/ GetMarketplaceListingsEndUser(r)
  \/ ByMerchantRef(r) \/ FetchIds(r) \/ FetchStructs(r) \/ Store(r)
  \/ Details(r) \/ Counts(r) \/ EndLook(r)
  \/ StartOne(r) \/ ReadOne(r)
  \/ StartAudit(r) \/ AuditCodes(r) \/ AuditWallets(r)
  \/ AuditMarket(r)

ViewNext ==
  \/ \E w \in Writers : Changes(w)
  \/ \E r \in Readers : Looks(r)
  \/ Tick

ViewSpec == ViewInit /\ [][ViewNext]_viewVars

-----------------------------------------------------------------------------
(* Properties.                                                             *)

\* If nothing happens on the marketplace during a fetch, the cache of a
\* server is wrong only about listings that another server changed, or whose
\* receipt was lost or has not come yet: every change of its own invalidates
\* it ("auto-invalidated on write operations", blockchain.service.ts:1295),
\* and ids and structs belong together ("same order from contract", :1331).
CacheCurrent ==
  cache # Null /\ ~cache.torn =>
    \A l \in Listings :
      \/ l \in cache.missed
      \/ \E w \in Writers : writer[w].place = "mined" /\ writer[w].listing = l
      \/ {p \in ToSet(cache.data) : p.id = l \/ p.of = l} =
           IF Open(l) THEN {[id |-> l, of |-> l, left |-> left[l]]} ELSE {}

\* What a list starts from was open less than the life of the cache ago,
\* whatever other servers change and whatever receipts are lost, unless it
\* was fetched while something changed: that is stored with the time of now
\* after its invalidation (blockchain.service.ts:1346) and may be older.
FreshEnough ==
  [][\A r \in Readers :
       reader[r].place # "details" /\ reader'[r].place = "details" /\ ~cache'.torn =>
         \A p \in ToSet(reader'[r].view) :
           Open(p.id) \/ closedFor[p.id] < TTL]_viewVars

\* The listings of which the list of q is.
Asked(q) == {l \in Listings : /\ q.pointOnly  => l \notin ThbListings
                              /\ q.sellerOnly => l \in ThbListings}

\* No listing went unrecorded, and no merchant's purchase took a listed code.
HasCodes(l) == IF l \in ThbListings THEN "offer" \notin lost
               ELSE "list" \notin lost /\ "trade" \notin shared

\* What q shows if nothing disturbed it.
ExactAnswer(q) ==
  /\ \A p \in q.answer :
       /\ p.id = p.of /\ Open(p.id)
       /\ HasCodes(p.id) => p.left >= left[p.id]
       /\ (p.id \in ThbListings \/ q.one # Null \/ lost \cup shared = {})
            => p.left = left[p.id]
  /\ q.one = Null =>
       /\ {p.id : p \in q.answer} \subseteq Asked(q)
       /\ {l \in Asked(q) : Open(l) /\ HasCodes(l)} \subseteq {p.id : p \in q.answer}
  /\ q.one # Null =>
       /\ {p.id : p \in q.answer} \subseteq {q.one}
       /\ HasCodes(q.one) => q.answer # {}

\* An answer that nothing disturbed, from a cache that missed nothing, has
\* only open listings, each with a struct of its own, although three sources
\* are read at three times; a list has all that have codes.  Purchases without
\* a record, of no code or of a code of another leave codes over: they never
\* hide a listing, nor show less than is left of it.  What is left of a
\* listing for THB is always exact, of the others as long as no record failed
\* or was of a code of another.
CalmAnswerExact ==
  \A r \in Readers :
    reader[r].place = "answered" /\ reader[r].calm => ExactAnswer(reader[r])

\* An audit nothing disturbs and whose calls succeed reports customers or
\* redemptions exactly when the record of a purchase or of a redemption was
\* lost, or was of a code that another customer's purchase or redemption had:
\* several of them never hide each other.
AuditFindsLosses ==
  \A r \in Readers :
    reader[r].place = "audited" /\ reader[r].calm /\ reader[r].ok =>
      (reader[r].alarms \cap {"customer", "redeemed"} # {}
         <=> (lost \cup shared) \cap {"buy", "redeem"} # {})

\* The other two checks are exact only before the first sale: codes that were
\* sold still name their listing, and codes without an owner are compared with
\* a wallet whose coupons are in the escrow.  (A lost or shared record is no
\* false alarm.)
AuditFalseAlarms ==
  lost \cup shared = {} =>
    \A r \in Readers :
      reader[r].place = "audited" /\ reader[r].calm /\ reader[r].ok =>
        /\ "market" \in reader[r].alarms <=> \E l \in Listings : sold[l] > 0
        /\ "merchant" \in reader[r].alarms <=> \E l \in ThbListings : Open(l)

\* What checkAndSyncVoucherOnchain reports, and what it reports without cause.
AuditIsExact == ViewTypeOK /\ AuditFindsLosses /\ AuditFalseAlarms
=============================================================================
