------------------------- MODULE SellerMarketProofs -------------------------
(***************************************************************************)
(* Proofs about SellerMarket: its books balance and no merchant has a code *)
(* without a coupon, whatever fails and whoever overlaps; purchases that   *)
(* wait for each other hand over what was paid for. Proofs about           *)
(* SellerDashboard: what sellers and marketers are shown fits the chain.   *)
(***************************************************************************)
EXTENDS SellerDashboard, TallyProofs, WellFoundedInduction

-----------------------------------------------------------------------------
(* The inductive invariant.                                                *)

\* Where a seller stands: before the listing of the current item, or after.
Listed(r)    == pc[r] \in {"codes", "sync"} \/ (pc[r] = "batch" /\ ~req[r].early)
Pending(l)   == /\ pc[l[1]] \in {"idle"} \cup ListPlaces
                /\ IF Listed(l[1]) THEN l[2] > req[l[1]].at ELSE l[2] >= req[l[1]].at
Coding(r)    == Listed(r) /\ pc[r] # "sync"
Uncoded(l)   == Pending(l) \/ (Coding(l[1]) /\ l[2] = req[l[1]].at)
Unbatched(r) == \/ pc[r] \in {"idle", "admit", "batch"}
                \/ pc[r] \in {"mint", "list"} /\ ~req[r].early
Shown(l)     == \E c \in CodesOf(l) : owner[c] # Absent

BuyEnds == {"bought", "unrecorded", "uncounted", "unclosed"}

\* What a seller's request carries.
SellerShapeOf(r) ==
  /\ pc[r] = "idle" => req[r] = NoReq
  /\ pc[r] \in ListPlaces =>
       /\ Len(req[r].items) \in 1 .. MaxItems
       /\ req[r].at \in 1 .. Len(req[r].items)
       /\ \A i \in DOMAIN req[r].items : req[r].items[i].amount <= Issued
       /\ ~req[r].early => Len(req[r].items) = 1
       /\ pc[r] = "admit" \/ (pc[r] = "batch" /\ req[r].early) => req[r].at = 1
SellerShape == \A r \in Requests : SellerShapeOf(r)

\* What a merchant's request carries.
BuyerShapeOf(r) ==
  /\ pc[r] \in BuyPlaces \cup BuyEnds =>
       /\ req[r].by \in Merchants /\ req[r].listing \in Listings
       /\ req[r].amount \in 1 .. Issued
       /\ listing[req[r].listing].voucher \in Vouchers
  /\ pc[r] \in BuyPlaces \ {"mintTHB", "mintRow"} => req[r].short = 0
BuyerShape == \A r \in Requests : BuyerShapeOf(r)

\* Nothing is there before its time.
Fresh ==
  /\ \A l \in Listings : Pending(l) => listing[l] = NoListing
  /\ \A l \in Listings : listing[l].left > 0 => listing[l].voucher \in Vouchers
  /\ \A c \in Codes : Uncoded(c[1]) => owner[c] = Absent
  /\ \A r \in Requests : Unbatched(r) => batch[r] = NoBatch

\* A batch is there before the codes of its listings.
Batched ==
  /\ \A r \in Requests : batch[r] # NoBatch => batch[r].total >= 1
  /\ \A r \in Requests :
       pc[r] \in ListPlaces /\ ~Unbatched(r) => batch[r].total = TotalOf(req[r].items)
  /\ \A c \in Codes : owner[c] # Absent => batch[c[1][1]] # NoBatch

\* The codes that a purchase has picked are as many as it has paid for.
Picked == {"rows", "own", "count", "close", "bought", "uncounted", "unclosed"}
Held ==
  \A r \in Running(Picked) :
    /\ req[r].held \subseteq CodesOf(req[r].listing)
    /\ \A c \in req[r].held : owner[c] # Absent
    /\ Cardinality(req[r].held) = req[r].amount

\* Every picked code gets a row.
Recorded ==
  \A r \in Requests :
    /\ pc[r] \notin Picked \cup {"unrecorded"} => buyRows[r] = {}
    /\ pc[r] = "rows" => buyRows[r] \subseteq req[r].held /\ buyRows[r] # req[r].held
    /\ pc[r] \in Picked \ {"rows"} => buyRows[r] = req[r].held

\* A listing has a code for each coupon that it can still sell and for each
\* that was sold and has none yet.
PaidFor(l) == {r \in Running(Paid) : req[r].listing = l}
Supply ==
  /\ \A l \in Listings :
       Shown(l) => listing[l].left + AmountOf(PaidFor(l)) <= Cardinality(Unsold(l))
  /\ \A r \in Requests :
       Coding(r) => listing[Here(r)].left + AmountOf(PaidFor(Here(r))) <= Item(r).amount

\* What a batch has sold, offers and has still to list stays within its items.
Uncounted(b) == {r \in Running(Paid \cup {"count"}) : BatchOf(r) = b}
Ledger(b)    == batch[b].sold + LeftOf(b) + AmountOf(Uncounted(b))
ToList(b)    == Tally([i \in DOMAIN req[b].items |->
                         IF Pending(<<b, i>>) THEN req[b].items[i].amount ELSE 0])
Within ==
  \A b \in Requests :
    /\ pc[b] \in ListPlaces => Ledger(b) + ToList(b) <= TotalOf(req[b].items)
    /\ batch[b] # NoBatch /\ pc[b] \notin ListPlaces => Ledger(b) <= batch[b].total

\* Polite purchases are alone with their merchant and their listing.
Alone ==
  polite =>
    /\ \A r, q \in Running(BuyPlaces) :
         r # q => req[r].by # req[q].by /\ req[r].listing # req[q].listing
    /\ \A r \in Running(BuyPlaces) : Shown(req[r].listing)
    /\ \A r \in Running({"rows", "own"}) : req[r].held \subseteq Unsold(req[r].listing)

IInv ==
  /\ TypeOK /\ SellerShape /\ BuyerShape /\ Fresh /\ Batched /\ Held /\ Recorded
  /\ Supply /\ Within /\ Alone
  /\ MintedIsAccounted /\ NoCodeWithoutCoupon /\ SoldOutWhenFull
  /\ ApprovalSuffices /\ HandsOver

-----------------------------------------------------------------------------
(* Types and shapes.                                                       *)

\* What coupons cost, and that of two purchases together.
LEMMA CostType ==
  /\ \A n \in Nat : Cost(n) \in Nat
  /\ \A a, b \in Nat : Cost(a + b) = Cost(a) + Cost(b)
<1>1. Price \in Nat
  BY Bounds
<1>2. \A n \in Nat : Cost(n) \in Nat
  BY <1>1 DEF Cost
<1>3. ASSUME NEW a \in Nat, NEW b \in Nat
      PROVE  (a + b) * Price = a * Price + b * Price
  BY <1>1
<1> QED
  BY <1>2, <1>3 DEF Cost

\* What is cut off from an amount is less than a THB.
LEMMA WholeType ==
  \A n \in Nat : /\ WholeTHB(n) \in Nat /\ Unit * WholeTHB(n) \in Nat
                 /\ Unit * WholeTHB(n) <= n
                 /\ n <= Unit * WholeTHB(n) + (Unit - 1)
<1>1. Unit \in Nat /\ Unit > 0
  BY Bounds
<1>2. SUFFICES ASSUME NEW n \in Nat
               PROVE  /\ n \div Unit \in Nat /\ Unit * (n \div Unit) \in Nat
                      /\ Unit * (n \div Unit) <= n
                      /\ n <= Unit * (n \div Unit) + (Unit - 1)
  BY DEF WholeTHB
<1>3. n \div Unit \in Nat
  BY <1>1
<1>4. Unit * (n \div Unit) <= n /\ n <= Unit * (n \div Unit) + (Unit - 1)
  BY <1>1
<1>5. Unit * (n \div Unit) \in Nat
  BY <1>1, <1>3
<1> QED
  BY <1>3, <1>4, <1>5

\* The total of a request's items is a number.
LEMMA TotalType ==
  ASSUME TypeOK, NEW r \in Requests
  PROVE  TotalOf(req[r].items) \in Nat
<1>1. req[r].items \in Seq(Items)
  BY DEF TypeOK, Reqs
<1>2. IsFiniteSet(DOMAIN req[r].items)
  <2>1. Len(req[r].items) \in Nat /\ DOMAIN req[r].items = 1 .. Len(req[r].items)
    BY <1>1
  <2>2. IsFiniteSet(1 .. Len(req[r].items))
    BY <2>1, FS_Interval
  <2> QED
    BY <2>1, <2>2
<1>3. \A i \in DOMAIN req[r].items : req[r].items[i].amount \in Nat
  <2>1. \A i \in DOMAIN req[r].items : req[r].items[i] \in Items
    BY <1>1
  <2>2. \A i \in Items : i.amount \in Nat
    BY Bounds DEF Items
  <2> QED
    BY <2>1, <2>2
<1> QED
  BY <1>2, <1>3, TallyType DEF TotalOf, Tallied

\* The item that a seller is at.
LEMMA ItemType ==
  ASSUME TypeOK, SellerShape, NEW r \in Requests, pc[r] \in ListPlaces
  PROVE  /\ Item(r).voucher \in Vouchers /\ Item(r).amount \in Nat
         /\ Item(r).amount >= 1 /\ Item(r).amount <= Issued
         /\ Here(r) \in Listings /\ Here(r)[1] = r /\ Here(r)[2] = req[r].at
<1>1. req[r].items \in Seq(Items) /\ req[r].at \in DOMAIN req[r].items
  BY DEF TypeOK, Reqs, SellerShape, SellerShapeOf
<1>2. Item(r) \in Items
  BY <1>1 DEF Item
<1>3. Len(req[r].items) \in 1 .. MaxItems /\ req[r].at \in 1 .. Len(req[r].items)
  BY DEF SellerShape, SellerShapeOf
<1>4. req[r].at \in 1 .. MaxItems
  BY <1>3, Bounds
<1>5. Item(r).amount \in 1 .. MaxTotal
  BY <1>2 DEF Items
<1>6. Item(r).amount <= Issued
  BY <1>1 DEF SellerShape, SellerShapeOf, Item
<1> QED
  BY <1>2, <1>4, <1>5, <1>6, Bounds DEF Items, Here, Listings

\* The batch that a purchase counts for.
LEMMA BuyerType ==
  ASSUME TypeOK, BuyerShape, NEW r \in Requests, pc[r] \in BuyPlaces \cup BuyEnds
  PROVE  /\ req[r].by \in Merchants /\ req[r].listing \in Listings
         /\ req[r].amount \in Nat /\ req[r].amount >= 1 /\ req[r].amount <= Issued
         /\ listing[req[r].listing].voucher \in Vouchers
         /\ BatchOf(r) \in Requests
BY Bounds DEF BuyerShape, BuyerShapeOf, Listings, BatchOf

\* A set of numbers that is not empty has a least one.
LEMMA LeastNumber ==
  ASSUME NEW N, N \subseteq Nat, N # {}
  PROVE  \E n \in N : \A k \in N : n <= k
<1>1. PICK n \in N : \A k \in N : <<k, n>> \notin OpToRel(<, Nat)
  BY NatLessThanWellFounded, WFMin
<1>2. \A k \in N : ~(k < n)
  BY <1>1 DEF OpToRel
<1> QED
  BY <1>2

\* The first of some codes of a listing is one of them.
LEMMA FirstType ==
  ASSUME NEW l, NEW S, S \subseteq CodesOf(l), S # {}
  PROVE  First(S) \in S
<1> DEFINE N == {n \in 1 .. Issued : <<l, n>> \in S}
<1>1. \A c \in S : c = <<l, c[2]>> /\ c[2] \in N
  BY DEF CodesOf
<1>2. N # {}
  BY <1>1
<1>6. N \subseteq Nat
  BY Bounds
<1>3. PICK n \in N : \A k \in N : n <= k
  BY <1>2, <1>6, LeastNumber
<1>4. <<l, n>> \in S /\ \A d \in S : n <= d[2]
  BY <1>1, <1>3
<1>5. <<l, n>>[2] = n
  OBVIOUS
<1> QED
  BY <1>4, <1>5 DEF First

\* A request goes from place to place, with what it has read or with nothing.
LEMMA GotoType ==
  ASSUME TypeOK, NEW r \in Requests, NEW p \in Places
  PROVE  /\ Move(r, p) => pc' \in [Requests -> Places]
         /\ Goto(r, p) => pc' \in [Requests -> Places] /\ req' \in [Requests -> Reqs]
<1>1. NoReq \in Reqs
  BY DEF NoReq, Reqs
<1> QED
  BY <1>1 DEF TypeOK, Move, Goto

\* What a request keeps when one of its fields changes.
LEMMA Fields ==
  ASSUME NEW q \in Reqs
  PROVE  /\ LET p == Advanced(q) IN
              /\ p \in Reqs /\ p.at = q.at + 1 /\ p.by = q.by /\ p.items = q.items
              /\ p.early = q.early /\ p.listing = q.listing /\ p.amount = q.amount
              /\ p.short = q.short /\ p.held = q.held
         /\ \A n \in Nat : LET p == Lacking(q, n) IN
              /\ p \in Reqs /\ p.at = q.at /\ p.by = q.by /\ p.items = q.items
              /\ p.early = q.early /\ p.listing = q.listing /\ p.amount = q.amount
              /\ p.short = n /\ p.held = q.held
         /\ \A S \in SUBSET Codes : LET p == Holding(q, S) IN
              /\ p \in Reqs /\ p.at = q.at /\ p.by = q.by /\ p.items = q.items
              /\ p.early = q.early /\ p.listing = q.listing /\ p.amount = q.amount
              /\ p.short = q.short /\ p.held = S
<1>1. Advanced(q) =
        [by |-> q.by, items |-> q.items, at |-> q.at + 1, early |-> q.early,
         listing |-> q.listing, amount |-> q.amount, short |-> q.short, held |-> q.held]
  BY DEF Advanced, Reqs
<1>2. \A n : Lacking(q, n) =
        [by |-> q.by, items |-> q.items, at |-> q.at, early |-> q.early,
         listing |-> q.listing, amount |-> q.amount, short |-> n, held |-> q.held]
  BY DEF Lacking, Reqs
<1>3. \A S : Holding(q, S) =
        [by |-> q.by, items |-> q.items, at |-> q.at, early |-> q.early,
         listing |-> q.listing, amount |-> q.amount, short |-> q.short, held |-> S]
  BY DEF Holding, Reqs
<1> QED
  BY <1>1, <1>2, <1>3 DEF Reqs

\* What a request keeps when what it lacks changes.
LEMMA LackingFields ==
  ASSUME TypeOK, NEW r \in Requests, NEW n \in Nat, req'[r] = Lacking(req[r], n)
  PROVE  /\ req'[r].short = n /\ req'[r].listing = req[r].listing
         /\ req'[r].amount = req[r].amount /\ req'[r].by = req[r].by
<1>1. req[r] \in Reqs
  BY DEF TypeOK
<1>2. \A k \in Nat :
        /\ Lacking(req[r], k).short = k /\ Lacking(req[r], k).listing = req[r].listing
        /\ Lacking(req[r], k).amount = req[r].amount /\ Lacking(req[r], k).by = req[r].by
  BY <1>1, Fields
<1> QED
  BY <1>2

\* What a request holds when it has picked its codes.
LEMMA HoldingFields ==
  ASSUME TypeOK, NEW r \in Requests, NEW S, S \subseteq Codes, req'[r] = Holding(req[r], S)
  PROVE  /\ req'[r].held = S /\ req'[r].listing = req[r].listing
         /\ req'[r].amount = req[r].amount /\ req'[r].by = req[r].by
         /\ req'[r].short = req[r].short
<1>1. req[r] \in Reqs
  BY DEF TypeOK
<1>2. \A T \in SUBSET Codes :
        /\ Holding(req[r], T).held = T /\ Holding(req[r], T).listing = req[r].listing
        /\ Holding(req[r], T).amount = req[r].amount /\ Holding(req[r], T).by = req[r].by
        /\ Holding(req[r], T).short = req[r].short
  BY <1>1, Fields
<1> QED
  BY <1>2

\* Every step keeps the types.
LEMMA TypeStep ==
  ASSUME TypeOK, SellerShape, BuyerShape, Held, Recorded, [Next]_vars
  PROVE  TypeOK'
<1>0. \A r \in Requests, p \in Places :
        /\ Move(r, p) => pc' \in [Requests -> Places]
        /\ Goto(r, p) => pc' \in [Requests -> Places] /\ req' \in [Requests -> Reqs]
  BY GotoType
<1>p. {"idle"} \cup ListPlaces \cup BuyPlaces \cup Ends \subseteq Places /\ req \in [Requests -> Reqs]
  BY DEF Places, TypeOK
<1>t. /\ tokens \in [Vouchers -> [Wallets -> Nat]] /\ listing \in [Listings -> OnChain]
      /\ batch \in [Requests -> Batches]
      /\ thb \in [Merchants -> Nat] /\ allowance \in [Merchants -> Nat]
  BY DEF TypeOK
<1>b. ASSUME NEW r \in Requests, NEW items \in Seq(Items), NEW e \in BOOLEAN,
             Begin(r, items, e)
      PROVE  TypeOK'
  <2>1. UNCHANGED <<voucher, whitelist, tokens, thb, allowance,
                   listing, batch, owner, currency, mintRows, buyRows,
                   granted, polite, faults>>
    BY <1>b DEF Begin, chain, rows, stays
  <2>2. pc' \in [Requests -> Places]
    BY <1>b, <1>0, <1>p DEF Begin, ListPlaces
  <2>3. SellReq(items, e) \in Reqs
    BY DEF SellReq, Reqs, Wallets
  <2>4. req' \in [Requests -> Reqs]
    BY <1>b, <2>3 DEF Begin, TypeOK
  <2> QED
    BY <2>1, <2>2, <2>4 DEF TypeOK
<1>1. ASSUME NEW v \in Vouchers, CreateType(v) PROVE TypeOK'
  <2>1. UNCHANGED <<whitelist, tokens, thb, allowance, listing, batch,
                   owner, currency, mintRows, buyRows, req, pc,
                   granted, polite>>
    BY <1>1 DEF CreateType, chain, rows, stays
  <2>2. voucher' \in [Vouchers -> {"none", "typed", "row", "orphan"}]
    BY <1>1 DEF CreateType, TypeOK
  <2>3. faults' \in Nat
    BY <1>1 DEF CreateType, Raises, TypeOK
  <2> QED
    BY <2>1, <2>2, <2>3 DEF TypeOK
<1>2. ASSUME NEW v \in Vouchers, PersistVoucher(v) PROVE TypeOK'
  <2>1. UNCHANGED <<whitelist, tokens, thb, allowance, listing, batch,
                   owner, currency, mintRows, buyRows, req, pc,
                   granted, polite>>
    BY <1>2 DEF PersistVoucher, chain, rows, stays
  <2>2. voucher' \in [Vouchers -> {"none", "typed", "row", "orphan"}]
    BY <1>2 DEF PersistVoucher, TypeOK
  <2>3. faults' \in Nat
    BY <1>2 DEF PersistVoucher, Raises, TypeOK
  <2> QED
    BY <2>1, <2>2, <2>3 DEF TypeOK
<1>3. ASSUME NEW m \in Merchants, Whitelist(m) PROVE TypeOK'
  <2>1. UNCHANGED <<voucher, tokens, thb, allowance, listing, batch,
                   owner, currency, mintRows, buyRows, req, pc,
                   granted, polite, faults>>
    BY <1>3 DEF Whitelist, chain, rows, stays
  <2>2. whitelist' \subseteq Wallets
    BY <1>3 DEF Whitelist, AddWallet, Wallets, TypeOK
  <2> QED
    BY <2>1, <2>2 DEF TypeOK
<1>4. ASSUME NEW W \in SUBSET Missing(Merchants), WhitelistBatch(W) PROVE TypeOK'
  <2>1. UNCHANGED <<voucher, tokens, thb, allowance, listing, batch,
                   owner, currency, mintRows, buyRows, req, pc,
                   granted, polite, faults>>
    BY <1>4 DEF WhitelistBatch, chain, rows, stays
  <2>2. whitelist' \subseteq Wallets
    BY <1>4 DEF WhitelistBatch, AddWallets, Missing, Wallets, TypeOK
  <2> QED
    BY <2>1, <2>2 DEF TypeOK
<1>5. ASSUME NEW m \in Merchants, MintTHBToMerchant(m) PROVE TypeOK'
  <2>1. UNCHANGED <<voucher, whitelist, tokens, allowance, listing,
                   batch, owner, currency, mintRows, buyRows, req, pc,
                   polite>>
    BY <1>5 DEF MintTHBToMerchant, chain, rows, stays
  <2>2. thb' \in [Merchants -> Nat] /\ granted' \in [Merchants -> Nat]
    BY <1>5 DEF MintTHBToMerchant, MintFor, TypeOK
  <2>3. faults' \in Nat
    BY <1>5 DEF MintTHBToMerchant, Raises, TypeOK
  <2> QED
    BY <2>1, <2>2, <2>3 DEF TypeOK
<1>6. ASSUME NEW r \in Requests, List(r) PROVE TypeOK'
  <2> PICK i \in Items : Begin(r, <<i>>, FALSE)
    BY <1>6 DEF List
  <2>1. <<i>> \in Seq(Items)
    OBVIOUS
  <2> QED
    BY <1>b, <2>1
<1>7. ASSUME NEW r \in Requests, ListBatch(r) PROVE TypeOK'
  <2> PICK n \in 1 .. MaxItems :
        \E items \in [1 .. n -> Items] : ValidBatch(items) /\ Begin(r, items, TRUE)
    BY <1>7 DEF ListBatch
  <2> PICK items \in [1 .. n -> Items] : Begin(r, items, TRUE)
    OBVIOUS
  <2>1. items \in Seq(Items)
    BY Bounds
  <2> QED
    BY <1>b, <2>1
<1>8. ASSUME NEW r \in Requests, Admit(r) PROVE TypeOK'
  <2>1. UNCHANGED <<voucher, tokens, thb, allowance, listing, batch,
                   owner, currency, mintRows, buyRows, granted,
                   polite>>
    BY <1>8 DEF Admit, chain, rows, stays
  <2>2. pc' \in [Requests -> Places] /\ req' \in [Requests -> Reqs]
    BY <1>8, <1>0, <1>p DEF Admit, ListPlaces, BuyPlaces, Ends
  <2>3. faults' \in Nat
    BY <1>8 DEF Admit, Raises, TypeOK
  <2>4. whitelist' \subseteq Wallets
    BY <1>8 DEF Admit, AddWallet, Wallets, TypeOK
  <2> QED
    BY <2>1, <2>2, <2>3, <2>4 DEF TypeOK
<1>9. ASSUME NEW r \in Requests, CreateBatch(r) PROVE TypeOK'
  <2>1. UNCHANGED <<voucher, whitelist, tokens, thb, allowance,
                   listing, owner, currency, mintRows, buyRows,
                   granted, polite>>
    BY <1>9 DEF CreateBatch, chain, rows, stays
  <2>2. pc' \in [Requests -> Places] /\ req' \in [Requests -> Reqs]
    BY <1>9, <1>0, <1>p DEF CreateBatch, ListPlaces, BuyPlaces, Ends
  <2>3. faults' \in Nat
    BY <1>9 DEF CreateBatch, Raises, TypeOK
  <2>4. batch' \in [Requests -> Batches]
    <3>1. batch' = batch \/ batch' = [batch EXCEPT ![r] = NewBatch(TotalOf(req[r].items))]
      BY <1>9 DEF CreateBatch
    <3>2. NewBatch(TotalOf(req[r].items)) \in Batches
      BY TotalType DEF NewBatch, Batches
    <3> QED
      BY <1>t, <3>1, <3>2
  <2> QED
    BY <2>1, <2>2, <2>3, <2>4 DEF TypeOK
<1>10. ASSUME NEW r \in Requests, Mint(r) PROVE TypeOK'
  <2>1. UNCHANGED <<voucher, whitelist, thb, allowance, listing, batch,
                   owner, currency, mintRows, buyRows, granted,
                   polite>>
    BY <1>10 DEF Mint, chain, rows, stays
  <2>2. pc' \in [Requests -> Places] /\ req' \in [Requests -> Reqs]
    BY <1>10, <1>0, <1>p DEF Mint, ListPlaces, BuyPlaces, Ends
  <2>3. faults' \in Nat
    BY <1>10 DEF Mint, Raises, TypeOK
  <2>4. Item(r).voucher \in Vouchers /\ Item(r).amount \in Nat
    BY <1>10, ItemType DEF Mint, ListPlaces
  <2>5. tokens' \in [Vouchers -> [Wallets -> Nat]]
    <3>1. \/ tokens' = tokens
          \/ tokens' = [tokens EXCEPT ![Item(r).voucher][Seller] = @ + Item(r).amount]
      BY <1>10 DEF Mint, MintCoupons
    <3>2. Seller \in Wallets
      BY DEF Wallets
    <3>3. tokens[Item(r).voucher][Seller] + Item(r).amount \in Nat
      BY <1>t, <2>4, <3>2
    <3> DEFINE v == Item(r).voucher
               n == tokens[v][Seller] + Item(r).amount
    <3>4. v \in Vouchers /\ n \in Nat
      BY <2>4, <3>3
    <3>5. tokens' = tokens \/ tokens' = [tokens EXCEPT ![v][Seller] = n]
      BY <3>1
    <3> HIDE DEF v, n
    <3> QED
      BY <1>t, <3>2, <3>4, <3>5
  <2> QED
    BY <2>1, <2>2, <2>3, <2>4, <2>5 DEF TypeOK
<1>11. ASSUME NEW r \in Requests, ListOnChain(r) PROVE TypeOK'
  <2>1. UNCHANGED <<voucher, whitelist, thb, allowance, batch, owner,
                   currency, mintRows, buyRows, granted, polite>>
    BY <1>11 DEF ListOnChain, chain, rows, stays
  <2>2. pc' \in [Requests -> Places] /\ req' \in [Requests -> Reqs]
    BY <1>11, <1>0, <1>p DEF ListOnChain, ListPlaces, BuyPlaces, Ends
  <2>3. faults' \in Nat
    BY <1>11 DEF ListOnChain, Raises, TypeOK
  <2>4. /\ Item(r).voucher \in Vouchers /\ Item(r).amount \in Nat
        /\ Here(r) \in Listings /\ Seller \in Wallets
    BY <1>11, ItemType DEF ListOnChain, ListPlaces, Wallets
  <2>5. tokens' \in [Vouchers -> [Wallets -> Nat]]
    <3>1. \/ tokens' = tokens
          \/ /\ tokens[Item(r).voucher][Seller] >= Item(r).amount
             /\ tokens' = [tokens EXCEPT ![Item(r).voucher][Seller] = @ - Item(r).amount]
      BY <1>11 DEF ListOnChain, Escrow
    <3>2. tokens[Item(r).voucher][Seller] \in Nat
      BY <1>t, <2>4
    <3>3. tokens[Item(r).voucher][Seller] >= Item(r).amount
            => tokens[Item(r).voucher][Seller] - Item(r).amount \in Nat
      BY <2>4, <3>2
    <3> DEFINE v == Item(r).voucher
               n == tokens[v][Seller] - Item(r).amount
    <3>4. tokens' = tokens \/ (n \in Nat /\ tokens' = [tokens EXCEPT ![v][Seller] = n])
      BY <3>1, <3>3
    <3>5. v \in Vouchers /\ Seller \in Wallets
      BY <2>4
    <3> HIDE DEF v, n
    <3>6. CASE tokens' = tokens
      BY <1>t, <3>6
    <3>7. CASE n \in Nat /\ tokens' = [tokens EXCEPT ![v][Seller] = n]
      BY <1>t, <3>5, <3>7
    <3> QED
      BY <3>4, <3>6, <3>7
  <2>6. listing' \in [Listings -> OnChain]
    <3>1. \/ listing' = listing
          \/ listing' = [listing EXCEPT ![Here(r)] =
                           [voucher |-> Item(r).voucher, left |-> Item(r).amount]]
      BY <1>11 DEF ListOnChain, Escrow
    <3>2. [voucher |-> Item(r).voucher, left |-> Item(r).amount] \in OnChain
      BY <2>4 DEF OnChain
    <3> QED
      BY <1>t, <2>4, <3>1, <3>2
  <2> QED
    BY <2>1, <2>2, <2>3, <2>4, <2>5, <2>6 DEF TypeOK
<1>12. ASSUME NEW r \in Requests, CreateCodes(r) PROVE TypeOK'
  <2>1. UNCHANGED <<voucher, whitelist, tokens, thb, allowance,
                   listing, batch, currency, mintRows, buyRows,
                   granted, polite>>
    BY <1>12 DEF CreateCodes, chain, rows, stays
  <2>2. pc' \in [Requests -> Places] /\ req' \in [Requests -> Reqs]
    BY <1>12, <1>0, <1>p DEF CreateCodes, ListPlaces, BuyPlaces, Ends
  <2>3. faults' \in Nat
    BY <1>12 DEF CreateCodes, Raises, TypeOK
  <2>4. owner' \in [Codes -> Merchants \cup {None, Absent}]
    BY <1>12 DEF CreateCodes, TypeOK
  <2> QED
    BY <2>1, <2>2, <2>3, <2>4 DEF TypeOK
<1>13. ASSUME NEW r \in Requests, SyncCurrency(r) PROVE TypeOK'
  <2>1. UNCHANGED <<voucher, whitelist, tokens, thb, allowance,
                   listing, batch, owner, mintRows, buyRows, granted,
                   polite>>
    BY <1>13 DEF SyncCurrency, chain, rows, stays
  <2>2. [req EXCEPT ![r] = Advanced(@)] \in [Requests -> Reqs]
    BY <1>p, Fields
  <2>3. pc' \in [Requests -> Places] /\ req' \in [Requests -> Reqs]
    BY <1>13, <1>0, <1>p, <2>2 DEF SyncCurrency, ListPlaces, Ends
  <2>4. faults' \in Nat
    BY <1>13 DEF SyncCurrency, Raises, TypeOK
  <2>5. Item(r).voucher \in Vouchers
    BY <1>13, ItemType DEF SyncCurrency, ListPlaces
  <2>6. currency' \subseteq Vouchers
    BY <1>13, <2>5 DEF SyncCurrency, TypeOK
  <2> QED
    BY <2>1, <2>2, <2>3, <2>4, <2>5, <2>6 DEF TypeOK
<1>14. ASSUME NEW r \in Requests, Buy(r) PROVE TypeOK'
  <2>1. UNCHANGED <<voucher, whitelist, tokens, thb, allowance,
                   listing, batch, owner, currency, mintRows, buyRows,
                   granted, polite, faults>>
    BY <1>14 DEF Buy, chain, rows, stays
  <2>2. \A m \in Merchants, l \in Listings, n \in 1 .. Issued :
          BuyReq(m, l, n) \in Reqs
    <3>1. 1 .. Issued \subseteq Nat /\ <<>> \in Seq(Items)
      BY Bounds
    <3> QED
      BY <3>1 DEF BuyReq, Reqs, Wallets
  <2>3. req' \in [Requests -> Reqs]
    BY <1>14, <2>2 DEF Buy, TypeOK
  <2>4. pc' \in [Requests -> Places]
    BY <1>14, <1>0, <1>p DEF Buy, BuyPlaces
  <2> QED
    BY <2>1, <2>2, <2>3, <2>4 DEF TypeOK
<1>15. ASSUME NEW r \in Requests, CheckTHB(r) PROVE TypeOK'
  <2>1. UNCHANGED <<voucher, whitelist, tokens, thb, allowance,
                   listing, batch, owner, currency, mintRows, buyRows,
                   granted, polite>>
    BY <1>15 DEF CheckTHB, chain, rows, stays
  <2>2. Cost(req[r].amount) \in Nat /\ thb[req[r].by] \in Nat
    BY <1>15, BuyerType, CostType DEF CheckTHB, BuyPlaces, TypeOK
  <2>3. Cost(req[r].amount) - thb[req[r].by] > 0 =>
          [req EXCEPT ![r] = Lacking(@, Cost(req[r].amount) - thb[req[r].by])]
            \in [Requests -> Reqs]
    <3>1. Cost(req[r].amount) - thb[req[r].by] > 0
            => Cost(req[r].amount) - thb[req[r].by] \in Nat
      BY <2>2
    <3>2. req[r] \in Reqs
      BY <1>p
    <3>3. Cost(req[r].amount) - thb[req[r].by] > 0
            => Lacking(req[r], Cost(req[r].amount) - thb[req[r].by]) \in Reqs
      BY <3>1, <3>2, Fields
    <3> QED
      BY <1>p, <3>3
  <2>4. pc' \in [Requests -> Places] /\ req' \in [Requests -> Reqs]
    BY <1>15, <1>0, <1>p, <2>3 DEF CheckTHB, THBOf, BuyPlaces, Ends
  <2>5. faults' \in Nat
    BY <1>15 DEF CheckTHB, Raises, TypeOK
  <2> QED
    BY <2>1, <2>2, <2>3, <2>4, <2>5 DEF TypeOK
<1>16. ASSUME NEW r \in Requests, MintTHB(r) PROVE TypeOK'
  <2>1. UNCHANGED <<voucher, whitelist, tokens, allowance, listing,
                   batch, owner, currency, mintRows, buyRows, granted,
                   polite>>
    BY <1>16 DEF MintTHB, chain, rows, stays
  <2>2. pc' \in [Requests -> Places] /\ req' \in [Requests -> Reqs]
    BY <1>16, <1>0, <1>p DEF MintTHB, ListPlaces, BuyPlaces, Ends
  <2>3. faults' \in Nat
    BY <1>16 DEF MintTHB, Raises, TypeOK
  <2>4. req[r].by \in Merchants /\ req[r].short \in Nat
    BY <1>16, BuyerType DEF MintTHB, BuyPlaces, TypeOK, Reqs
  <2>5. thb' \in [Merchants -> Nat]
    BY <1>16, <2>4 DEF MintTHB, MintFor, TypeOK
  <2> QED
    BY <2>1, <2>2, <2>3, <2>4, <2>5 DEF TypeOK
<1>17. ASSUME NEW r \in Requests, RecordMint(r) PROVE TypeOK'
  <2>1. UNCHANGED <<voucher, whitelist, tokens, thb, allowance,
                   listing, batch, owner, currency, buyRows, granted,
                   polite>>
    BY <1>17 DEF RecordMint, chain, rows, stays
  <2>2. [req EXCEPT ![r] = Lacking(@, 0)] \in [Requests -> Reqs]
    BY <1>p, Fields
  <2>3. pc' \in [Requests -> Places] /\ req' \in [Requests -> Reqs]
    BY <1>17, <1>0, <1>p, <2>2 DEF RecordMint, BuyPlaces, Ends
  <2>4. faults' \in Nat
    BY <1>17 DEF RecordMint, Raises, TypeOK
  <2>5. req[r].by \in Merchants /\ req[r].short \in Nat
    BY <1>17, BuyerType DEF RecordMint, BuyPlaces, TypeOK, Reqs
  <2>6. mintRows' \in [Merchants -> Minted]
    <3>1. mintRows \in [Merchants -> Minted] /\ WholeTHB(req[r].short) \in Nat
      BY <2>5, WholeType DEF TypeOK
    <3>2. \/ mintRows' = mintRows
          \/ mintRows' = [mintRows EXCEPT ![req[r].by] =
                             [rows |-> @.rows + 1, thb |-> @.thb + WholeTHB(req[r].short)]]
      BY <1>17 DEF RecordMint
    <3> QED
      BY <2>5, <3>1, <3>2 DEF Minted
  <2> QED
    BY <2>1, <2>2, <2>3, <2>4, <2>5, <2>6 DEF TypeOK
<1>18. ASSUME NEW r \in Requests, Approve(r) PROVE TypeOK'
  <2>1. UNCHANGED <<voucher, whitelist, tokens, thb, listing, batch,
                   owner, currency, mintRows, buyRows, granted,
                   polite>>
    BY <1>18 DEF Approve, chain, rows, stays
  <2>2. pc' \in [Requests -> Places] /\ req' \in [Requests -> Reqs]
    BY <1>18, <1>0, <1>p DEF Approve, ListPlaces, BuyPlaces, Ends
  <2>3. faults' \in Nat
    BY <1>18 DEF Approve, Raises, TypeOK
  <2>4. req[r].by \in Merchants /\ Cost(req[r].amount) \in Nat
    BY <1>18, BuyerType, CostType DEF Approve, BuyPlaces
  <2>5. allowance' \in [Merchants -> Nat]
    BY <1>18, <2>4 DEF Approve, TypeOK
  <2> QED
    BY <2>1, <2>2, <2>3, <2>4, <2>5 DEF TypeOK
<1>19. ASSUME NEW r \in Requests, Pay(r) PROVE TypeOK'
  <2> DEFINE l == req[r].listing
             m == req[r].by
             n == req[r].amount
  <2>1. UNCHANGED <<voucher, whitelist, batch, owner, currency,
                   mintRows, buyRows, granted, polite>>
    BY <1>19 DEF Pay, chain, rows, stays
  <2>2. pc' \in [Requests -> Places] /\ req' \in [Requests -> Reqs]
    BY <1>19, <1>0, <1>p DEF Pay, BuyPlaces, Ends
  <2>3. faults' \in Nat
    BY <1>19 DEF Pay, Raises, TypeOK
  <2>4. /\ m \in Merchants /\ n \in Nat /\ l \in Listings /\ m \in Wallets
        /\ listing[l].voucher \in Vouchers /\ Cost(n) \in Nat
    BY <1>19, BuyerType, CostType DEF Pay, BuyPlaces, Wallets
  <2>5. /\ listing[l].left \in Nat /\ thb[m] \in Nat /\ allowance[m] \in Nat
        /\ tokens[listing[l].voucher][m] \in Nat
    BY <2>4 DEF TypeOK, OnChain
  <2>6. \/ UNCHANGED <<tokens, thb, allowance, listing>>
        \/ CanBuy(r) /\ allowance[m] >= Cost(n) /\ Sell(l, m, n)
    BY <1>19 DEF Pay, chain
  <2>7. thb' \in [Merchants -> Nat] /\ allowance' \in [Merchants -> Nat]
    <3>1. \/ UNCHANGED <<thb, allowance>>
          \/ /\ thb[m] - Cost(n) \in Nat /\ allowance[m] - Cost(n) \in Nat
             /\ thb' = [thb EXCEPT ![m] = @ - Cost(n)]
             /\ allowance' = [allowance EXCEPT ![m] = @ - Cost(n)]
      <4>1. CASE UNCHANGED <<tokens, thb, allowance, listing>>
        BY <4>1
      <4>2. CASE CanBuy(r) /\ allowance[m] >= Cost(n) /\ Sell(l, m, n)
        <5>1. thb[m] >= Cost(n) /\ allowance[m] >= Cost(n)
          BY <4>2 DEF CanBuy
        <5>2. thb[m] - Cost(n) \in Nat /\ allowance[m] - Cost(n) \in Nat
          BY <2>4, <2>5, <5>1
        <5> QED
          BY <4>2, <5>2 DEF Sell
      <4> QED
        BY <2>6, <4>1, <4>2
    <3> QED
      BY <1>t, <2>4, <3>1
  <2>8. tokens' \in [Vouchers -> [Wallets -> Nat]]
    <3>1. \/ tokens' = tokens
          \/ tokens' = [tokens EXCEPT ![listing[l].voucher][m] = @ + n]
      BY <2>6 DEF Sell
    <3>2. PICK v \in Vouchers : v = listing[l].voucher
      BY <2>4
    <3>3. tokens[v][m] + n \in Nat /\ m \in Wallets
      BY <2>4, <2>5, <3>2
    <3>4. tokens' = tokens \/ tokens' = [tokens EXCEPT ![v][m] = @ + n]
      BY <3>1, <3>2
    <3> HIDE DEF m, n
    <3> QED
      BY <1>t, <3>3, <3>4
  <2>9. listing' \in [Listings -> OnChain]
    <3>1. CanBuy(r) => listing[l].left - n \in Nat
      BY <2>4, <2>5 DEF CanBuy
    <3>2. listing \in [Listings -> OnChain] /\ l \in Listings
      BY <2>4 DEF TypeOK
    <3>3. CASE Sell(l, m, n) /\ CanBuy(r)
      <4>1. PICK s : s = [voucher |-> listing[l].voucher, left |-> listing[l].left - n]
        OBVIOUS
      <4>2. listing' = [listing EXCEPT ![l] = s]
        BY <3>3, <4>1 DEF Sell
      <4>3. s \in OnChain
        BY <3>1, <3>2, <3>3, <4>1 DEF OnChain
      <4> QED
        BY <3>2, <4>2, <4>3
    <3> QED
      BY <2>6, <3>2, <3>3
  <2> QED
    BY <2>1, <2>2, <2>3, <2>7, <2>8, <2>9 DEF TypeOK
<1>20. ASSUME NEW r \in Requests, FindCodes(r) PROVE TypeOK'
  <2>1. UNCHANGED <<voucher, whitelist, tokens, thb, allowance,
                   listing, batch, owner, currency, mintRows, buyRows,
                   granted, polite>>
    BY <1>20 DEF FindCodes, chain, rows, stays
  <2>2. \A S \in SUBSET Unsold(req[r].listing) : S \subseteq Codes
    <3>1. pc[r] \in BuyPlaces
      BY <1>20 DEF FindCodes, BuyPlaces
    <3>2. req[r].listing \in Listings
      BY <3>1, BuyerType
    <3> QED
      BY <3>2 DEF Unsold, CodesOf, Codes
  <2>3. \A S \in SUBSET Codes : [req EXCEPT ![r] = Holding(@, S)] \in [Requests -> Reqs]
    BY <1>p, Fields
  <2>4. pc' \in [Requests -> Places] /\ req' \in [Requests -> Reqs]
    BY <1>20, <1>0, <1>p, <2>2, <2>3 DEF FindCodes, BuyPlaces, Ends
  <2>5. faults' \in Nat
    BY <1>20 DEF FindCodes, Raises, TypeOK
  <2> QED
    BY <2>1, <2>2, <2>3, <2>4, <2>5 DEF TypeOK
<1>21. ASSUME NEW r \in Requests, BuyRow(r) PROVE TypeOK'
  <2>1. UNCHANGED <<voucher, whitelist, tokens, thb, allowance,
                   listing, batch, owner, currency, mintRows, granted,
                   polite>>
    BY <1>21 DEF BuyRow, chain, rows, stays
  <2>2. pc' \in [Requests -> Places] /\ req' \in [Requests -> Reqs]
    BY <1>21, <1>0, <1>p DEF BuyRow, ListPlaces, BuyPlaces, Ends
  <2>3. faults' \in Nat
    BY <1>21 DEF BuyRow, Raises, TypeOK
  <2>4. /\ req[r].held \subseteq CodesOf(req[r].listing) /\ req[r].held \subseteq Codes
        /\ req[r].held \ buyRows[r] # {}
    BY <1>21 DEF BuyRow, Held, Recorded, Running, Picked, TypeOK, Reqs
  <2>5. First(req[r].held \ buyRows[r]) \in Codes
    BY <2>4, FirstType
  <2>6. buyRows' \in [Requests -> SUBSET Codes]
    BY <1>21, <2>5 DEF BuyRow, TypeOK
  <2> QED
    BY <2>1, <2>2, <2>3, <2>4, <2>5, <2>6 DEF TypeOK
<1>22. ASSUME NEW r \in Requests, Own(r) PROVE TypeOK'
  <2>1. UNCHANGED <<voucher, whitelist, tokens, thb, allowance,
                   listing, batch, currency, mintRows, buyRows,
                   granted, polite>>
    BY <1>22 DEF Own, chain, rows, stays
  <2>2. pc' \in [Requests -> Places] /\ req' \in [Requests -> Reqs]
    BY <1>22, <1>0, <1>p DEF Own, ListPlaces, BuyPlaces, Ends
  <2>3. faults' \in Nat
    BY <1>22 DEF Own, Raises, TypeOK
  <2>4. req[r].by \in Merchants
    BY <1>22, BuyerType DEF Own, BuyPlaces
  <2>5. owner' \in [Codes -> Merchants \cup {None, Absent}]
    BY <1>22, <2>4 DEF Own, TypeOK
  <2> QED
    BY <2>1, <2>2, <2>3, <2>4, <2>5 DEF TypeOK
<1>23. ASSUME NEW r \in Requests, Count(r) PROVE TypeOK'
  <2>1. UNCHANGED <<voucher, whitelist, tokens, thb, allowance,
                   listing, owner, currency, mintRows, buyRows,
                   granted, polite>>
    BY <1>23 DEF Count, chain, rows, stays
  <2>2. pc' \in [Requests -> Places] /\ req' \in [Requests -> Reqs]
    BY <1>23, <1>0, <1>p DEF Count, ListPlaces, BuyPlaces, Ends
  <2>3. faults' \in Nat
    BY <1>23 DEF Count, Raises, TypeOK
  <2>4. BatchOf(r) \in Requests /\ req[r].amount \in Nat
    BY <1>23, BuyerType DEF Count, BuyPlaces
  <2>5. batch' \in [Requests -> Batches]
    <3>1. \/ batch' = batch
          \/ batch' = [batch EXCEPT ![BatchOf(r)] =
                         [total |-> @.total, sold |-> @.sold + req[r].amount,
                          soldOut |-> @.soldOut]]
      BY <1>23 DEF Count
    <3> QED
      BY <1>t, <2>4, <3>1 DEF Batches
  <2> QED
    BY <2>1, <2>2, <2>3, <2>4, <2>5 DEF TypeOK
<1>24. ASSUME NEW r \in Requests, Close(r) PROVE TypeOK'
  <2>1. UNCHANGED <<voucher, whitelist, tokens, thb, allowance,
                   listing, owner, currency, mintRows, buyRows,
                   granted, polite>>
    BY <1>24 DEF Close, chain, rows, stays
  <2>2. pc' \in [Requests -> Places] /\ req' \in [Requests -> Reqs]
    BY <1>24, <1>0, <1>p DEF Close, ListPlaces, BuyPlaces, Ends
  <2>3. faults' \in Nat
    BY <1>24 DEF Close, Raises, TypeOK
  <2>4. BatchOf(r) \in Requests
    BY <1>24, BuyerType DEF Close, BuyPlaces
  <2>5. batch' \in [Requests -> Batches]
    <3>1. \/ batch' = batch
          \/ batch' = [batch EXCEPT ![BatchOf(r)] =
                         [total |-> @.total, sold |-> @.sold,
                          soldOut |-> @.soldOut \/ SoldOut(@)]]
      BY <1>24 DEF Close
    <3>2. batch[BatchOf(r)] \in Batches
      BY <1>t, <2>4
    <3>3. [total |-> batch[BatchOf(r)].total, sold |-> batch[BatchOf(r)].sold,
           soldOut |-> batch[BatchOf(r)].soldOut \/ SoldOut(batch[BatchOf(r)])] \in Batches
      BY <3>2 DEF Batches, SoldOut
    <3> QED
      BY <1>t, <2>4, <3>1, <3>3
  <2> QED
    BY <2>1, <2>2, <2>3, <2>4, <2>5 DEF TypeOK
<1>25. CASE UNCHANGED vars
  BY <1>25 DEF vars, TypeOK
<1> QED
  BY <1>1, <1>2, <1>3, <1>4, <1>5, <1>6, <1>7, <1>8, <1>9, <1>10, <1>11,
     <1>12, <1>13, <1>14, <1>15, <1>16, <1>17, <1>18, <1>19, <1>20, <1>21,
     <1>22, <1>23, <1>24, <1>25 DEF Next, Selling, Buying

-----------------------------------------------------------------------------
(* What each step does to the variables of the invariants.                 *)

\* The other requests stay where they are.
Others(r) == \A q \in Requests : q # r => req'[q] = req[q] /\ pc'[q] = pc[q]
Stays(r)  == req'[r] = req[r]
Ended(r)  == pc'[r] \in {"failed", "listed"} /\ req'[r] = NoReq
Quiet     == UNCHANGED <<tokens, thb, allowance, listing, batch, owner, mintRows,
                         buyRows, granted, polite>>

\* A seller's request arrives.
LEMMA ArriveEffect ==
  ASSUME TypeOK, NEW r \in Requests, List(r) \/ ListBatch(r)
  PROVE  /\ Others(r) /\ pc[r] = "idle" /\ pc'[r] = "admit" /\ Quiet
         /\ \E items \in Seq(Items), e \in BOOLEAN :
              /\ req'[r] = SellReq(items, e) /\ (~e => Len(items) = 1)
              /\ Len(items) \in 1 .. MaxItems
              /\ \A i \in DOMAIN items :
                   items[i].amount <= Issued /\ voucher[items[i].voucher] = "row"
<1>1. ASSUME NEW items \in Seq(Items), NEW e \in BOOLEAN, Begin(r, items, e)
      PROVE  /\ Others(r) /\ pc[r] = "idle" /\ pc'[r] = "admit" /\ Quiet
             /\ req'[r] = SellReq(items, e)
  <2>1. Quiet
    BY <1>1 DEF Begin, Quiet, chain, rows, stays
  <2> QED
    BY <1>1, <2>1 DEF Begin, Others, Move, TypeOK
<1>2. CASE List(r)
  <2>1. PICK i \in Items : Valid(i) /\ Begin(r, <<i>>, FALSE)
    BY <1>2 DEF List
  <2>2. <<i>> \in Seq(Items) /\ Len(<<i>>) = 1 /\ <<i>>[1] = i /\ DOMAIN <<i>> = {1}
    OBVIOUS
  <2>3. 1 \in 1 .. MaxItems
    BY Bounds
  <2> QED
    BY <1>1, <2>1, <2>2, <2>3 DEF Valid
<1>3. CASE ListBatch(r)
  <2>1. PICK n \in 1 .. MaxItems :
          \E items \in [1 .. n -> Items] : ValidBatch(items) /\ Begin(r, items, TRUE)
    BY <1>3 DEF ListBatch
  <2>2. PICK items \in [1 .. n -> Items] : ValidBatch(items) /\ Begin(r, items, TRUE)
    BY <2>1
  <2>3. n \in Nat /\ items \in Seq(Items) /\ Len(items) = n
    BY Bounds
  <2>4. \A i \in DOMAIN items :
          items[i].amount <= Issued /\ voucher[items[i].voucher] = "row"
    BY <2>2 DEF ValidBatch, Valid
  <2> QED
    BY <1>1, <2>2, <2>3, <2>4
<1> QED
  BY <1>2, <1>3

\* A seller is admitted.
LEMMA AdmitEffect ==
  ASSUME TypeOK, NEW r \in Requests, Admit(r)
  PROVE  /\ Others(r) /\ pc[r] = "admit"
         /\ UNCHANGED <<tokens, thb, allowance, listing, batch, owner,
                         mintRows, buyRows, granted, polite>>
         /\ \/ Ended(r)
            \/ Stays(r) /\ pc'[r] = IF req[r].early THEN "batch" ELSE "mint"
<1>1. pc[r] = "admit" /\ UNCHANGED <<tokens, thb, allowance, listing, batch, owner,
                   mintRows, buyRows, granted, polite>>
  BY DEF Admit, chain, rows, stays
<1>2. Others(r)
  BY DEF Admit, Others, Goto, Move, TypeOK
<1> QED
  BY <1>1, <1>2 DEF Admit, Stays, Ended, Goto, Move, TypeOK

\* A batch is created.
LEMMA BatchEffect ==
  ASSUME TypeOK, NEW r \in Requests, CreateBatch(r)
  PROVE  /\ Others(r) /\ pc[r] = "batch"
         /\ UNCHANGED <<tokens, thb, allowance, listing, owner, mintRows,
                         buyRows, granted, polite>>
         /\ \/ Ended(r) /\ batch' = batch
            \/ /\ Stays(r) /\ pc'[r] = IF req[r].early THEN "mint" ELSE "codes"
               /\ batch' = [batch EXCEPT ![r] = NewBatch(TotalOf(req[r].items))]
<1>1. pc[r] = "batch" /\ UNCHANGED <<tokens, thb, allowance, listing, owner, mintRows,
                   buyRows, granted, polite>>
  BY DEF CreateBatch, chain, rows, stays
<1>2. Others(r)
  BY DEF CreateBatch, Others, Goto, Move, TypeOK
<1> QED
  BY <1>1, <1>2 DEF CreateBatch, Stays, Ended, Goto, Move, TypeOK

\* Coupons are minted for the seller, whose request may end.
LEMMA MintEffect ==
  ASSUME TypeOK, NEW r \in Requests, Mint(r)
  PROVE  /\ Others(r) /\ pc[r] = "mint"
         /\ UNCHANGED <<thb, allowance, listing, batch, owner, mintRows,
                         buyRows, granted, polite>>
         /\ Ended(r) \/ (Stays(r) /\ pc'[r] = "list")
         /\ \/ tokens' = tokens
            \/ tokens' = [tokens EXCEPT ![Item(r).voucher][Seller] = @ + Item(r).amount]
<1>1. pc[r] = "mint" /\ UNCHANGED <<thb, allowance, listing, batch, owner, mintRows,
                   buyRows, granted, polite>>
  BY DEF Mint, chain, rows, stays
<1>2. Others(r)
  BY DEF Mint, Others, Goto, Move, TypeOK
<1> QED
  BY <1>1, <1>2 DEF Mint, MintCoupons, Stays, Ended, Goto, Move, TypeOK

\* A listing is made, and the seller's request may end.
LEMMA ListEffect ==
  ASSUME TypeOK, NEW r \in Requests, ListOnChain(r)
  PROVE  /\ Others(r) /\ pc[r] = "list"
         /\ UNCHANGED <<thb, allowance, batch, owner, mintRows, buyRows,
                         granted, polite>>
         /\ \/ Ended(r) /\ UNCHANGED <<tokens, listing>>
            \/ /\ \/ Ended(r)
                  \/ Stays(r) /\ pc'[r] = IF req[r].early THEN "codes" ELSE "batch"
               /\ tokens[Item(r).voucher][Seller] >= Item(r).amount
               /\ tokens' = [tokens EXCEPT ![Item(r).voucher][Seller] = @ - Item(r).amount]
               /\ listing' = [listing EXCEPT ![Here(r)] =
                                [voucher |-> Item(r).voucher, left |-> Item(r).amount]]
<1>1. pc[r] = "list" /\ UNCHANGED <<thb, allowance, batch, owner, mintRows, buyRows,
                   granted, polite>>
  BY DEF ListOnChain, chain, rows, stays
<1>2. Others(r)
  BY DEF ListOnChain, Others, Goto, Move, TypeOK
<1> QED
  BY <1>1, <1>2 DEF ListOnChain, Escrow, Stays, Ended, Goto, Move, TypeOK

\* The codes of a listing are created.
LEMMA CodesEffect ==
  ASSUME TypeOK, NEW r \in Requests, CreateCodes(r)
  PROVE  /\ Others(r) /\ pc[r] = "codes"
         /\ UNCHANGED <<tokens, thb, allowance, listing, batch, mintRows,
                         buyRows, granted, polite>>
         /\ \/ Ended(r) /\ owner' = owner
            \/ /\ Stays(r) /\ pc'[r] = "sync"
               /\ owner' = [c \in Codes |->
                    IF c[1] = Here(r) /\ c[2] <= Item(r).amount THEN None ELSE owner[c]]
<1>1. pc[r] = "codes" /\ UNCHANGED <<tokens, thb, allowance, listing, batch, mintRows,
                   buyRows, granted, polite>>
  BY DEF CreateCodes, chain, rows, stays
<1>2. Others(r)
  BY DEF CreateCodes, Others, Goto, Move, TypeOK
<1> QED
  BY <1>1, <1>2 DEF CreateCodes, Stays, Ended, Goto, Move, TypeOK

\* A seller goes on to the next item or ends.
LEMMA SyncEffect ==
  ASSUME TypeOK, NEW r \in Requests, SyncCurrency(r)
  PROVE  /\ Others(r) /\ pc[r] = "sync"
         /\ UNCHANGED <<tokens, thb, allowance, listing, batch, owner,
                         mintRows, buyRows, granted, polite>>
         /\ \/ Ended(r)
            \/ /\ req[r].at < Len(req[r].items) /\ pc'[r] = "mint"
               /\ req'[r] = Advanced(req[r])
<1>1. pc[r] = "sync" /\ UNCHANGED <<tokens, thb, allowance, listing, batch, owner,
                   mintRows, buyRows, granted, polite>>
  BY DEF SyncCurrency, chain, rows, stays
<1>2. Others(r)
  BY DEF SyncCurrency, Others, Goto, Move, TypeOK
<1> QED
  BY <1>1, <1>2 DEF SyncCurrency, Ended, Goto, Move, TypeOK

\* A purchase arrives.
LEMMA BuyEffect ==
  ASSUME TypeOK, NEW r \in Requests, Buy(r)
  PROVE  /\ Others(r) /\ pc[r] = "idle"
         /\ UNCHANGED <<tokens, thb, allowance, listing, batch, owner,
                         mintRows, buyRows, granted, polite>>
         /\ pc'[r] = "balance"
         /\ \E m \in Merchants, l \in Listings, n \in 1 .. Issued :
              Active(l) /\ MayBuy(m, l) /\ req'[r] = BuyReq(m, l, n)
<1>1. pc[r] = "idle" /\ UNCHANGED <<tokens, thb, allowance, listing, batch, owner,
                   mintRows, buyRows, granted, polite>>
  BY DEF Buy, chain, rows, stays
<1>2. Others(r)
  BY DEF Buy, Others, Goto, Move, TypeOK
<1> QED
  BY <1>1, <1>2 DEF Buy, Move, TypeOK

\* A purchase has read the balance.
LEMMA CheckEffect ==
  ASSUME TypeOK, NEW r \in Requests, CheckTHB(r)
  PROVE  /\ Others(r) /\ pc[r] = "balance"
         /\ UNCHANGED <<tokens, thb, allowance, listing, batch, owner,
                         mintRows, buyRows, granted, polite>>
         /\ \/ Ended(r)
            \/ Stays(r) /\ pc'[r] = "approve"
            \/ /\ pc'[r] = "mintTHB" /\ Cost(req[r].amount) - thb[req[r].by] > 0
               /\ req'[r] = Lacking(req[r], Cost(req[r].amount) - thb[req[r].by])
<1>1. pc[r] = "balance" /\ UNCHANGED <<tokens, thb, allowance, listing, batch, owner,
                   mintRows, buyRows, granted, polite>>
  BY DEF CheckTHB, chain, rows, stays
<1>2. Others(r)
  BY DEF CheckTHB, Others, Goto, Move, TypeOK
<1> QED
  BY <1>1, <1>2 DEF CheckTHB, THBOf, Stays, Ended, Goto, Move, TypeOK

\* The missing THB is minted.
LEMMA MintTHBEffect ==
  ASSUME TypeOK, NEW r \in Requests, MintTHB(r)
  PROVE  /\ Others(r) /\ pc[r] = "mintTHB"
         /\ UNCHANGED <<tokens, allowance, listing, batch, owner,
                         mintRows, buyRows, granted, polite>>
         /\ \/ Ended(r) /\ thb' = thb
            \/ /\ Stays(r) /\ pc'[r] \in {"mintRow", "unrecorded"}
               /\ thb' = [thb EXCEPT ![req[r].by] = @ + req[r].short]
<1>1. pc[r] = "mintTHB" /\ UNCHANGED <<tokens, allowance, listing, batch, owner,
                   mintRows, buyRows, granted, polite>>
  BY DEF MintTHB, chain, rows, stays
<1>2. Others(r)
  BY DEF MintTHB, Others, Goto, Move, TypeOK
<1> QED
  BY <1>1, <1>2 DEF MintTHB, MintFor, Stays, Ended, Goto, Move, TypeOK

\* The THB_MINT row is written.
LEMMA RecordEffect ==
  ASSUME TypeOK, NEW r \in Requests, RecordMint(r)
  PROVE  /\ Others(r) /\ pc[r] = "mintRow"
         /\ UNCHANGED <<tokens, thb, allowance, listing, batch, owner,
                         buyRows, granted, polite>>
         /\ \/ Stays(r) /\ pc'[r] = "unrecorded" /\ mintRows' = mintRows
            \/ /\ req'[r] = Lacking(req[r], 0) /\ pc'[r] = "approve"
               /\ mintRows' = [mintRows EXCEPT ![req[r].by] =
                      [rows |-> @.rows + 1, thb |-> @.thb + WholeTHB(req[r].short)]]
<1>1. pc[r] = "mintRow" /\ UNCHANGED <<tokens, thb, allowance, listing, batch, owner,
                   buyRows, granted, polite>>
  BY DEF RecordMint, chain, rows, stays
<1>2. Others(r)
  BY DEF RecordMint, Others, Goto, Move, TypeOK
<1> QED
  BY <1>1, <1>2 DEF RecordMint, Stays, Ended, Goto, Move, TypeOK

\* The vault may take the price.
LEMMA ApproveEffect ==
  ASSUME TypeOK, NEW r \in Requests, Approve(r)
  PROVE  /\ Others(r) /\ pc[r] = "approve"
         /\ UNCHANGED <<tokens, thb, listing, batch, owner, mintRows,
                         buyRows, granted, polite>>
         /\ \/ Ended(r) /\ allowance' = allowance
            \/ /\ Stays(r) /\ pc'[r] = "pay" /\ CanBuy(r)
               /\ allowance' = [allowance EXCEPT ![req[r].by] = Cost(req[r].amount)]
<1>1. pc[r] = "approve" /\ UNCHANGED <<tokens, thb, listing, batch, owner, mintRows,
                   buyRows, granted, polite>>
  BY DEF Approve, chain, rows, stays
<1>2. Others(r)
  BY DEF Approve, Others, Goto, Move, TypeOK
<1> QED
  BY <1>1, <1>2 DEF Approve, Stays, Ended, Goto, Move, TypeOK

\* The contract sells.
LEMMA PayEffect ==
  ASSUME TypeOK, NEW r \in Requests, Pay(r)
  PROVE  /\ Others(r) /\ pc[r] = "pay"
         /\ UNCHANGED <<batch, owner, mintRows, buyRows, granted, polite>>
         /\ \/ Ended(r) /\ UNCHANGED <<tokens, thb, allowance, listing>>
            \/ /\ Stays(r) /\ pc'[r] \in {"find", "unrecorded"}
               /\ CanBuy(r) /\ allowance[req[r].by] >= Cost(req[r].amount)
               /\ Sell(req[r].listing, req[r].by, req[r].amount)
<1>1. pc[r] = "pay" /\ UNCHANGED <<batch, owner, mintRows, buyRows, granted, polite>>
  BY DEF Pay, chain, rows, stays
<1>2. Others(r)
  BY DEF Pay, Others, Goto, Move, TypeOK
<1> QED
  BY <1>1, <1>2 DEF Pay, Stays, chain, Ended, Goto, Move, TypeOK

\* Codes are picked.
LEMMA FindEffect ==
  ASSUME TypeOK, NEW r \in Requests, FindCodes(r)
  PROVE  /\ Others(r) /\ pc[r] = "find"
         /\ UNCHANGED <<tokens, thb, allowance, listing, batch, owner,
                         mintRows, buyRows, granted, polite>>
         /\ \/ Stays(r) /\ pc'[r] = "unrecorded"
            \/ /\ pc'[r] = "rows"
               /\ \E S \in SUBSET Unsold(req[r].listing) :
                    Cardinality(S) = req[r].amount /\ req'[r] = Holding(req[r], S)
<1>1. pc[r] = "find" /\ UNCHANGED <<tokens, thb, allowance, listing, batch, owner,
                   mintRows, buyRows, granted, polite>>
  BY DEF FindCodes, chain, rows, stays
<1>2. Others(r)
  BY DEF FindCodes, Others, Goto, Move, TypeOK
<1> QED
  BY <1>1, <1>2 DEF FindCodes, Stays, Ended, Goto, Move, TypeOK

\* A THB_BUY row is written.
LEMMA RowEffect ==
  ASSUME TypeOK, NEW r \in Requests, BuyRow(r)
  PROVE  /\ Others(r) /\ pc[r] = "rows"
         /\ UNCHANGED <<tokens, thb, allowance, listing, batch, owner,
                         mintRows, granted, polite>>
         /\ Stays(r)
         /\ \/ pc'[r] = "unrecorded" /\ buyRows' = buyRows
            \/ /\ buyRows' = [buyRows EXCEPT ![r] = @ \cup {First(req[r].held \ @)}]
               /\ pc'[r] = IF buyRows'[r] = req[r].held THEN "own" ELSE "rows"
<1>1. pc[r] = "rows" /\ UNCHANGED <<tokens, thb, allowance, listing, batch, owner,
                   mintRows, granted, polite>>
  BY DEF BuyRow, chain, rows, stays
<1>2. Others(r)
  BY DEF BuyRow, Others, Goto, Move, TypeOK
<1> QED
  BY <1>1, <1>2 DEF BuyRow, Stays, Ended, Goto, Move, TypeOK

\* The codes are handed over.
LEMMA OwnEffect ==
  ASSUME TypeOK, NEW r \in Requests, Own(r)
  PROVE  /\ Others(r) /\ pc[r] = "own"
         /\ UNCHANGED <<tokens, thb, allowance, listing, batch, mintRows,
                         buyRows, granted, polite>>
         /\ Stays(r)
         /\ \/ pc'[r] = "unrecorded" /\ owner' = owner
            \/ /\ pc'[r] = "count"
               /\ owner' = [c \in Codes |->
                              IF c \in req[r].held THEN req[r].by ELSE owner[c]]
<1>1. pc[r] = "own" /\ UNCHANGED <<tokens, thb, allowance, listing, batch, mintRows,
                   buyRows, granted, polite>>
  BY DEF Own, chain, rows, stays
<1>2. Others(r)
  BY DEF Own, Others, Goto, Move, TypeOK
<1> QED
  BY <1>1, <1>2 DEF Own, Stays, Ended, Goto, Move, TypeOK

\* The batch counts the coupons.
LEMMA CountEffect ==
  ASSUME TypeOK, NEW r \in Requests, Count(r)
  PROVE  /\ Others(r) /\ pc[r] = "count"
         /\ UNCHANGED <<tokens, thb, allowance, listing, owner, mintRows,
                         buyRows, granted, polite>>
         /\ Stays(r)
         /\ \/ pc'[r] = "uncounted" /\ batch' = batch
            \/ /\ pc'[r] = "close"
               /\ batch' = [batch EXCEPT ![BatchOf(r)] =
                    [total |-> @.total, sold |-> @.sold + req[r].amount,
                     soldOut |-> @.soldOut]]
<1>1. pc[r] = "count" /\ UNCHANGED <<tokens, thb, allowance, listing, owner, mintRows,
                   buyRows, granted, polite>>
  BY DEF Count, chain, rows, stays
<1>2. Others(r)
  BY DEF Count, Others, Goto, Move, TypeOK
<1> QED
  BY <1>1, <1>2 DEF Count, Stays, Ended, Goto, Move, TypeOK

\* The batch is marked when it is full.
LEMMA CloseEffect ==
  ASSUME TypeOK, NEW r \in Requests, Close(r)
  PROVE  /\ Others(r) /\ pc[r] = "close"
         /\ UNCHANGED <<tokens, thb, allowance, listing, owner, mintRows,
                         buyRows, granted, polite>>
         /\ Stays(r)
         /\ \/ pc'[r] = "unclosed" /\ batch' = batch
            \/ /\ pc'[r] = "bought"
               /\ batch' = [batch EXCEPT ![BatchOf(r)] =
                    [total |-> @.total, sold |-> @.sold,
                     soldOut |-> @.soldOut \/ SoldOut(@)]]
<1>1. pc[r] = "close" /\ UNCHANGED <<tokens, thb, allowance, listing, owner, mintRows,
                   buyRows, granted, polite>>
  BY DEF Close, chain, rows, stays
<1>2. Others(r)
  BY DEF Close, Others, Goto, Move, TypeOK
<1> QED
  BY <1>1, <1>2 DEF Close, Stays, Ended, Goto, Move, TypeOK

\* An operator mints THB for a merchant.
LEMMA TreasuryEffect ==
  ASSUME TypeOK, NEW m \in Merchants, MintTHBToMerchant(m)
  PROVE  /\ UNCHANGED <<tokens, allowance, listing, batch, owner, mintRows,
                        buyRows, polite, req, pc>>
         /\ thb' = [thb EXCEPT ![m] = @ + 1]
         /\ granted' = [granted EXCEPT ![m] = @ + 1]
BY DEF MintTHBToMerchant, MintFor, rows

\* The other steps of an operator and of the seller change nothing of it.
LEMMA QuietEffect ==
  ASSUME UNCHANGED vars \/ (\E v \in Vouchers : CreateType(v) \/ PersistVoucher(v))
           \/ (\E m \in Merchants : Whitelist(m))
           \/ (\E W \in SUBSET Missing(Merchants) : WhitelistBatch(W))
  PROVE  Quiet /\ UNCHANGED <<req, pc>>
BY DEF CreateType, PersistVoucher, Whitelist, WhitelistBatch, Quiet, vars, chain, rows, stays

-----------------------------------------------------------------------------
(* Where requests go, and what they carry.                                 *)

\* A seller's request ends or goes on with the same items.
SellerGoes(r) ==
  \/ Ended(r)
  \/ /\ req'[r] = req[r]
     /\ \/ pc[r] = "admit" /\ pc'[r] = IF req[r].early THEN "batch" ELSE "mint"
        \/ pc[r] = "batch" /\ pc'[r] = IF req[r].early THEN "mint" ELSE "codes"
        \/ pc[r] = "mint" /\ pc'[r] = "list"
        \/ pc[r] = "list" /\ pc'[r] = IF req[r].early THEN "codes" ELSE "batch"
        \/ pc[r] = "codes" /\ pc'[r] = "sync"
  \/ /\ pc[r] = "sync" /\ pc'[r] = "mint" /\ req[r].at < Len(req[r].items)
     /\ req'[r].at = req[r].at + 1 /\ req'[r].items = req[r].items
     /\ req'[r].early = req[r].early
\* What a seller's steps do, other than listing.
LEMMA SellerMoves ==
  ASSUME TypeOK, NEW r \in Requests, Selling(r), ~List(r), ~ListBatch(r)
  PROVE  Others(r) /\ pc[r] \in ListPlaces /\ SellerGoes(r) /\ polite' = polite
<1>0. req[r] \in Reqs
  BY DEF TypeOK
<1>1. CASE Admit(r)
  BY <1>1, AdmitEffect DEF SellerGoes, Stays, ListPlaces
<1>2. CASE CreateBatch(r)
  BY <1>2, BatchEffect DEF SellerGoes, Stays, ListPlaces
<1>3. CASE Mint(r)
  BY <1>3, MintEffect DEF SellerGoes, Stays, ListPlaces
<1>4. CASE ListOnChain(r)
  BY <1>4, ListEffect DEF SellerGoes, Stays, ListPlaces
<1>5. CASE CreateCodes(r)
  BY <1>5, CodesEffect DEF SellerGoes, Stays, ListPlaces
<1>6. CASE SyncCurrency(r)
  BY <1>0, <1>6, SyncEffect, Fields DEF SellerGoes, ListPlaces
<1> QED
  BY <1>1, <1>2, <1>3, <1>4, <1>5, <1>6 DEF Selling

\* A purchase fails before it has paid, or goes on for the same coupons.
Keeps(r) == /\ req'[r].by = req[r].by /\ req'[r].listing = req[r].listing
            /\ req'[r].amount = req[r].amount
BuyerGoes(r) ==
  \/ Ended(r) /\ pc[r] \in {"balance", "mintTHB", "approve", "pay"}
  \/ /\ Keeps(r)
     /\ \/ pc[r] = "balance" /\ pc'[r] = "approve" /\ req'[r] = req[r]
        \/ pc[r] = "balance" /\ pc'[r] = "mintTHB"
        \/ pc[r] = "mintTHB" /\ pc'[r] \in {"mintRow", "unrecorded"} /\ req'[r] = req[r]
        \/ pc[r] = "mintRow" /\ pc'[r] = "unrecorded" /\ req'[r] = req[r]
        \/ pc[r] = "mintRow" /\ pc'[r] = "approve" /\ req'[r].short = 0
        \/ pc[r] = "approve" /\ pc'[r] = "pay" /\ req'[r] = req[r]
        \/ pc[r] = "pay" /\ pc'[r] \in {"find", "unrecorded"} /\ req'[r] = req[r]
        \/ pc[r] = "find" /\ pc'[r] = "unrecorded" /\ req'[r] = req[r]
        \/ pc[r] = "find" /\ pc'[r] = "rows" /\ req'[r].short = req[r].short
        \/ pc[r] = "rows" /\ pc'[r] \in {"rows", "own", "unrecorded"} /\ req'[r] = req[r]
        \/ pc[r] = "own" /\ pc'[r] \in {"count", "unrecorded"} /\ req'[r] = req[r]
        \/ pc[r] = "count" /\ pc'[r] \in {"close", "uncounted"} /\ req'[r] = req[r]
        \/ pc[r] = "close" /\ pc'[r] \in {"bought", "unclosed"} /\ req'[r] = req[r]
\* What a buyer's steps do, other than buying.
LEMMA BuyerMoves ==
  ASSUME TypeOK, BuyerShape, NEW r \in Requests, Buying(r), ~Buy(r)
  PROVE  Others(r) /\ pc[r] \in BuyPlaces /\ BuyerGoes(r) /\ polite' = polite
<1>0. req[r] \in Reqs
  BY DEF TypeOK
<1>1. CASE CheckTHB(r)
  <2> DEFINE n == Cost(req[r].amount) - thb[req[r].by]
  <2>1. n > 0 => n \in Nat
    <3>1. Cost(req[r].amount) \in Nat /\ thb[req[r].by] \in Nat
      BY <1>1, CheckEffect, BuyerType, CostType DEF BuyPlaces, TypeOK
    <3> QED
      BY <3>1
  <2>2. /\ Others(r) /\ pc[r] = "balance" /\ polite' = polite
        /\ \/ Ended(r)
           \/ Stays(r) /\ pc'[r] = "approve"
           \/ pc'[r] = "mintTHB" /\ n > 0 /\ req'[r] = Lacking(req[r], n)
    BY <1>1, CheckEffect
  <2> HIDE DEF n
  <2>3. CASE pc'[r] = "mintTHB" /\ n > 0 /\ req'[r] = Lacking(req[r], n)
    <3>1. Keeps(r)
      BY <2>1, <2>3, LackingFields DEF Keeps
    <3> QED
      BY <2>2, <2>3, <3>1 DEF BuyerGoes, BuyPlaces
  <2> QED
    BY <2>2, <2>3 DEF BuyerGoes, Keeps, Stays, BuyPlaces
<1>2. CASE MintTHB(r)
  BY <1>2, MintTHBEffect DEF BuyerGoes, Keeps, Stays, BuyPlaces
<1>3. CASE RecordMint(r)
  <2>1. /\ Others(r) /\ pc[r] = "mintRow" /\ polite' = polite
        /\ \/ Stays(r) /\ pc'[r] = "unrecorded"
           \/ req'[r] = Lacking(req[r], 0) /\ pc'[r] = "approve"
    BY <1>3, RecordEffect
  <2>2. CASE req'[r] = Lacking(req[r], 0) /\ pc'[r] = "approve"
    <3>1. Keeps(r) /\ req'[r].short = 0
      BY <2>2, LackingFields DEF Keeps
    <3> QED
      BY <2>1, <2>2, <3>1 DEF BuyerGoes, BuyPlaces
  <2> QED
    BY <2>1, <2>2 DEF BuyerGoes, Keeps, Stays, BuyPlaces
<1>4. CASE Approve(r)
  BY <1>4, ApproveEffect DEF BuyerGoes, Keeps, Stays, BuyPlaces
<1>5. CASE Pay(r)
  BY <1>5, PayEffect DEF BuyerGoes, Keeps, Stays, BuyPlaces
<1>6. CASE FindCodes(r)
  <2>1. \A S \in SUBSET Unsold(req[r].listing) : S \subseteq Codes
    BY <1>6, FindEffect, BuyerType DEF Unsold, CodesOf, Codes, BuyPlaces
  <2>3. Others(r) /\ pc[r] = "find" /\ polite' = polite
    BY <1>6, FindEffect
  <2>4. CASE pc'[r] = "rows"
    <3>1. PICK S \in SUBSET Codes : req'[r] = Holding(req[r], S)
      BY <1>6, <2>1, <2>4, FindEffect
    <3> QED
      BY <2>3, <2>4, <3>1, HoldingFields DEF BuyerGoes, Keeps, BuyPlaces
  <2>5. CASE Stays(r) /\ pc'[r] = "unrecorded"
    BY <2>3, <2>5 DEF BuyerGoes, Keeps, Stays, BuyPlaces
  <2> QED
    BY <1>6, <2>4, <2>5, FindEffect
<1>7. CASE BuyRow(r)
  BY <1>7, RowEffect DEF BuyerGoes, Keeps, Stays, BuyPlaces
<1>8. CASE Own(r)
  BY <1>8, OwnEffect DEF BuyerGoes, Keeps, Stays, BuyPlaces
<1>9. CASE Count(r)
  BY <1>9, CountEffect DEF BuyerGoes, Keeps, Stays, BuyPlaces
<1>10. CASE Close(r)
  BY <1>10, CloseEffect DEF BuyerGoes, Keeps, Stays, BuyPlaces
<1> QED
  BY <1>1, <1>2, <1>3, <1>4, <1>5, <1>6, <1>7, <1>8, <1>9, <1>10 DEF Buying

\* Whose step it is.
LEMMA WhoSteps ==
  ASSUME TypeOK, BuyerShape, [Next]_vars
  PROVE  \/ UNCHANGED <<req, pc>> /\ polite' = polite
         \/ \E r \in Requests : List(r) \/ ListBatch(r)
         \/ \E r \in Requests : Buy(r)
         \/ \E r \in Requests : Selling(r) /\ ~List(r) /\ ~ListBatch(r)
         \/ \E r \in Requests : Buying(r) /\ ~Buy(r)
<1>1. ASSUME NEW m \in Merchants, MintTHBToMerchant(m)
      PROVE  UNCHANGED <<req, pc>> /\ polite' = polite
  BY <1>1, TreasuryEffect
<1>2. ASSUME UNCHANGED vars \/ (\E v \in Vouchers : CreateType(v) \/ PersistVoucher(v))
               \/ (\E m \in Merchants : Whitelist(m))
               \/ (\E W \in SUBSET Missing(Merchants) : WhitelistBatch(W))
      PROVE  UNCHANGED <<req, pc>> /\ polite' = polite
  BY <1>2, QuietEffect DEF Quiet
<1> QED
  BY <1>1, <1>2 DEF Next

\* A seller's request carries its items to the end.
LEMMA SellerShapeStep ==
  ASSUME TypeOK, SellerShape, BuyerShape, [Next]_vars
  PROVE  SellerShape'
<1> SUFFICES ASSUME NEW q \in Requests PROVE SellerShapeOf(q)'
  BY DEF SellerShape
<1>0. SellerShapeOf(q)
  BY DEF SellerShape
<1>1. ASSUME req'[q] = req[q], pc'[q] = pc[q] PROVE SellerShapeOf(q)'
  BY <1>0, <1>1 DEF SellerShapeOf
<1>2. ASSUME Ended(q) PROVE SellerShapeOf(q)'
  BY <1>2 DEF SellerShapeOf, Ended, ListPlaces
<1>3. ASSUME NEW r \in Requests, List(r) \/ ListBatch(r) PROVE SellerShapeOf(q)'
  <2>1. CASE r = q
    <3>1. PICK items \in Seq(Items), e \in BOOLEAN :
            /\ req'[q] = SellReq(items, e) /\ (~e => Len(items) = 1)
            /\ Len(items) \in 1 .. MaxItems
            /\ \A i \in DOMAIN items : items[i].amount <= Issued
      BY <1>3, <2>1, ArriveEffect
    <3>2. /\ req'[q].items = items /\ req'[q].at = 1 /\ req'[q].early = e
          /\ pc'[q] = "admit"
      BY <1>3, <2>1, <3>1, ArriveEffect DEF SellReq
    <3>3. Len(items) \in Nat
      OBVIOUS
    <3> QED
      BY <3>1, <3>2, <3>3 DEF SellerShapeOf, ListPlaces
  <2> QED
    BY <1>1, <1>3, <2>1, ArriveEffect DEF Others
<1>4. ASSUME NEW r \in Requests, Buy(r) PROVE SellerShapeOf(q)'
  <2>1. CASE r = q
    BY <1>4, <2>1, BuyEffect DEF SellerShapeOf, ListPlaces
  <2> QED
    BY <1>1, <1>4, <2>1, BuyEffect DEF Others
<1>5. ASSUME NEW r \in Requests, Selling(r), ~List(r), ~ListBatch(r) PROVE SellerShapeOf(q)'
  <2>1. CASE r = q
    <3>1. SellerGoes(q) /\ pc[q] \in ListPlaces
      BY <1>5, <2>1, SellerMoves
    <3>2. Len(req[q].items) \in Nat
      BY DEF TypeOK, Reqs
    <3> QED
      BY <1>0, <1>2, <3>1, <3>2 DEF SellerGoes, SellerShapeOf, ListPlaces
  <2> QED
    BY <1>1, <1>5, <2>1, SellerMoves DEF Others
<1>6. ASSUME NEW r \in Requests, Buying(r), ~Buy(r) PROVE SellerShapeOf(q)'
  <2>1. CASE r = q
    BY <1>2, <1>6, <2>1, BuyerMoves DEF BuyerGoes, SellerShapeOf, ListPlaces
  <2> QED
    BY <1>1, <1>6, <2>1, BuyerMoves DEF Others
<1> QED
  BY <1>1, <1>3, <1>4, <1>5, <1>6, WhoSteps

\* Who writes what.
LEMMA Writers ==
  ASSUME TypeOK, [Next]_vars
  PROVE  /\ polite' = polite
         /\ listing' = listing \/ \E r \in Requests : ListOnChain(r) \/ Pay(r)
         /\ tokens' = tokens \/ \E r \in Requests : Mint(r) \/ ListOnChain(r) \/ Pay(r)
         /\ owner' = owner \/ \E r \in Requests : CreateCodes(r) \/ Own(r)
         /\ batch' = batch \/ \E r \in Requests : CreateBatch(r) \/ Count(r) \/ Close(r)
         /\ buyRows' = buyRows \/ \E r \in Requests : BuyRow(r)
         /\ thb' = thb \/ (\E r \in Requests : MintTHB(r) \/ Pay(r))
              \/ (\E m \in Merchants : MintTHBToMerchant(m))
         /\ allowance' = allowance \/ \E r \in Requests : Approve(r) \/ Pay(r)
         /\ mintRows' = mintRows \/ \E r \in Requests : RecordMint(r)
         /\ granted' = granted \/ \E m \in Merchants : MintTHBToMerchant(m)
<1> DEFINE Written == <<polite, listing, tokens, owner, batch, buyRows, thb, allowance,
                        mintRows, granted>>
<1>1. ASSUME NEW r \in Requests,
             List(r) \/ ListBatch(r) \/ Admit(r) \/ SyncCurrency(r) \/ Buy(r)
               \/ CheckTHB(r) \/ FindCodes(r)
      PROVE  UNCHANGED Written
  BY <1>1, ArriveEffect, AdmitEffect, SyncEffect, BuyEffect, CheckEffect, FindEffect DEF Quiet
<1>2. ASSUME UNCHANGED vars \/ (\E v \in Vouchers : CreateType(v) \/ PersistVoucher(v))
               \/ (\E m \in Merchants : Whitelist(m))
               \/ (\E W \in SUBSET Missing(Merchants) : WhitelistBatch(W))
      PROVE  UNCHANGED Written
  BY <1>2, QuietEffect DEF Quiet
<1>3. ASSUME NEW r \in Requests, CreateBatch(r) \/ Count(r) \/ Close(r)
      PROVE  UNCHANGED <<polite, listing, tokens, owner, buyRows, thb, allowance,
                         mintRows, granted>>
  BY <1>3, BatchEffect, CountEffect, CloseEffect
<1>4. ASSUME NEW r \in Requests, Mint(r)
      PROVE  UNCHANGED <<polite, listing, owner, batch, buyRows, thb, allowance,
                         mintRows, granted>>
  BY <1>4, MintEffect
<1>5. ASSUME NEW r \in Requests, ListOnChain(r)
      PROVE  UNCHANGED <<polite, owner, batch, buyRows, thb, allowance, mintRows, granted>>
  BY <1>5, ListEffect
<1>6. ASSUME NEW r \in Requests, CreateCodes(r) \/ Own(r)
      PROVE  UNCHANGED <<polite, listing, tokens, batch, buyRows, thb, allowance,
                         mintRows, granted>>
  BY <1>6, CodesEffect, OwnEffect
<1>7. ASSUME NEW r \in Requests, MintTHB(r)
      PROVE  UNCHANGED <<polite, listing, tokens, owner, batch, buyRows, allowance,
                         mintRows, granted>>
  BY <1>7, MintTHBEffect
<1>8. ASSUME NEW r \in Requests, RecordMint(r)
      PROVE  UNCHANGED <<polite, listing, tokens, owner, batch, buyRows, thb, allowance,
                         granted>>
  BY <1>8, RecordEffect
<1>9. ASSUME NEW r \in Requests, Approve(r)
      PROVE  UNCHANGED <<polite, listing, tokens, owner, batch, buyRows, thb, mintRows,
                         granted>>
  BY <1>9, ApproveEffect
<1>10. ASSUME NEW r \in Requests, Pay(r)
       PROVE  UNCHANGED <<polite, owner, batch, buyRows, mintRows, granted>>
  BY <1>10, PayEffect
<1>11. ASSUME NEW r \in Requests, BuyRow(r)
       PROVE  UNCHANGED <<polite, listing, tokens, owner, batch, thb, allowance,
                          mintRows, granted>>
  BY <1>11, RowEffect
<1>12. ASSUME NEW m \in Merchants, MintTHBToMerchant(m)
       PROVE  UNCHANGED <<polite, listing, tokens, owner, batch, buyRows, allowance,
                          mintRows>>
  BY <1>12, TreasuryEffect
<1>13. UNCHANGED Written
         => UNCHANGED <<polite, listing, tokens, owner, batch, buyRows, thb, allowance,
                        mintRows, granted>>
  OBVIOUS
<1> HIDE DEF Written
<1>14. \/ UNCHANGED Written
       \/ \E m \in Merchants : MintTHBToMerchant(m)
       \/ \E r \in Requests : CreateBatch(r) \/ Count(r) \/ Close(r) \/ Mint(r)
            \/ ListOnChain(r) \/ CreateCodes(r) \/ Own(r) \/ MintTHB(r)
            \/ RecordMint(r) \/ Approve(r) \/ Pay(r) \/ BuyRow(r)
  BY <1>1, <1>2 DEF Next, Selling, Buying
<1> QED
  BY <1>3, <1>4, <1>5, <1>6, <1>7, <1>8, <1>9, <1>10, <1>11, <1>12, <1>13, <1>14

\* What is still to come was to come before.
LEMMA PendingBack ==
  ASSUME TypeOK, SellerShape, BuyerShape, [Next]_vars, NEW q \in Requests, NEW i \in Nat
  PROVE  /\ Pending(<<q, i>>)' => Pending(<<q, i>>)
         /\ Uncoded(<<q, i>>)' => Uncoded(<<q, i>>)
         /\ Unbatched(q)' => Unbatched(q)
         /\ pc'[q] \in ListPlaces => pc[q] \in ListPlaces \cup {"idle"}
<1> DEFINE Goal == /\ Pending(<<q, i>>)' => Pending(<<q, i>>)
                   /\ Uncoded(<<q, i>>)' => Uncoded(<<q, i>>)
                   /\ Unbatched(q)' => Unbatched(q)
                   /\ pc'[q] \in ListPlaces => pc[q] \in ListPlaces \cup {"idle"}
<1>a. SellerShapeOf(q)
  BY DEF SellerShape
<1>b. req[q].at \in Nat /\ <<q, i>>[1] = q /\ <<q, i>>[2] = i
  BY DEF TypeOK, Reqs
<1>1. ASSUME req'[q] = req[q], pc'[q] = pc[q] PROVE Goal
  BY <1>1, <1>b DEF Pending, Uncoded, Unbatched, Listed, Coding
<1>2. ASSUME pc'[q] \notin {"idle"} \cup ListPlaces PROVE Goal
  BY <1>2, <1>b DEF Pending, Uncoded, Unbatched, Listed, Coding, ListPlaces
<1>3. ASSUME NEW r \in Requests, List(r) \/ ListBatch(r) PROVE Goal
  <2>1. CASE r = q
    <3>1. pc[q] = "idle" /\ pc'[q] = "admit"
      BY <1>3, <2>1, ArriveEffect
    <3>2. req[q].at = 1
      BY <1>a, <3>1 DEF SellerShapeOf, NoReq
    <3>3. PICK items \in Seq(Items), e \in BOOLEAN : req'[q] = SellReq(items, e)
      BY <1>3, <2>1, ArriveEffect
    <3>4. req'[q].at = 1
      BY <3>3 DEF SellReq
    <3> QED
      BY <1>b, <3>1, <3>2, <3>4 DEF Pending, Uncoded, Unbatched, Listed, Coding, ListPlaces
  <2> QED
    BY <1>1, <1>3, <2>1, ArriveEffect DEF Others
<1>4. ASSUME NEW r \in Requests, Buy(r) PROVE Goal
  <2>1. CASE r = q
    BY <1>2, <1>4, <2>1, BuyEffect DEF ListPlaces
  <2> QED
    BY <1>1, <1>4, <2>1, BuyEffect DEF Others
<1>5. ASSUME NEW r \in Requests, Selling(r), ~List(r), ~ListBatch(r) PROVE Goal
  <2>1. CASE r = q
    <3>1. SellerGoes(q) /\ pc[q] \in ListPlaces
      BY <1>5, <2>1, SellerMoves
    <3>2. CASE Ended(q)
      BY <1>2, <3>2 DEF Ended, ListPlaces
    <3>3. CASE ~Ended(q)
      <4>1. /\ Pending(<<q, i>>)' => Pending(<<q, i>>)
            /\ Uncoded(<<q, i>>)' => Uncoded(<<q, i>>)
        BY <1>a, <1>b, <3>1, <3>3
           DEF SellerGoes, SellerShapeOf, Pending, Uncoded, Listed, Coding, ListPlaces
      <4>2. Unbatched(q)' => Unbatched(q)
        <5>1. CASE req[q].early
          BY <3>1, <3>3, <5>1 DEF SellerGoes, Unbatched
        <5>2. CASE ~req[q].early
          <6>1. Len(req[q].items) = 1 /\ req[q].at \in 1 .. Len(req[q].items)
            BY <1>a, <3>1, <5>2 DEF SellerShapeOf
          <6>2. ~(req[q].at < Len(req[q].items))
            BY <6>1
          <6> QED
            BY <3>1, <3>3, <5>2, <6>2 DEF SellerGoes, Unbatched
        <5> QED
          BY <5>1, <5>2
      <4> QED
        BY <3>1, <4>1, <4>2
    <3> QED
      BY <3>2, <3>3
  <2> QED
    BY <1>1, <1>5, <2>1, SellerMoves DEF Others
<1>6. ASSUME NEW r \in Requests, Buying(r), ~Buy(r) PROVE Goal
  <2>1. CASE r = q
    BY <1>2, <1>6, <2>1, BuyerMoves DEF BuyerGoes, Ended, ListPlaces
  <2> QED
    BY <1>1, <1>6, <2>1, BuyerMoves DEF Others
<1> QED
  BY <1>1, <1>3, <1>4, <1>5, <1>6, WhoSteps

\* A listing is for one voucher, and only its sales take from it.
LEMMA ListingSteps ==
  ASSUME TypeOK, SellerShape, BuyerShape, Fresh, [Next]_vars, NEW l \in Listings
  PROVE  /\ listing[l].voucher \in Vouchers => listing'[l].voucher = listing[l].voucher
         /\ listing'[l].left > 0 => listing'[l].voucher \in Vouchers
<1>0. listing \in [Listings -> OnChain] /\ listing[l].left \in Nat
  BY DEF TypeOK, OnChain
<1>1. CASE listing' = listing
  BY <1>1 DEF Fresh
<1>2. ASSUME NEW r \in Requests, Pay(r), listing' # listing
      PROVE  /\ listing[l].voucher \in Vouchers => listing'[l].voucher = listing[l].voucher
             /\ listing'[l].left > 0 => listing'[l].voucher \in Vouchers
  <2>1. /\ req[r].listing \in Listings /\ req[r].amount \in Nat
        /\ listing[req[r].listing].voucher \in Vouchers
    BY <1>2, PayEffect, BuyerType DEF BuyPlaces
  <2>2. listing' = [listing EXCEPT ![req[r].listing] =
                      [voucher |-> @.voucher, left |-> @.left - req[r].amount]]
    BY <1>2, PayEffect DEF Sell
  <2>3. CASE l = req[r].listing
    BY <1>0, <2>1, <2>2, <2>3
  <2>4. CASE l # req[r].listing
    BY <1>0, <2>2, <2>4 DEF Fresh
  <2> QED
    BY <2>3, <2>4
<1>3. ASSUME NEW r \in Requests, ListOnChain(r), listing' # listing
      PROVE  /\ listing[l].voucher \in Vouchers => listing'[l].voucher = listing[l].voucher
             /\ listing'[l].left > 0 => listing'[l].voucher \in Vouchers
  <2>1. /\ Here(r) \in Listings /\ Here(r)[1] = r /\ Here(r)[2] = req[r].at
        /\ Item(r).voucher \in Vouchers /\ pc[r] = "list"
    BY <1>3, ListEffect, ItemType DEF ListPlaces
  <2>2. listing[Here(r)] = NoListing
    <3>1. req[r].at \in Nat
      BY DEF TypeOK, Reqs
    <3>2. Pending(Here(r))
      BY <2>1, <3>1 DEF Pending, Listed, ListPlaces
    <3> QED
      BY <2>1, <3>2 DEF Fresh
  <2>3. listing' = [listing EXCEPT ![Here(r)] =
                      [voucher |-> Item(r).voucher, left |-> Item(r).amount]]
    BY <1>3, ListEffect
  <2>4. listing[Here(r)].voucher \notin Vouchers
    BY <2>2, Different DEF NoListing
  <2>5. CASE l = Here(r)
    BY <1>0, <2>1, <2>3, <2>4, <2>5
  <2>6. CASE l # Here(r)
    BY <1>0, <2>3, <2>6 DEF Fresh
  <2> QED
    BY <2>5, <2>6
<1> QED
  BY <1>1, <1>2, <1>3, Writers

\* A merchant's request is for coupons of a listing to the end.
LEMMA BuyerShapeStep ==
  ASSUME TypeOK, SellerShape, BuyerShape, Fresh, [Next]_vars
  PROVE  BuyerShape'
<1> SUFFICES ASSUME NEW q \in Requests PROVE BuyerShapeOf(q)'
  BY DEF BuyerShape
<1>0. BuyerShapeOf(q)
  BY DEF BuyerShape
<1>v. \A l \in Listings : listing[l].voucher \in Vouchers => listing'[l].voucher \in Vouchers
  BY ListingSteps
<1>1. ASSUME req'[q] = req[q], pc'[q] = pc[q] PROVE BuyerShapeOf(q)'
  BY <1>0, <1>1, <1>v DEF BuyerShapeOf
<1>2. ASSUME pc'[q] \notin BuyPlaces \cup BuyEnds PROVE BuyerShapeOf(q)'
  BY <1>2 DEF BuyerShapeOf
<1>3. ASSUME NEW r \in Requests, List(r) \/ ListBatch(r) PROVE BuyerShapeOf(q)'
  <2>1. CASE r = q
    BY <1>2, <1>3, <2>1, ArriveEffect DEF BuyPlaces, BuyEnds
  <2> QED
    BY <1>1, <1>3, <2>1, ArriveEffect DEF Others
<1>4. ASSUME NEW r \in Requests, Buy(r) PROVE BuyerShapeOf(q)'
  <2>1. CASE r = q
    <3>1. PICK m \in Merchants, l \in Listings, n \in 1 .. Issued :
            Active(l) /\ req'[q] = BuyReq(m, l, n)
      BY <1>4, <2>1, BuyEffect
    <3>2. listing[l].voucher \in Vouchers
      BY <3>1 DEF Active, Fresh
    <3>3. /\ req'[q].by = m /\ req'[q].listing = l /\ req'[q].amount = n
          /\ req'[q].short = 0
      BY <3>1 DEF BuyReq
    <3> QED
      BY <1>v, <3>2, <3>3 DEF BuyerShapeOf
  <2> QED
    BY <1>1, <1>4, <2>1, BuyEffect DEF Others
<1>5. ASSUME NEW r \in Requests, Selling(r), ~List(r), ~ListBatch(r) PROVE BuyerShapeOf(q)'
  <2>1. CASE r = q
    <3>1. pc'[q] \notin BuyPlaces \cup BuyEnds
      BY <1>5, <2>1, SellerMoves DEF SellerGoes, Ended, BuyPlaces, BuyEnds, ListPlaces
    <3> QED
      BY <1>2, <3>1
  <2> QED
    BY <1>1, <1>5, <2>1, SellerMoves DEF Others
<1>6. ASSUME NEW r \in Requests, Buying(r), ~Buy(r) PROVE BuyerShapeOf(q)'
  <2>1. CASE r = q
    <3>1. BuyerGoes(q) /\ pc[q] \in BuyPlaces
      BY <1>6, <2>1, BuyerMoves
    <3>2. CASE Ended(q)
      BY <1>2, <3>2 DEF Ended, BuyPlaces, BuyEnds
    <3>3. CASE ~Ended(q)
      <4>1. Keeps(q)
        BY <3>1, <3>3 DEF BuyerGoes
      <4>2. pc'[q] \in BuyPlaces \ {"mintTHB", "mintRow"} => req'[q].short = 0
        BY <1>0, <3>1, <3>3 DEF BuyerGoes, BuyerShapeOf, BuyPlaces
      <4> QED
        BY <1>0, <1>v, <3>1, <4>1, <4>2 DEF BuyerShapeOf, Keeps
    <3> QED
      BY <3>2, <3>3
  <2> QED
    BY <1>1, <1>6, <2>1, BuyerMoves DEF Others
<1> QED
  BY <1>1, <1>3, <1>4, <1>5, <1>6, WhoSteps

-----------------------------------------------------------------------------
(* Nothing is there before its time; every code has a batch.               *)

\* A purchase that has picked its codes counts for a batch that is there.
LEMMA PickedBatch ==
  ASSUME TypeOK, BuyerShape, Batched, Held, NEW r \in Running(Picked)
  PROVE  batch[BatchOf(r)] # NoBatch
<1>0. r \in Requests /\ pc[r] \in BuyPlaces \cup BuyEnds
  BY DEF Running, Picked, BuyPlaces, BuyEnds
<1>1. /\ req[r].amount \in Nat /\ req[r].amount >= 1
      /\ req[r].listing \in Listings
  BY <1>0, BuyerType
<1>2. /\ req[r].held \subseteq CodesOf(req[r].listing)
      /\ \A c \in req[r].held : owner[c] # Absent
      /\ Cardinality(req[r].held) = req[r].amount
  BY DEF Held
<1>3. req[r].held # {}
  BY <1>1, <1>2, FS_EmptySet
<1>4. PICK c \in req[r].held : TRUE
  BY <1>3
<1>5. c \in Codes /\ c[1] = req[r].listing
  BY <1>1, <1>2 DEF CodesOf, Codes
<1> QED
  BY <1>2, <1>4, <1>5 DEF Batched, BatchOf

\* Nothing is there before its time.
LEMMA FreshStep ==
  ASSUME TypeOK, TypeOK', SellerShape, BuyerShape, Fresh, Batched, Held, [Next]_vars
  PROVE  Fresh'
<1>0. /\ listing \in [Listings -> OnChain] /\ batch \in [Requests -> Batches]
      /\ owner \in [Codes -> Merchants \cup {None, Absent}]
  BY DEF TypeOK
<1>b. ASSUME NEW l \in Listings
      PROVE  /\ l[1] \in Requests /\ l[2] \in Nat
             /\ Pending(l)' => Pending(l)
             /\ Uncoded(l)' => Uncoded(l)
  <2>1. l = <<l[1], l[2]>> /\ l[1] \in Requests /\ l[2] \in Nat
    BY <1>b, Bounds DEF Listings
  <2>2. /\ Pending(<<l[1], l[2]>>)' => Pending(<<l[1], l[2]>>)
        /\ Uncoded(<<l[1], l[2]>>)' => Uncoded(<<l[1], l[2]>>)
    BY <2>1, PendingBack
  <2> QED
    BY <2>1, <2>2
<1>1. ASSUME NEW l \in Listings, Pending(l)' PROVE listing'[l] = NoListing
  <2>1. Pending(l) /\ listing[l] = NoListing
    BY <1>1, <1>b DEF Fresh
  <2>2. CASE listing' = listing
    BY <2>1, <2>2
  <2>3. ASSUME NEW r \in Requests, Pay(r), listing' # listing PROVE listing'[l] = NoListing
    <3>1. listing[req[r].listing].voucher \in Vouchers
      BY <2>3, PayEffect, BuyerType DEF BuyPlaces
    <3>2. l # req[r].listing
      BY <2>1, <3>1, Different DEF NoListing
    <3>3. listing' = [listing EXCEPT ![req[r].listing] =
                        [voucher |-> @.voucher, left |-> @.left - req[r].amount]]
      BY <2>3, PayEffect DEF Sell
    <3> QED
      BY <1>0, <2>1, <3>2, <3>3
  <2>4. ASSUME NEW r \in Requests, ListOnChain(r), listing' # listing PROVE listing'[l] = NoListing
    <3>1. Here(r)[1] = r /\ Here(r)[2] = req[r].at /\ req[r].at \in Nat
      BY <2>4 DEF Here, TypeOK, Reqs
    <3>2. l # Here(r)
      <4> SUFFICES ASSUME l = Here(r) PROVE FALSE
        OBVIOUS
      <4>1. Ended(r) \/ (Stays(r) /\ pc'[r] = IF req[r].early THEN "codes" ELSE "batch")
        BY <2>4, ListEffect
      <4>2. CASE Ended(r)
        BY <1>1, <3>1, <4>2 DEF Pending, Ended, ListPlaces
      <4>3. CASE Stays(r) /\ pc'[r] = IF req[r].early THEN "codes" ELSE "batch"
        BY <1>1, <3>1, <4>3 DEF Pending, Listed, Stays, ListPlaces
      <4> QED
        BY <4>1, <4>2, <4>3
    <3>3. listing' = [listing EXCEPT ![Here(r)] =
                        [voucher |-> Item(r).voucher, left |-> Item(r).amount]]
      BY <2>4, ListEffect
    <3> QED
      BY <1>0, <2>1, <3>2, <3>3
  <2> QED
    BY <2>2, <2>3, <2>4, Writers
<1>2. \A l \in Listings : listing'[l].left > 0 => listing'[l].voucher \in Vouchers
  BY ListingSteps
<1>3. ASSUME NEW c \in Codes, Uncoded(c[1])' PROVE owner'[c] = Absent
  <2>0. c[1] \in Listings
    BY DEF Codes
  <2>1. Uncoded(c[1]) /\ owner[c] = Absent
    BY <1>3, <1>b, <2>0 DEF Fresh
  <2>2. CASE owner' = owner
    BY <2>1, <2>2
  <2>3. ASSUME NEW r \in Requests, CreateCodes(r), owner' # owner PROVE owner'[c] = Absent
    <3>1. /\ pc'[r] = "sync" /\ Stays(r) /\ pc[r] = "codes"
          /\ owner' = [d \in Codes |->
               IF d[1] = Here(r) /\ d[2] <= Item(r).amount THEN None ELSE owner[d]]
      BY <2>3, CodesEffect
    <3>2. Here(r)[1] = r /\ Here(r)[2] = req[r].at /\ req[r].at \in Nat
      BY DEF Here, TypeOK, Reqs
    <3>3. c[1] # Here(r)
      <4> SUFFICES ASSUME c[1] = Here(r) PROVE FALSE
        OBVIOUS
      <4>1. pc'[c[1][1]] = "sync" /\ c[1][2] = req'[c[1][1]].at /\ req'[c[1][1]].at \in Nat
        BY <3>1, <3>2 DEF Stays
      <4> QED
        BY <1>3, <4>1 DEF Uncoded, Pending, Listed, Coding, ListPlaces
    <3> QED
      BY <2>1, <3>1, <3>3
  <2>4. ASSUME NEW r \in Requests, Own(r), owner' # owner PROVE owner'[c] = Absent
    <3>1. c \notin req[r].held
      BY <2>1, <2>4, OwnEffect DEF Held, Running, Picked
    <3> QED
      BY <2>1, <2>4, <3>1, OwnEffect
  <2> QED
    BY <2>2, <2>3, <2>4, Writers
<1>4. ASSUME NEW q \in Requests, Unbatched(q)' PROVE batch'[q] = NoBatch
  <2>1. Unbatched(q) /\ batch[q] = NoBatch
    BY <1>4, PendingBack DEF Fresh
  <2>2. CASE batch' = batch
    BY <2>1, <2>2
  <2>3. ASSUME NEW r \in Requests, CreateBatch(r), batch' # batch PROVE batch'[q] = NoBatch
    <3>1. /\ Stays(r) /\ pc'[r] = IF req[r].early THEN "mint" ELSE "codes"
          /\ batch' = [batch EXCEPT ![r] = NewBatch(TotalOf(req[r].items))]
      BY <2>3, BatchEffect
    <3>2. q # r
      BY <1>4, <3>1 DEF Unbatched, Stays
    <3> QED
      BY <1>0, <2>1, <3>1, <3>2
  <2>4. ASSUME NEW r \in Requests, Count(r) \/ Close(r), batch' # batch PROVE batch'[q] = NoBatch
    <3>1. pc[r] \in {"count", "close"}
      BY <2>4, CountEffect, CloseEffect
    <3>2. r \in Running(Picked)
      BY <3>1 DEF Running, Picked
    <3>3. BatchOf(r) # q
      BY <2>1, <3>2, PickedBatch
    <3> QED
      BY <1>0, <2>1, <2>4, <3>3, CountEffect, CloseEffect
  <2> QED
    BY <2>2, <2>3, <2>4, Writers
<1> QED
  BY <1>1, <1>2, <1>3, <1>4 DEF Fresh

\* The items of a seller's request are worth something.
LEMMA TotalPositive ==
  ASSUME TypeOK, SellerShape, NEW r \in Requests, pc[r] \in ListPlaces
  PROVE  TotalOf(req[r].items) \in Nat /\ TotalOf(req[r].items) >= 1
<1> DEFINE f == [i \in DOMAIN req[r].items |-> req[r].items[i].amount]
           j == req[r].at
<1>1. req[r].items \in Seq(Items) /\ j \in DOMAIN req[r].items
  BY DEF TypeOK, Reqs, SellerShape, SellerShapeOf
<1>2. Tallied(f)
  <2>1. Len(req[r].items) \in Nat /\ DOMAIN req[r].items = 1 .. Len(req[r].items)
    BY <1>1
  <2>2. IsFiniteSet(DOMAIN req[r].items)
    BY <2>1, FS_Interval
  <2>3. \A i \in DOMAIN req[r].items : req[r].items[i] \in Items
    BY <1>1
  <2>4. \A i \in Items : i.amount \in Nat
    BY Bounds DEF Items
  <2> QED
    BY <2>2, <2>3, <2>4 DEF Tallied
<1>3. f[j] >= 1 /\ f[j] \in Nat
  BY <1>1, ItemType DEF Item
<1>4. f[j] <= Tally(f)
  BY <1>1, <1>2, TallyMember
<1>5. Tally(f) \in Nat
  BY <1>2, TallyType
<1>6. Tally(f) >= 1
  BY <1>3, <1>4, <1>5
<1> QED
  BY <1>5, <1>6 DEF TotalOf

\* A batch is created once, with the total of the items, and keeps it.
LEMMA BatchSteps ==
  ASSUME TypeOK, SellerShape, BuyerShape, Fresh, Batched, Held, [Next]_vars,
         NEW q \in Requests
  PROVE  /\ batch[q] # NoBatch => batch'[q].total = batch[q].total /\ batch'[q] # NoBatch
         /\ batch[q] = NoBatch /\ batch'[q] # NoBatch =>
              /\ CreateBatch(q) /\ batch'[q] = NewBatch(TotalOf(req[q].items))
<1>0. batch \in [Requests -> Batches]
  BY DEF TypeOK
<1>1. CASE batch' = batch
  BY <1>1
<1>2. ASSUME NEW r \in Requests, CreateBatch(r), batch' # batch
      PROVE  batch' = [batch EXCEPT ![r] = NewBatch(TotalOf(req[r].items))]
             /\ batch[r] = NoBatch
  <2>1. pc[r] = "batch"
    BY <1>2, BatchEffect
  <2>2. Unbatched(r)
    BY <2>1 DEF Unbatched
  <2> QED
    BY <1>2, <2>2, BatchEffect DEF Fresh
<1>3. ASSUME NEW r \in Requests, CreateBatch(r), batch' # batch
      PROVE  /\ batch[q] # NoBatch => batch'[q].total = batch[q].total /\ batch'[q] # NoBatch
             /\ batch[q] = NoBatch /\ batch'[q] # NoBatch =>
                  /\ CreateBatch(q) /\ batch'[q] = NewBatch(TotalOf(req[q].items))
  BY <1>0, <1>2, <1>3
<1>4. ASSUME NEW r \in Requests, Count(r) \/ Close(r), batch' # batch
      PROVE  /\ batch[q] # NoBatch => batch'[q].total = batch[q].total /\ batch'[q] # NoBatch
             /\ batch[q] = NoBatch => batch'[q] = NoBatch
  <2>1. r \in Running(Picked)
    BY <1>4, CountEffect, CloseEffect DEF Running, Picked
  <2>2. batch[BatchOf(r)] # NoBatch
    BY <2>1, PickedBatch
  <2>3. \E n, b : batch' = [batch EXCEPT ![BatchOf(r)] =
                              [total |-> @.total, sold |-> n, soldOut |-> b]]
    BY <1>4, CountEffect, CloseEffect
  <2>4. batch[q] # NoBatch => batch[q].total >= 1
    BY DEF Batched
  <2>5. CASE q # BatchOf(r)
    BY <1>0, <2>3, <2>5
  <2>6. CASE q = BatchOf(r)
    <3>1. batch'[q].total = batch[q].total
      BY <1>0, <2>3, <2>6
    <3> QED
      BY <2>2, <2>4, <2>6, <3>1 DEF NoBatch, NewBatch
  <2> QED
    BY <2>5, <2>6
<1> QED
  BY <1>1, <1>3, <1>4, Writers

\* Every batch has the total of its items, and every code has a batch.
LEMMA BatchedStep ==
  ASSUME TypeOK, TypeOK', SellerShape, BuyerShape, Fresh, Batched, Held, [Next]_vars
  PROVE  Batched'
<1>1. ASSUME NEW q \in Requests, batch'[q] # NoBatch PROVE batch'[q].total >= 1
  <2>1. CASE batch[q] # NoBatch
    BY <1>1, <2>1, BatchSteps DEF Batched
  <2>2. CASE batch[q] = NoBatch
    <3>1. CreateBatch(q) /\ batch'[q] = NewBatch(TotalOf(req[q].items))
      BY <1>1, <2>2, BatchSteps
    <3>2. TotalOf(req[q].items) >= 1
      BY <3>1, BatchEffect, TotalPositive DEF ListPlaces
    <3> QED
      BY <3>1, <3>2 DEF NewBatch
  <2> QED
    BY <2>1, <2>2
<1>2. ASSUME NEW q \in Requests, pc'[q] \in ListPlaces, ~Unbatched(q)'
      PROVE  batch'[q].total = TotalOf(req'[q].items)
  <2>1. ASSUME batch'[q] # batch[q] \/ ~Unbatched(q), pc[q] \in ListPlaces,
               req'[q].items = req[q].items
        PROVE  batch'[q].total = TotalOf(req'[q].items)
    <3>1. CASE ~Unbatched(q)
      <4>1. batch[q].total = TotalOf(req[q].items) /\ TotalOf(req[q].items) >= 1
        BY <2>1, <3>1, TotalPositive DEF Batched
      <4>2. batch[q] # NoBatch
        BY <4>1 DEF NoBatch, NewBatch
      <4> QED
        BY <2>1, <4>1, <4>2, BatchSteps
    <3>2. CASE Unbatched(q)
      <4>1. batch[q] = NoBatch
        BY <3>2 DEF Fresh
      <4>2. batch'[q] = NewBatch(TotalOf(req[q].items))
        BY <2>1, <3>2, <4>1, BatchSteps
      <4> QED
        BY <2>1, <4>2 DEF NewBatch
    <3> QED
      BY <3>1, <3>2
  <2>2. CASE req'[q] = req[q] /\ pc'[q] = pc[q]
    BY <1>2, <2>1, <2>2 DEF Unbatched
  <2>3. ASSUME NEW r \in Requests, List(r) \/ ListBatch(r)
        PROVE  batch'[q].total = TotalOf(req'[q].items)
    BY <1>2, <2>2, <2>3, ArriveEffect DEF Others, Unbatched
  <2>4. ASSUME NEW r \in Requests, Buy(r)
        PROVE  batch'[q].total = TotalOf(req'[q].items)
    BY <1>2, <2>2, <2>4, BuyEffect DEF Others, ListPlaces
  <2>5. ASSUME NEW r \in Requests, Selling(r), ~List(r), ~ListBatch(r)
        PROVE  batch'[q].total = TotalOf(req'[q].items)
    <3>1. CASE r = q
      <4>1. SellerGoes(q) /\ pc[q] \in ListPlaces /\ ~Ended(q)
        BY <1>2, <2>5, <3>1, SellerMoves DEF Ended, ListPlaces
      <4>2. req'[q].items = req[q].items
        BY <4>1 DEF SellerGoes
      <4>3. CASE Unbatched(q)
        <5>1. pc[q] = "batch" /\ req'[q] = req[q]
          BY <1>2, <4>1, <4>3 DEF SellerGoes, Unbatched
        <5>2. CreateBatch(q)
          <6>1. ~Admit(q) /\ ~Mint(q) /\ ~ListOnChain(q) /\ ~CreateCodes(q) /\ ~SyncCurrency(q)
            BY <5>1, AdmitEffect, MintEffect, ListEffect, CodesEffect, SyncEffect
          <6> QED
            BY <2>5, <3>1, <6>1 DEF Selling
        <5>3. batch' = [batch EXCEPT ![q] = NewBatch(TotalOf(req[q].items))]
          BY <4>1, <5>2, BatchEffect
        <5>4. batch \in [Requests -> Batches]
          BY DEF TypeOK
        <5> QED
          BY <4>2, <5>3, <5>4 DEF NewBatch
      <4> QED
        BY <2>1, <4>1, <4>2, <4>3
    <3> QED
      BY <2>2, <2>5, <3>1, SellerMoves DEF Others
  <2>6. ASSUME NEW r \in Requests, Buying(r), ~Buy(r)
        PROVE  batch'[q].total = TotalOf(req'[q].items)
    <3>1. CASE r = q
      BY <1>2, <2>6, <3>1, BuyerMoves DEF BuyerGoes, Ended, ListPlaces
    <3> QED
      BY <2>2, <2>6, <3>1, BuyerMoves DEF Others
  <2> QED
    BY <2>2, <2>3, <2>4, <2>5, <2>6, WhoSteps
<1>3. ASSUME NEW c \in Codes, owner'[c] # Absent PROVE batch'[c[1][1]] # NoBatch
  <2>0. c[1][1] \in Requests
    BY DEF Codes, Listings
  <2>1. CASE owner[c] # Absent
    BY <2>0, <2>1, BatchSteps DEF Batched
  <2>2. CASE owner[c] = Absent
    <3>1. ASSUME NEW r \in Requests, Own(r) PROVE owner'[c] = Absent
      <4>1. c \notin req[r].held
        BY <2>2, <3>1, OwnEffect DEF Held, Running, Picked
      <4> QED
        BY <2>2, <3>1, <4>1, OwnEffect
    <3>2. PICK r \in Requests : CreateCodes(r)
      BY <1>3, <2>2, <3>1, Writers
    <3>3. /\ pc[r] = "codes"
          /\ owner' = [d \in Codes |->
               IF d[1] = Here(r) /\ d[2] <= Item(r).amount THEN None ELSE owner[d]]
      BY <1>3, <2>2, <3>2, CodesEffect
    <3>4. c[1][1] = r
      BY <1>3, <2>2, <3>3 DEF Here
    <3>5. batch[r].total = TotalOf(req[r].items) /\ TotalOf(req[r].items) >= 1
      BY <3>3, TotalPositive DEF Batched, Unbatched, ListPlaces
    <3>6. batch[r] # NoBatch
      BY <3>5 DEF NoBatch, NewBatch
    <3> QED
      BY <3>4, <3>6, BatchSteps
  <2> QED
    BY <2>1, <2>2
<1> QED
  BY <1>1, <1>2, <1>3 DEF Batched

\* A code that is there stays there, and only Own gives it to somebody.
LEMMA OwnerSteps ==
  ASSUME TypeOK, SellerShape, BuyerShape, Fresh, Held, [Next]_vars, NEW c \in Codes
  PROVE  /\ owner[c] # Absent => owner'[c] # Absent
         /\ owner[c] # Absent /\ (\A r \in Requests : ~Own(r)) => owner'[c] = owner[c]
         /\ owner[c] = Absent => owner'[c] \in {Absent, None}
<1>1. CASE owner' = owner
  BY <1>1
<1>2. ASSUME NEW r \in Requests, CreateCodes(r), owner' # owner
      PROVE  /\ owner[c] # Absent => owner'[c] = owner[c]
             /\ owner[c] = Absent => owner'[c] \in {Absent, None}
  <2>1. /\ pc[r] = "codes" /\ req[r].at \in Nat
        /\ owner' = [d \in Codes |->
             IF d[1] = Here(r) /\ d[2] <= Item(r).amount THEN None ELSE owner[d]]
    BY <1>2, CodesEffect DEF TypeOK, Reqs
  <2>2. Uncoded(Here(r))
    BY <2>1 DEF Uncoded, Coding, Listed, Here
  <2> QED
    BY <2>1, <2>2 DEF Fresh
<1>3. ASSUME NEW r \in Requests, Own(r), owner' # owner
      PROVE  /\ owner[c] # Absent => owner'[c] # Absent
             /\ owner[c] = Absent => owner'[c] = Absent
  <2>1. /\ req[r].by \in Merchants /\ r \in Running(Picked)
        /\ owner' = [d \in Codes |-> IF d \in req[r].held THEN req[r].by ELSE owner[d]]
    BY <1>3, OwnEffect, BuyerType DEF BuyPlaces, Running, Picked
  <2>2. Absent \notin Merchants
    BY Different DEF Absent
  <2> QED
    BY <2>1, <2>2 DEF Held
<1> QED
  BY <1>1, <1>2, <1>3, Writers

\* Picked codes stay picked.
LEMMA HeldStep ==
  ASSUME TypeOK, SellerShape, BuyerShape, Fresh, Held, [Next]_vars
  PROVE  Held'
<1> DEFINE Fine(q) == /\ req[q].held \subseteq CodesOf(req[q].listing)
                      /\ \A c \in req[q].held : owner[c] # Absent
                      /\ Cardinality(req[q].held) = req[q].amount
<1> SUFFICES ASSUME NEW q \in Requests, pc'[q] \in Picked PROVE Fine(q)'
  BY DEF Held, Running
<1>1. ASSUME req'[q] = req[q], pc[q] \in Picked PROVE Fine(q)'
  <2>1. Fine(q)
    BY <1>1 DEF Held, Running
  <2>2. req[q].held \subseteq Codes
    BY DEF TypeOK, Reqs
  <2> QED
    BY <1>1, <2>1, <2>2, OwnerSteps DEF CodesOf
<1>2. ASSUME NEW r \in Requests, List(r) \/ ListBatch(r) PROVE Fine(q)'
  BY <1>1, <1>2, ArriveEffect DEF Others, Picked
<1>3. ASSUME NEW r \in Requests, Buy(r) PROVE Fine(q)'
  BY <1>1, <1>3, BuyEffect DEF Others, Picked
<1>4. ASSUME NEW r \in Requests, Selling(r), ~List(r), ~ListBatch(r) PROVE Fine(q)'
  <2>1. r # q
    BY <1>4, SellerMoves DEF SellerGoes, Ended, ListPlaces, Picked
  <2> QED
    BY <1>1, <1>4, <2>1, SellerMoves DEF Others
<1>5. ASSUME NEW r \in Requests, Buying(r), ~Buy(r) PROVE Fine(q)'
  <2>1. CASE r # q
    BY <1>1, <1>5, <2>1, BuyerMoves DEF Others
  <2>2. CASE r = q /\ pc[q] # "find"
    <3>1. pc[q] \in Picked /\ req'[q] = req[q]
      BY <1>5, <2>2, BuyerMoves DEF BuyerGoes, Ended, Picked
    <3> QED
      BY <1>1, <3>1
  <2>3. CASE r = q /\ pc[q] = "find"
    <3>1. FindCodes(q)
      BY <1>5, <2>3, CheckEffect, MintTHBEffect, RecordEffect, ApproveEffect, PayEffect,
         RowEffect, OwnEffect, CountEffect, CloseEffect DEF Buying
    <3>2. PICK S \in SUBSET Unsold(req[q].listing) :
            Cardinality(S) = req[q].amount /\ req'[q] = Holding(req[q], S)
      BY <3>1, FindEffect DEF Picked
    <3>3. req[q].listing \in Listings /\ owner' = owner
      BY <2>3, <3>1, FindEffect, BuyerType DEF BuyPlaces
    <3>4. S \subseteq CodesOf(req[q].listing) /\ S \subseteq Codes
      BY <3>2, <3>3 DEF Unsold, CodesOf, Codes
    <3>5. /\ req'[q].held = S /\ req'[q].listing = req[q].listing
          /\ req'[q].amount = req[q].amount
      BY <3>2, <3>4, HoldingFields
    <3>6. \A c \in S : owner'[c] # Absent
      BY <3>2, <3>3, Different DEF Unsold, Absent
    <3> QED
      BY <3>2, <3>4, <3>5, <3>6 DEF CodesOf
  <2> QED
    BY <2>1, <2>2, <2>3
<1> QED
  BY <1>1, <1>2, <1>3, <1>4, <1>5, WhoSteps

\* A request has a row for each of the codes it has picked, in the end.
LEMMA RecordedStep ==
  ASSUME TypeOK, SellerShape, BuyerShape, Held, Recorded, [Next]_vars
  PROVE  Recorded'
<1> DEFINE Fine(q) ==
      /\ pc[q] \notin Picked \cup {"unrecorded"} => buyRows[q] = {}
      /\ pc[q] = "rows" => buyRows[q] \subseteq req[q].held /\ buyRows[q] # req[q].held
      /\ pc[q] \in Picked \ {"rows"} => buyRows[q] = req[q].held
<1> SUFFICES ASSUME NEW q \in Requests PROVE Fine(q)'
  BY DEF Recorded
<1>0. Fine(q) /\ buyRows \in [Requests -> SUBSET Codes]
  BY DEF Recorded, TypeOK
<1>1. ASSUME NEW r \in Requests, BuyRow(r) PROVE Fine(q)'
  <2>1. /\ Others(r) /\ Stays(r) /\ pc[r] = "rows"
        /\ \/ pc'[r] = "unrecorded" /\ buyRows' = buyRows
           \/ /\ buyRows' = [buyRows EXCEPT ![r] = @ \cup {First(req[r].held \ @)}]
              /\ pc'[r] = IF buyRows'[r] = req[r].held THEN "own" ELSE "rows"
    BY <1>1, RowEffect
  <2>2. CASE q # r
    BY <1>0, <2>1, <2>2 DEF Others
  <2>3. CASE q = r
    <3>1. buyRows[r] \subseteq req[r].held /\ req[r].held \ buyRows[r] # {}
      BY <1>0, <2>1, <2>3
    <3>2. req[r].held \subseteq CodesOf(req[r].listing)
      BY <2>1 DEF Held, Running, Picked
    <3>3. First(req[r].held \ buyRows[r]) \in req[r].held
      BY <3>1, <3>2, FirstType
    <3>4. CASE pc'[r] = "unrecorded"
      BY <2>3, <3>4 DEF Picked
    <3>5. CASE /\ buyRows' = [buyRows EXCEPT ![r] = @ \cup {First(req[r].held \ @)}]
               /\ pc'[r] = IF buyRows'[r] = req[r].held THEN "own" ELSE "rows"
      <4>1. buyRows'[r] = buyRows[r] \cup {First(req[r].held \ buyRows[r])}
        BY <1>0, <3>5
      <4>2. buyRows'[r] \subseteq req[r].held /\ req'[r] = req[r]
        BY <2>1, <3>1, <3>3, <4>1 DEF Stays
      <4> QED
        BY <2>3, <3>5, <4>2 DEF Picked
    <3> QED
      BY <2>1, <3>4, <3>5
  <2> QED
    BY <2>2, <2>3
<1>2. ASSUME ~\E r \in Requests : BuyRow(r) PROVE Fine(q)'
  <2>0. buyRows' = buyRows
    BY <1>2, Writers
  <2>1. ASSUME req'[q] = req[q], pc'[q] = pc[q] PROVE Fine(q)'
    BY <1>0, <2>0, <2>1
  <2>2. ASSUME pc[q] \notin Picked \cup {"unrecorded"}, pc'[q] \notin Picked PROVE Fine(q)'
    BY <1>0, <2>0, <2>2 DEF Picked
  <2>3. ASSUME NEW r \in Requests, List(r) \/ ListBatch(r) PROVE Fine(q)'
    BY <2>1, <2>2, <2>3, ArriveEffect DEF Others, Picked
  <2>4. ASSUME NEW r \in Requests, Buy(r) PROVE Fine(q)'
    BY <2>1, <2>2, <2>4, BuyEffect DEF Others, Picked
  <2>5. ASSUME NEW r \in Requests, Selling(r), ~List(r), ~ListBatch(r) PROVE Fine(q)'
    <3>1. CASE r = q
      BY <2>2, <2>5, <3>1, SellerMoves DEF SellerGoes, Ended, ListPlaces, Picked
    <3> QED
      BY <2>1, <2>5, <3>1, SellerMoves DEF Others
  <2>6. ASSUME NEW r \in Requests, Buying(r), ~Buy(r) PROVE Fine(q)'
    <3>1. CASE r # q
      BY <2>1, <2>6, <3>1, BuyerMoves DEF Others
    <3>2. CASE r = q /\ pc[q] = "find"
      <4>1. FindCodes(q)
        BY <2>6, <3>2, CheckEffect, MintTHBEffect, RecordEffect, ApproveEffect, PayEffect,
           RowEffect, OwnEffect, CountEffect, CloseEffect DEF Buying
      <4>2. CASE pc'[q] = "rows"
        <5>1. PICK S \in SUBSET Unsold(req[q].listing) :
                Cardinality(S) = req[q].amount /\ req'[q] = Holding(req[q], S)
          BY <4>1, <4>2, FindEffect
        <5>2. req[q].listing \in Listings /\ req[q].amount >= 1 /\ req[q].amount \in Nat
          BY <3>2, BuyerType DEF BuyPlaces
        <5>3. S \subseteq Codes
          BY <5>2 DEF Unsold, CodesOf, Codes
        <5>4. req'[q].held = S
          BY <5>1, <5>3, HoldingFields
        <5>5. S # {}
          BY <5>1, <5>2, FS_EmptySet
        <5> QED
          BY <1>0, <2>0, <3>2, <4>2, <5>4, <5>5 DEF Picked
      <4>3. CASE pc'[q] = "unrecorded"
        BY <4>3 DEF Picked
      <4> QED
        BY <4>1, <4>2, <4>3, FindEffect
    <3>3. CASE r = q /\ pc[q] \in Picked
      <4>1. pc[q] # "rows"
        BY <1>2, <2>6, <3>3, CheckEffect, MintTHBEffect, RecordEffect, ApproveEffect,
           PayEffect, FindEffect, OwnEffect, CountEffect, CloseEffect DEF Buying
      <4> QED
        BY <1>0, <2>0, <2>6, <3>3, <4>1, BuyerMoves DEF BuyerGoes, Ended, Picked
    <3>4. CASE r = q /\ pc[q] \notin Picked /\ pc[q] # "find"
      BY <2>2, <2>6, <3>4, BuyerMoves DEF BuyerGoes, Ended, Picked, BuyPlaces
    <3> QED
      BY <3>1, <3>2, <3>3, <3>4
  <2> QED
    BY <2>1, <2>3, <2>4, <2>5, <2>6, WhoSteps
<1> QED
  BY <1>1, <1>2

-----------------------------------------------------------------------------
(* What purchases have paid for.                                           *)

\* The amount of some requests is a number.
LEMMA AmountType ==
  ASSUME TypeOK, NEW R, R \subseteq Requests
  PROVE  /\ AmountOf(R) \in Nat
         /\ \A r \in R : req[r].amount \in Nat /\ req[r].amount <= AmountOf(R)
<1> DEFINE f == [r \in R |-> req[r].amount]
<1>1. \A r \in R : req[r].amount \in Nat
  BY DEF TypeOK, Reqs
<1>2. IsFiniteSet(R)
  BY Finite, FS_Subset
<1>3. Tallied(f)
  BY <1>1, <1>2 DEF Tallied
<1>4. Tally(f) \in Nat
  BY <1>3, TallyType
<1>5. \A r \in R : f[r] <= Tally(f)
  BY <1>3, TallyMember
<1> QED
  BY <1>1, <1>4, <1>5 DEF AmountOf

\* When one request moves, the amount of some requests changes by its own.
LEMMA AmountMoves ==
  ASSUME TypeOK, TypeOK', NEW r \in Requests, Others(r),
         NEW R, NEW S, R \subseteq Requests, S \subseteq Requests,
         \A q \in Requests : q # r => (q \in R <=> q \in S)
  PROVE  /\ AmountOf(R) \in Nat /\ Tally([q \in S |-> req'[q].amount]) \in Nat
         /\ Tally([q \in S |-> req'[q].amount]) + (IF r \in R THEN req[r].amount ELSE 0)
              = AmountOf(R) + (IF r \in S THEN req'[r].amount ELSE 0)
<1> DEFINE f == [q \in R |-> req[q].amount]
           g == [q \in S |-> req'[q].amount]
<1>1. /\ \A q \in Requests : req[q].amount \in Nat /\ req'[q].amount \in Nat
      /\ IsFiniteSet(R) /\ IsFiniteSet(S)
  BY Finite, FS_Subset DEF TypeOK, Reqs
<1>2. Tallied(f) /\ Tallied(g)
  BY <1>1 DEF Tallied
<1>3. \A y : y # r => ValueAt(f, y) = ValueAt(g, y)
  BY DEF ValueAt, Others
<1>4. Tally(g) + ValueAt(f, r) = Tally(f) + ValueAt(g, r)
  BY <1>2, <1>3, TallyChange
<1>5. /\ ValueAt(f, r) = (IF r \in R THEN req[r].amount ELSE 0)
      /\ ValueAt(g, r) = (IF r \in S THEN req'[r].amount ELSE 0)
  BY DEF ValueAt
<1>6. Tally(f) \in Nat /\ Tally(g) \in Nat
  BY <1>2, TallyType
<1> QED
  BY <1>4, <1>5, <1>6 DEF AmountOf

\* What was paid for a listing changes only by what the request that moves
\* has paid.
LEMMA PaidMoves ==
  ASSUME TypeOK, TypeOK', NEW r \in Requests, Others(r), NEW l
  PROVE  /\ AmountOf(PaidFor(l)) \in Nat /\ AmountOf(PaidFor(l))' \in Nat
         /\ AmountOf(PaidFor(l))'
              + (IF pc[r] \in Paid /\ req[r].listing = l THEN req[r].amount ELSE 0)
            = AmountOf(PaidFor(l))
              + (IF pc'[r] \in Paid /\ req'[r].listing = l THEN req'[r].amount ELSE 0)
<1>1. PaidFor(l) \subseteq Requests /\ PaidFor(l)' \subseteq Requests
  BY DEF PaidFor, Running
<1>2. \A q \in Requests : q # r => (q \in PaidFor(l) <=> q \in PaidFor(l)')
  BY DEF PaidFor, Running, Others
<1>3. /\ r \in PaidFor(l) <=> pc[r] \in Paid /\ req[r].listing = l
      /\ r \in PaidFor(l)' <=> pc'[r] \in Paid /\ req'[r].listing = l
  BY DEF PaidFor, Running
<1>4. AmountOf(PaidFor(l))' = Tally([q \in PaidFor(l)' |-> req'[q].amount])
  BY DEF AmountOf
<1> DEFINE R == PaidFor(l)  S == PaidFor(l)'
<1> HIDE DEF R, S
<1>5. /\ R \subseteq Requests /\ S \subseteq Requests
      /\ \A q \in Requests : q # r => (q \in R <=> q \in S)
  BY <1>1, <1>2 DEF R, S
<1>6. /\ AmountOf(R) \in Nat /\ Tally([q \in S |-> req'[q].amount]) \in Nat
      /\ Tally([q \in S |-> req'[q].amount]) + (IF r \in R THEN req[r].amount ELSE 0)
           = AmountOf(R) + (IF r \in S THEN req'[r].amount ELSE 0)
  BY <1>5, AmountMoves
<1> QED
  BY <1>3, <1>4, <1>6 DEF R, S

\* Where a seller is adding codes, it came with its item from where it was.
LEMMA CodingBack ==
  ASSUME TypeOK, SellerShape, BuyerShape, [Next]_vars, NEW q \in Requests, Coding(q)'
  PROVE  \/ Coding(q) /\ Here(q)' = Here(q) /\ Item(q)' = Item(q)
         \/ ListOnChain(q) /\ Stays(q)
<1> DEFINE Goal == \/ Coding(q) /\ Here(q)' = Here(q) /\ Item(q)' = Item(q)
                   \/ ListOnChain(q) /\ Stays(q)
<1>1. ASSUME req'[q] = req[q], pc'[q] = pc[q] PROVE Goal
  BY <1>1 DEF Coding, Listed, Here, Item
<1>2. pc'[q] \in {"codes", "batch"}
  BY DEF Coding, Listed
<1>3. ASSUME NEW r \in Requests, List(r) \/ ListBatch(r) PROVE Goal
  BY <1>1, <1>2, <1>3, ArriveEffect DEF Others
<1>4. ASSUME NEW r \in Requests, Buy(r) PROVE Goal
  BY <1>1, <1>2, <1>4, BuyEffect DEF Others
<1>5. ASSUME NEW r \in Requests, Selling(r), ~List(r), ~ListBatch(r) PROVE Goal
  <2>1. CASE r = q
    <3>1. SellerGoes(q) /\ ~Ended(q)
      BY <1>2, <1>5, <2>1, SellerMoves DEF Ended
    <3>2. req'[q] = req[q] /\ ((pc[q] = "batch" /\ ~req[q].early) \/ pc[q] = "list")
      BY <3>1 DEF SellerGoes, Coding, Listed
    <3>3. CASE pc[q] = "batch" /\ ~req[q].early
      BY <3>2, <3>3 DEF Coding, Listed, Here, Item
    <3>4. CASE pc[q] = "list"
      <4>1. ListOnChain(q)
        BY <1>5, <2>1, <3>4, AdmitEffect, BatchEffect, MintEffect, CodesEffect, SyncEffect
           DEF Selling
      <4> QED
        BY <3>2, <4>1 DEF Stays
    <3> QED
      BY <3>2, <3>3, <3>4
  <2> QED
    BY <1>1, <1>5, <2>1, SellerMoves DEF Others
<1>6. ASSUME NEW r \in Requests, Buying(r), ~Buy(r) PROVE Goal
  <2>1. CASE r = q
    BY <1>2, <1>6, <2>1, BuyerMoves DEF BuyerGoes, Ended
  <2> QED
    BY <1>1, <1>6, <2>1, BuyerMoves DEF Others
<1> QED
  BY <1>1, <1>3, <1>4, <1>5, <1>6, WhoSteps

\* Nothing is left over when nobody is counted.
LEMMA AmountNone ==
  AmountOf({}) = 0
<1> DEFINE f == [r \in {} |-> req[r].amount]
<1>1. Tallied(f)
  BY FS_EmptySet DEF Tallied
<1>2. Tally(f) = 0
  BY <1>1, TallyZero
<1> QED
  BY <1>2 DEF AmountOf

\* Only a payment adds to what was paid and has no code yet.
LEMMA PaidShrinks ==
  ASSUME TypeOK, TypeOK', SellerShape, BuyerShape, [Next]_vars, NEW l,
         \A r \in Requests : ~(Pay(r) /\ pc'[r] = "find")
  PROVE  /\ AmountOf(PaidFor(l)) \in Nat /\ AmountOf(PaidFor(l))' \in Nat
         /\ AmountOf(PaidFor(l))' <= AmountOf(PaidFor(l))
<1> DEFINE Goal == /\ AmountOf(PaidFor(l)) \in Nat /\ AmountOf(PaidFor(l))' \in Nat
                   /\ AmountOf(PaidFor(l))' <= AmountOf(PaidFor(l))
<1>1. ASSUME NEW r \in Requests, Others(r), pc'[r] \in Paid => pc[r] \in Paid /\ Keeps(r)
      PROVE  Goal
  <2>1. req[r].amount \in Nat /\ req'[r].amount \in Nat
    BY DEF TypeOK, Reqs
  <2> QED
    BY <1>1, <2>1, PaidMoves DEF Keeps
<1>2. ASSUME UNCHANGED <<req, pc>> PROVE Goal
  <2>1. PaidFor(l)' = PaidFor(l) /\ PaidFor(l) \subseteq Requests
    BY <1>2 DEF PaidFor, Running
  <2>2. AmountOf(PaidFor(l))' = AmountOf(PaidFor(l))
    BY <1>2, <2>1 DEF AmountOf
  <2> QED
    BY <2>1, <2>2, AmountType
<1>3. ASSUME NEW r \in Requests, List(r) \/ ListBatch(r) PROVE Goal
  BY <1>1, <1>3, ArriveEffect DEF Paid
<1>4. ASSUME NEW r \in Requests, Buy(r) PROVE Goal
  BY <1>1, <1>4, BuyEffect DEF Paid
<1>5. ASSUME NEW r \in Requests, Selling(r), ~List(r), ~ListBatch(r) PROVE Goal
  BY <1>1, <1>5, SellerMoves DEF SellerGoes, Ended, Paid
<1>6. ASSUME NEW r \in Requests, Buying(r), ~Buy(r) PROVE Goal
  <2>1. Others(r) /\ BuyerGoes(r)
    BY <1>6, BuyerMoves
  <2>2. pc[r] = "pay" => pc'[r] # "find"
    <3> SUFFICES ASSUME pc[r] = "pay" PROVE Pay(r)
      OBVIOUS
    <3> QED
      BY <1>6, CheckEffect, MintTHBEffect, RecordEffect, ApproveEffect, FindEffect,
         RowEffect, OwnEffect, CountEffect, CloseEffect DEF Buying
  <2> QED
    BY <1>1, <2>1, <2>2 DEF BuyerGoes, Ended, Paid
<1> QED
  BY <1>2, <1>3, <1>4, <1>5, <1>6, WhoSteps

\* What a listing has left, with what was paid for it, only grows when the
\* coupons are listed.
LEMMA LeftAndPaid ==
  ASSUME TypeOK, TypeOK', SellerShape, BuyerShape, [Next]_vars, NEW l \in Listings,
         listing'[l] = listing[l] \/ \E r \in Requests : Pay(r)
  PROVE  /\ AmountOf(PaidFor(l)) \in Nat /\ AmountOf(PaidFor(l))' \in Nat
         /\ listing'[l].left + AmountOf(PaidFor(l))'
              <= listing[l].left + AmountOf(PaidFor(l))
<1>0. /\ listing \in [Listings -> OnChain] /\ listing[l].left \in Nat /\ listing'[l].left \in Nat
      /\ \A r \in Requests : req[r].amount \in Nat /\ req'[r].amount \in Nat
  BY DEF TypeOK, OnChain, Reqs
<1>1. CASE \A r \in Requests : ~(Pay(r) /\ pc'[r] = "find")
  <2>1. listing'[l].left <= listing[l].left
    <3>1. CASE listing'[l] = listing[l]
      BY <1>0, <3>1
    <3>2. ASSUME NEW r \in Requests, Pay(r), listing'[l] # listing[l]
          PROVE  listing'[l].left <= listing[l].left
      <4>1. listing' = [listing EXCEPT ![req[r].listing] =
                          [voucher |-> @.voucher, left |-> @.left - req[r].amount]]
        BY <3>2, PayEffect DEF Sell
      <4>2. listing'[l].left = listing[l].left - req[r].amount
        BY <1>0, <3>2, <4>1
      <4> QED
        BY <1>0, <4>2
    <3> QED
      BY <3>1, <3>2
  <2>2. /\ AmountOf(PaidFor(l)) \in Nat /\ AmountOf(PaidFor(l))' \in Nat
        /\ AmountOf(PaidFor(l))' <= AmountOf(PaidFor(l))
    BY <1>1, PaidShrinks
  <2> QED
    BY <1>0, <2>1, <2>2
<1>2. ASSUME NEW r \in Requests, Pay(r), pc'[r] = "find"
      PROVE  /\ AmountOf(PaidFor(l)) \in Nat /\ AmountOf(PaidFor(l))' \in Nat
             /\ listing'[l].left + AmountOf(PaidFor(l))'
                  <= listing[l].left + AmountOf(PaidFor(l))
  <2>1. /\ Others(r) /\ pc[r] = "pay" /\ req'[r] = req[r] /\ req[r].listing \in Listings
        /\ listing' = [listing EXCEPT ![req[r].listing] =
                         [voucher |-> @.voucher, left |-> @.left - req[r].amount]]
    BY <1>2, PayEffect, BuyerType DEF Sell, Stays, Ended, BuyPlaces
  <2>2. /\ AmountOf(PaidFor(l)) \in Nat /\ AmountOf(PaidFor(l))' \in Nat
        /\ AmountOf(PaidFor(l))' = AmountOf(PaidFor(l))
             + (IF req[r].listing = l THEN req[r].amount ELSE 0)
    <3>1. pc[r] \notin Paid /\ pc'[r] \in Paid
      BY <1>2, <2>1 DEF Paid
    <3> QED
      BY <1>0, <2>1, <3>1, PaidMoves
  <2>3. listing'[l].left = listing[l].left - (IF req[r].listing = l THEN req[r].amount ELSE 0)
    BY <1>0, <2>1
  <2> QED
    BY <1>0, <2>2, <2>3
<1> QED
  BY <1>1, <1>2

\* Nobody has bought of a listing that is not there.
LEMMA NobodyPaid ==
  ASSUME TypeOK, BuyerShape, NEW l \in Listings, listing[l] = NoListing
  PROVE  AmountOf(PaidFor(l)) = 0
<1>1. PaidFor(l) = {}
  <2> SUFFICES ASSUME NEW r \in PaidFor(l) PROVE FALSE
    OBVIOUS
  <2>1. r \in Requests /\ pc[r] \in BuyPlaces /\ req[r].listing = l
    BY DEF PaidFor, Running, Paid, BuyPlaces
  <2> QED
    BY <2>1, BuyerType, Different DEF NoListing
<1> QED
  BY <1>1, AmountNone

-----------------------------------------------------------------------------
(* A listing has enough codes.                                             *)

\* The first n codes of a listing are n.
LEMMA FirstCodes ==
  ASSUME NEW l, NEW n \in Nat, n <= Issued
  PROVE  /\ {c \in CodesOf(l) : c[2] <= n} = {l} \X (1 .. n)
         /\ Cardinality({l} \X (1 .. n)) = n
<1> DEFINE f == [x \in {l} |-> n]
<1>1. Tallied(f)
  BY FS_Singleton DEF Tallied
<1>2. Column(f, l) = {l} \X (1 .. n) /\ ValueAt(f, l) = n
  BY DEF Column, ValueAt
<1>3. Cardinality(Column(f, l)) = ValueAt(f, l)
  BY <1>1, ColumnSize
<1>4. {c \in CodesOf(l) : c[2] <= n} = {l} \X (1 .. n)
  BY Bounds DEF CodesOf
<1> QED
  BY <1>2, <1>3, <1>4

\* Every set of codes is finite.
LEMMA CodesFinite ==
  /\ IsFiniteSet(Listings) /\ IsFiniteSet(Codes)
  /\ \A l : IsFiniteSet(CodesOf(l)) /\ IsFiniteSet(Unsold(l))
<1>1. IsFiniteSet(1 .. MaxItems) /\ IsFiniteSet(1 .. Issued)
  BY Bounds, FS_Interval
<1>2. IsFiniteSet(Listings)
  BY <1>1, Finite, FS_Product DEF Listings
<1>3. IsFiniteSet(Codes)
  BY <1>1, <1>2, FS_Product DEF Codes
<1>4. \A l : IsFiniteSet(CodesOf(l))
  BY <1>1, FS_Singleton, FS_Product DEF CodesOf
<1>5. \A l : Unsold(l) \subseteq CodesOf(l)
  BY DEF Unsold
<1>6. \A l : IsFiniteSet(Unsold(l))
  BY <1>4, <1>5, FS_Subset
<1> QED
  BY <1>2, <1>3, <1>4, <1>6

\* A purchase takes from its listing no more codes than it has paid for.
LEMMA OwnTakes ==
  ASSUME TypeOK, BuyerShape, Held, NEW r \in Requests, Own(r),
         owner' # owner \/ pc'[r] = "count"
  PROVE  /\ req[r].listing \in Listings /\ req[r].held \subseteq CodesOf(req[r].listing)
         /\ Cardinality(req[r].held) = req[r].amount /\ req[r].by \in Merchants
         /\ \A c \in req[r].held : owner[c] # Absent
         /\ owner' = [c \in Codes |-> IF c \in req[r].held THEN req[r].by ELSE owner[c]]
         /\ pc[r] = "own" /\ pc'[r] = "count" /\ req'[r] = req[r] /\ Others(r)
BY OwnEffect, BuyerType DEF Held, Running, Picked, BuyPlaces, Stays

\* A listing has a code for each coupon that can still be paid for.
LEMMA SupplyStep ==
  ASSUME TypeOK, TypeOK', SellerShape, BuyerShape, Fresh, Held, Supply, [Next]_vars
  PROVE  Supply'
<1>0. /\ listing \in [Listings -> OnChain] /\ owner \in [Codes -> Merchants \cup {None, Absent}]
      /\ \A l \in Listings : listing[l].left \in Nat /\ listing'[l].left \in Nat
      /\ \A l \in Listings : CodesOf(l) \subseteq Codes /\ \A c \in CodesOf(l) : c[1] = l
      /\ \A r \in Requests : req[r].at \in Nat /\ Here(r)[1] = r /\ Here(r)[2] = req[r].at
  BY DEF TypeOK, OnChain, CodesOf, Codes, Reqs, Here
<1>1. ASSUME NEW l \in Listings, Shown(l)'
      PROVE  listing'[l].left + AmountOf(PaidFor(l))' <= Cardinality(Unsold(l)')
  <2>1. ASSUME Shown(l), listing'[l] = listing[l] \/ (\E r \in Requests : Pay(r)),
               Cardinality(Unsold(l)) <= Cardinality(Unsold(l)')
        PROVE  listing'[l].left + AmountOf(PaidFor(l))' <= Cardinality(Unsold(l)')
    <3>1. /\ AmountOf(PaidFor(l)) \in Nat /\ AmountOf(PaidFor(l))' \in Nat
          /\ listing'[l].left + AmountOf(PaidFor(l))'
               <= listing[l].left + AmountOf(PaidFor(l))
      BY <2>1, LeftAndPaid
    <3>2. listing[l].left + AmountOf(PaidFor(l)) <= Cardinality(Unsold(l))
      BY <2>1 DEF Supply
    <3>3. /\ Unsold(l)' \subseteq CodesOf(l) /\ IsFiniteSet(CodesOf(l))
          /\ Cardinality(Unsold(l)) \in Nat
      BY CodesFinite, FS_CardinalityType DEF Unsold, CodesOf
    <3>4. Cardinality(Unsold(l)') \in Nat
      BY <3>3, FS_Subset, FS_CardinalityType
    <3> QED
      BY <1>0, <2>1, <3>1, <3>2, <3>3, <3>4
  <2>2. CASE owner' = owner
    <3>1. Shown(l) /\ Unsold(l)' = Unsold(l)
      BY <1>1, <2>2 DEF Shown, Unsold, CodesOf
    <3>2. Cardinality(Unsold(l)) <= Cardinality(Unsold(l)')
      BY <3>1, CodesFinite, FS_CardinalityType
    <3>3. ASSUME NEW r \in Requests, ListOnChain(r) PROVE listing'[l] = listing[l]
      <4>1. Here(r) # l
        <5> SUFFICES ASSUME Here(r) = l PROVE FALSE
          OBVIOUS
        <5>0. pc[r] = "list" /\ l[1] = r /\ l[2] = req[r].at /\ req[r].at \in Nat
          BY <1>0, <3>3, ListEffect
        <5>1. Uncoded(l)
          BY <5>0 DEF Uncoded, Pending, Listed, ListPlaces
        <5> QED
          BY <1>0, <3>1, <5>1 DEF Fresh, Shown
      <4> QED
        BY <1>0, <3>3, <4>1, ListEffect
    <3>4. listing'[l] = listing[l] \/ \E r \in Requests : Pay(r)
      BY <3>3, Writers
    <3> QED
      BY <2>1, <3>1, <3>2, <3>4
  <2>3. ASSUME NEW r \in Requests, CreateCodes(r), owner' # owner
        PROVE  listing'[l].left + AmountOf(PaidFor(l))' <= Cardinality(Unsold(l)')
    <3>1. /\ pc[r] = "codes" /\ listing' = listing
          /\ owner' = [c \in Codes |->
               IF c[1] = Here(r) /\ c[2] <= Item(r).amount THEN None ELSE owner[c]]
      BY <2>3, CodesEffect
    <3>2. CASE l # Here(r)
      <4>1. \A c \in CodesOf(l) : owner'[c] = owner[c]
        BY <1>0, <3>1, <3>2
      <4>2. Shown(l) /\ Unsold(l)' = Unsold(l)
        BY <1>1, <4>1 DEF Shown, Unsold, CodesOf
      <4>3. Cardinality(Unsold(l)) <= Cardinality(Unsold(l)')
        BY <4>2, CodesFinite, FS_CardinalityType
      <4> QED
        BY <2>1, <3>1, <4>2, <4>3
    <3>3. CASE l = Here(r)
      <4>1. Item(r).amount \in Nat /\ Item(r).amount <= Issued
        BY <3>1, ItemType DEF ListPlaces
      <4>2. Coding(r) /\ Uncoded(l)
        BY <1>0, <3>1, <3>3 DEF Coding, Listed, Uncoded
      <4>3. \A c \in CodesOf(l) : owner[c] = Absent
        BY <1>0, <4>2 DEF Fresh
      <4>4. Unsold(l)' = {c \in CodesOf(l) : c[2] <= Item(r).amount}
        <5>1. \A c \in CodesOf(l) : owner'[c] = None <=> c[2] <= Item(r).amount
          BY <1>0, <3>1, <3>3, <4>3, Different DEF Absent
        <5> QED
          BY <5>1 DEF Unsold, CodesOf
      <4>5. Cardinality(Unsold(l)') = Item(r).amount
        <5> DEFINE n == Item(r).amount
        <5> HIDE DEF n
        <5>1. n \in Nat /\ n <= Issued /\ Unsold(l)' = {c \in CodesOf(l) : c[2] <= n}
          BY <4>1, <4>4 DEF n
        <5>2. {c \in CodesOf(l) : c[2] <= n} = {l} \X (1 .. n) /\ Cardinality({l} \X (1 .. n)) = n
          BY <5>1, FirstCodes
        <5> QED
          BY <5>1, <5>2 DEF n
      <4>6. listing[l].left + AmountOf(PaidFor(l)) <= Item(r).amount
        BY <3>3, <4>2 DEF Supply
      <4>7. /\ AmountOf(PaidFor(l)) \in Nat /\ AmountOf(PaidFor(l))' \in Nat
            /\ listing'[l].left + AmountOf(PaidFor(l))'
                 <= listing[l].left + AmountOf(PaidFor(l))
        BY <3>1, LeftAndPaid
      <4> QED
        BY <1>0, <4>1, <4>5, <4>6, <4>7
    <3> QED
      BY <3>2, <3>3
  <2>4. ASSUME NEW r \in Requests, Own(r), owner' # owner
        PROVE  listing'[l].left + AmountOf(PaidFor(l))' <= Cardinality(Unsold(l)')
    <3>0. listing' = listing
      BY <2>4, OwnEffect
    <3>1. Shown(l)
      <4>1. PICK c \in CodesOf(l) : owner'[c] # Absent
        BY <1>1 DEF Shown, CodesOf
      <4> QED
        BY <1>0, <2>4, <4>1, OwnTakes DEF Shown
    <3>2. CASE l # req[r].listing
      <4>1. \A c \in CodesOf(l) : owner'[c] = owner[c]
        BY <1>0, <2>4, <3>2, OwnTakes
      <4>2. Unsold(l)' = Unsold(l)
        BY <4>1 DEF Unsold, CodesOf
      <4>3. Cardinality(Unsold(l)) <= Cardinality(Unsold(l)')
        BY <4>2, CodesFinite, FS_CardinalityType
      <4> QED
        BY <2>1, <3>0, <3>1, <4>3
    <3>3. CASE l = req[r].listing
      <4>1. /\ req[r].amount \in Nat /\ req'[r] = req[r]
            /\ pc[r] = "own" /\ pc'[r] = "count" /\ Others(r)
        BY <2>4, OwnTakes DEF TypeOK, Reqs
      <4>2. /\ AmountOf(PaidFor(l)) \in Nat /\ AmountOf(PaidFor(l))' \in Nat
            /\ AmountOf(PaidFor(l))' + req[r].amount = AmountOf(PaidFor(l))
        <5>1. pc[r] \in Paid /\ pc'[r] \notin Paid
          BY <4>1 DEF Paid
        <5> QED
          BY <3>3, <4>1, <5>1, PaidMoves
      <4>3. Unsold(l) \ req[r].held \subseteq Unsold(l)'
        BY <1>0, <2>4, OwnTakes DEF Unsold, CodesOf
      <4>4. /\ IsFiniteSet(Unsold(l)) /\ IsFiniteSet(req[r].held)
            /\ Cardinality(req[r].held) = req[r].amount
        BY <2>4, OwnTakes, CodesFinite, FS_Subset
      <4>5. IsFiniteSet(Unsold(l)')
        <5>1. Unsold(l)' \subseteq CodesOf(l) /\ IsFiniteSet(CodesOf(l))
          BY CodesFinite DEF Unsold, CodesOf
        <5> QED
          BY <5>1, FS_Subset
      <4>6. Cardinality(Unsold(l)) - req[r].amount <= Cardinality(Unsold(l)')
        <5>1. Cardinality(Unsold(l) \ req[r].held) <= Cardinality(Unsold(l)')
          BY <4>3, <4>5, FS_Subset
        <5>2. Cardinality(Unsold(l) \ req[r].held)
                = Cardinality(Unsold(l)) - Cardinality(Unsold(l) \cap req[r].held)
          BY <4>4, FS_Difference
        <5>3. Cardinality(Unsold(l) \cap req[r].held) <= req[r].amount
          BY <4>4, FS_Subset
        <5>4. /\ Cardinality(Unsold(l)) \in Nat /\ Cardinality(Unsold(l)') \in Nat
              /\ Cardinality(Unsold(l) \cap req[r].held) \in Nat
          BY <4>4, <4>5, FS_Subset, FS_CardinalityType
        <5> QED
          BY <4>1, <5>1, <5>2, <5>3, <5>4
      <4>7. listing[l].left + AmountOf(PaidFor(l)) <= Cardinality(Unsold(l))
        BY <3>1 DEF Supply
      <4>8. Cardinality(Unsold(l)) \in Nat /\ Cardinality(Unsold(l)') \in Nat
        BY <4>4, <4>5, FS_CardinalityType
      <4> QED
        BY <1>0, <3>0, <4>1, <4>2, <4>6, <4>7, <4>8
    <3> QED
      BY <3>2, <3>3
  <2> QED
    BY <2>2, <2>3, <2>4, Writers
<1>2. ASSUME NEW q \in Requests, Coding(q)'
      PROVE  (listing[Here(q)].left + AmountOf(PaidFor(Here(q))) <= Item(q).amount)'
  <2>1. CASE Coding(q) /\ Here(q)' = Here(q) /\ Item(q)' = Item(q)
    <3>1. pc[q] \in ListPlaces /\ pc[q] # "list"
      BY <2>1 DEF Coding, Listed, ListPlaces
    <3>2. Here(q) \in Listings /\ Item(q).amount \in Nat
      BY <3>1, ItemType
    <3>3. PICK l \in Listings : l = Here(q)
      BY <3>2
    <3>4. ASSUME NEW r \in Requests, ListOnChain(r) PROVE listing'[l] = listing[l]
      <4>1. r # q
        BY <3>1, <3>4, ListEffect
      <4>2. Here(r) # l
        BY <1>0, <3>3, <4>1
      <4> QED
        BY <1>0, <3>4, <4>2, ListEffect
    <3>5. listing'[l] = listing[l] \/ \E r \in Requests : Pay(r)
      BY <3>4, Writers
    <3>6. /\ AmountOf(PaidFor(l)) \in Nat /\ AmountOf(PaidFor(l))' \in Nat
          /\ listing'[l].left + AmountOf(PaidFor(l))'
               <= listing[l].left + AmountOf(PaidFor(l))
      BY <3>5, LeftAndPaid
    <3>7. listing[l].left + AmountOf(PaidFor(l)) <= Item(q).amount
      BY <2>1, <3>3 DEF Supply
    <3>8. listing'[l].left + AmountOf(PaidFor(l))' <= Item(q).amount
      BY <1>0, <3>2, <3>6, <3>7
    <3> QED
      BY <2>1, <3>3, <3>8
  <2>2. CASE ListOnChain(q) /\ Stays(q)
    <3>1. Here(q)' = Here(q) /\ Item(q)' = Item(q) /\ pc[q] = "list" /\ pc[q] \in ListPlaces
      BY <2>2, ListEffect DEF Stays, Here, Item, ListPlaces
    <3>2. Here(q) \in Listings /\ Item(q).amount \in Nat
      BY <3>1, ItemType
    <3>3. ~Ended(q)
      BY <1>2 DEF Coding, Listed, Ended
    <3>4. listing' = [listing EXCEPT ![Here(q)] =
                        [voucher |-> Item(q).voucher, left |-> Item(q).amount]]
      BY <2>2, <3>3, ListEffect
    <3>5. PICK l \in Listings : l = Here(q)
      BY <3>2
    <3>10. Pending(l)
      BY <1>0, <3>1, <3>5 DEF Pending, Listed, ListPlaces
    <3>6. AmountOf(PaidFor(l)) = 0
      BY <3>10, NobodyPaid DEF Fresh
    <3>7. \A r \in Requests : ~(Pay(r) /\ pc'[r] = "find")
      <4> SUFFICES ASSUME NEW r \in Requests, Pay(r), pc'[r] = "find" PROVE FALSE
        OBVIOUS
      <4>1. pc[r] = "pay" /\ r # q
        BY <3>1, PayEffect
      <4>2. Others(q)
        BY <2>2, ListEffect
      <4> QED
        BY <4>1, <4>2 DEF Others
    <3>8. AmountOf(PaidFor(l))' \in Nat /\ AmountOf(PaidFor(l))' <= 0
      BY <3>6, <3>7, PaidShrinks
    <3>9. listing'[l].left + AmountOf(PaidFor(l))' <= Item(q).amount
      BY <1>0, <3>2, <3>4, <3>5, <3>8
    <3> QED
      BY <3>1, <3>5, <3>9
  <2> QED
    BY <1>2, <2>1, <2>2, CodingBack
<1> QED
  BY <1>1, <1>2 DEF Supply

-----------------------------------------------------------------------------
(* The books of a batch.                                                   *)

\* What a batch has on chain is a number.
LEMMA LeftType ==
  ASSUME TypeOK, NEW b
  PROVE  LeftOf(b) \in Nat
<1> DEFINE L == {k \in Listings : k[1] = b}
           f == [k \in L |-> listing[k].left]
<1>1. IsFiniteSet(L) /\ \A k \in L : listing[k].left \in Nat
  BY CodesFinite, FS_Subset DEF TypeOK, OnChain
<1>2. Tallied(f)
  BY <1>1 DEF Tallied
<1>3. Tally(f) \in Nat
  BY <1>2, TallyType
<1> QED
  BY <1>3 DEF LeftOf

\* What a batch has on chain changes only by what one of its
\* listings has left.
LEMMA LeftMoves ==
  ASSUME TypeOK, TypeOK', NEW l \in Listings, NEW b,
         \A k \in Listings : k # l => listing'[k] = listing[k]
  PROVE  /\ LeftOf(b) \in Nat /\ LeftOf(b)' \in Nat
         /\ listing[l].left \in Nat /\ listing'[l].left \in Nat
         /\ LeftOf(b)' + (IF l[1] = b THEN listing[l].left ELSE 0)
              = LeftOf(b) + (IF l[1] = b THEN listing'[l].left ELSE 0)
<1> DEFINE L == {k \in Listings : k[1] = b}
           f == [k \in L |-> listing[k].left]
           g == [k \in L |-> listing'[k].left]
<1>1. \A k \in Listings : listing[k].left \in Nat /\ listing'[k].left \in Nat
  BY DEF TypeOK, OnChain
<1>2. IsFiniteSet(L)
  BY CodesFinite, FS_Subset
<1>3. Tallied(f) /\ Tallied(g)
  BY <1>1, <1>2 DEF Tallied
<1>4. \A y : y # l => ValueAt(f, y) = ValueAt(g, y)
  BY DEF ValueAt
<1>5. Tally(g) + ValueAt(f, l) = Tally(f) + ValueAt(g, l)
  BY <1>3, <1>4, TallyChange
<1>6. /\ ValueAt(f, l) = (IF l[1] = b THEN listing[l].left ELSE 0)
      /\ ValueAt(g, l) = (IF l[1] = b THEN listing'[l].left ELSE 0)
  BY DEF ValueAt
<1>7. Tally(f) \in Nat /\ Tally(g) \in Nat
  BY <1>3, TallyType
<1>8. Tally(f) = LeftOf(b) /\ Tally(g) = LeftOf(b)'
  BY DEF LeftOf
<1> QED
  BY <1>1, <1>5, <1>6, <1>7, <1>8

\* What is not counted yet for a batch changes only by the request that moves.
LEMMA UncountedMoves ==
  ASSUME TypeOK, TypeOK', NEW r \in Requests, Others(r), NEW b
  PROVE  /\ AmountOf(Uncounted(b)) \in Nat /\ AmountOf(Uncounted(b))' \in Nat
         /\ AmountOf(Uncounted(b))'
              + (IF pc[r] \in Paid \cup {"count"} /\ BatchOf(r) = b
                 THEN req[r].amount ELSE 0)
            = AmountOf(Uncounted(b))
              + (IF pc'[r] \in Paid \cup {"count"} /\ BatchOf(r)' = b
                 THEN req'[r].amount ELSE 0)
<1> DEFINE R == Uncounted(b)  S == Uncounted(b)'
<1>1. R \subseteq Requests /\ S \subseteq Requests
  BY DEF Uncounted, Running
<1>2. \A q \in Requests : q # r => (q \in R <=> q \in S)
  BY DEF Uncounted, Running, Others, BatchOf
<1>3. /\ r \in R <=> pc[r] \in Paid \cup {"count"} /\ BatchOf(r) = b
      /\ r \in S <=> pc'[r] \in Paid \cup {"count"} /\ BatchOf(r)' = b
  BY DEF Uncounted, Running
<1>4. AmountOf(Uncounted(b))' = Tally([q \in S |-> req'[q].amount])
  BY DEF AmountOf
<1>5. AmountOf(R) = AmountOf(Uncounted(b))
  OBVIOUS
<1> HIDE DEF R, S
<1>6. /\ AmountOf(R) \in Nat /\ Tally([q \in S |-> req'[q].amount]) \in Nat
      /\ Tally([q \in S |-> req'[q].amount]) + (IF r \in R THEN req[r].amount ELSE 0)
           = AmountOf(R) + (IF r \in S THEN req'[r].amount ELSE 0)
  BY <1>1, <1>2, AmountMoves
<1> QED
  BY <1>3, <1>4, <1>5, <1>6

\* Only a payment adds to what is paid and not counted.
LEMMA UncountedShrinks ==
  ASSUME TypeOK, TypeOK', SellerShape, BuyerShape, [Next]_vars, NEW b,
         \A r \in Requests : ~(Pay(r) /\ pc'[r] = "find")
  PROVE  /\ AmountOf(Uncounted(b)) \in Nat /\ AmountOf(Uncounted(b))' \in Nat
         /\ AmountOf(Uncounted(b))' <= AmountOf(Uncounted(b))
<1> DEFINE Goal == /\ AmountOf(Uncounted(b)) \in Nat /\ AmountOf(Uncounted(b))' \in Nat
                   /\ AmountOf(Uncounted(b))' <= AmountOf(Uncounted(b))
<1>1. ASSUME NEW r \in Requests, Others(r),
             pc'[r] \in Paid \cup {"count"} => pc[r] \in Paid \cup {"count"} /\ Keeps(r)
      PROVE  Goal
  <2>1. req[r].amount \in Nat /\ req'[r].amount \in Nat
    BY DEF TypeOK, Reqs
  <2>2. pc'[r] \in Paid \cup {"count"} => BatchOf(r)' = BatchOf(r)
    BY <1>1 DEF Keeps, BatchOf
  <2> QED
    BY <1>1, <2>1, <2>2, UncountedMoves DEF Keeps
<1>2. ASSUME UNCHANGED <<req, pc>> PROVE Goal
  <2>1. Uncounted(b)' = Uncounted(b) /\ Uncounted(b) \subseteq Requests
    BY <1>2 DEF Uncounted, Running, BatchOf
  <2>2. AmountOf(Uncounted(b))' = AmountOf(Uncounted(b))
    BY <1>2, <2>1 DEF AmountOf
  <2> QED
    BY <2>1, <2>2, AmountType
<1>3. ASSUME NEW r \in Requests, List(r) \/ ListBatch(r) PROVE Goal
  BY <1>1, <1>3, ArriveEffect DEF Paid
<1>4. ASSUME NEW r \in Requests, Buy(r) PROVE Goal
  BY <1>1, <1>4, BuyEffect DEF Paid
<1>5. ASSUME NEW r \in Requests, Selling(r), ~List(r), ~ListBatch(r) PROVE Goal
  BY <1>1, <1>5, SellerMoves DEF SellerGoes, Ended, Paid
<1>6. ASSUME NEW r \in Requests, Buying(r), ~Buy(r) PROVE Goal
  <2>1. Others(r) /\ BuyerGoes(r)
    BY <1>6, BuyerMoves
  <2>2. pc[r] = "pay" => pc'[r] # "find"
    <3> SUFFICES ASSUME pc[r] = "pay" PROVE Pay(r)
      OBVIOUS
    <3> QED
      BY <1>6, CheckEffect, MintTHBEffect, RecordEffect, ApproveEffect, FindEffect,
         RowEffect, OwnEffect, CountEffect, CloseEffect DEF Buying
  <2> QED
    BY <1>1, <2>1, <2>2 DEF BuyerGoes, Ended, Paid
<1> QED
  BY <1>2, <1>3, <1>4, <1>5, <1>6, WhoSteps

\* A count moves coupons from one side of the ledger to the other, and nothing
\* else changes what a batch has sold.
LEMMA SoldSteps ==
  ASSUME TypeOK, TypeOK', SellerShape, BuyerShape, Fresh, Batched, Held, [Next]_vars,
         NEW b \in Requests
  PROVE  \/ batch'[b].sold = batch[b].sold
         \/ \E r \in Requests :
              /\ Count(r) /\ BatchOf(r) = b /\ pc'[r] = "close"
              /\ batch'[b].sold = batch[b].sold + req[r].amount
<1>0. batch \in [Requests -> Batches]
  BY DEF TypeOK
<1>1. CASE batch' = batch
  BY <1>1
<1>2. ASSUME NEW r \in Requests, CreateBatch(r), batch' # batch
      PROVE  batch'[b].sold = batch[b].sold
  <2>1. batch' = [batch EXCEPT ![r] = NewBatch(TotalOf(req[r].items))] /\ pc[r] = "batch"
    BY <1>2, BatchEffect
  <2>2. batch[r] = NoBatch
    BY <2>1 DEF Fresh, Unbatched
  <2> QED
    BY <1>0, <2>1, <2>2 DEF NoBatch, NewBatch
<1>3. ASSUME NEW r \in Requests, Close(r), batch' # batch
      PROVE  batch'[b].sold = batch[b].sold
  <2>1. batch' = [batch EXCEPT ![BatchOf(r)] =
                    [total |-> @.total, sold |-> @.sold,
                     soldOut |-> @.soldOut \/ SoldOut(@)]]
    BY <1>3, CloseEffect
  <2> QED
    BY <1>0, <2>1
<1>4. ASSUME NEW r \in Requests, Count(r), batch' # batch
      PROVE  \/ batch'[b].sold = batch[b].sold
             \/ /\ BatchOf(r) = b /\ pc'[r] = "close"
                /\ batch'[b].sold = batch[b].sold + req[r].amount
  <2>1. /\ pc'[r] = "close"
        /\ batch' = [batch EXCEPT ![BatchOf(r)] =
                    [total |-> @.total, sold |-> @.sold + req[r].amount,
                     soldOut |-> @.soldOut]]
    BY <1>4, CountEffect
  <2>2. CASE b = BatchOf(r)
    BY <1>0, <2>1, <2>2
  <2>3. CASE b # BatchOf(r)
    BY <1>0, <2>1, <2>3
  <2> QED
    BY <2>2, <2>3
<1> QED
  BY <1>1, <1>2, <1>3, <1>4, Writers

\* The ledger of a batch never grows by a purchase.
LEMMA LedgerShrinks ==
  ASSUME TypeOK, TypeOK', SellerShape, BuyerShape, Fresh, Batched, Held, [Next]_vars,
         NEW b \in Requests, listing' = listing \/ \E r \in Requests : Pay(r)
  PROVE  Ledger(b) \in Nat /\ Ledger(b)' \in Nat /\ Ledger(b)' <= Ledger(b)
<1>0. /\ batch[b].sold \in Nat /\ batch'[b].sold \in Nat
      /\ listing \in [Listings -> OnChain]
  BY DEF TypeOK, Batches
<1>1. ASSUME NEW r \in Requests, Pay(r), listing' # listing
      PROVE  Ledger(b) \in Nat /\ Ledger(b)' \in Nat /\ Ledger(b)' <= Ledger(b)
  <2>1. /\ Others(r) /\ pc[r] = "pay" /\ req'[r] = req[r] /\ pc'[r] \in {"find", "unrecorded"}
        /\ batch' = batch /\ CanBuy(r) /\ req[r].listing \in Listings /\ req[r].amount \in Nat
        /\ listing' = [listing EXCEPT ![req[r].listing] =
                         [voucher |-> @.voucher, left |-> @.left - req[r].amount]]
    BY <1>1, PayEffect, BuyerType DEF Sell, Stays, BuyPlaces
  <2>2. PICK l \in Listings : l = req[r].listing
    BY <2>1
  <2>3. /\ \A k \in Listings : k # l => listing'[k] = listing[k]
        /\ listing'[l].left = listing[l].left - req[r].amount
        /\ BatchOf(r) = l[1] /\ BatchOf(r)' = l[1]
    BY <1>0, <2>1, <2>2 DEF BatchOf
  <2>4. /\ LeftOf(b) \in Nat /\ LeftOf(b)' \in Nat
        /\ LeftOf(b)' + (IF l[1] = b THEN req[r].amount ELSE 0) = LeftOf(b)
    BY <2>1, <2>3, LeftMoves
  <2>5. /\ AmountOf(Uncounted(b)) \in Nat /\ AmountOf(Uncounted(b))' \in Nat
        /\ AmountOf(Uncounted(b))' <= AmountOf(Uncounted(b))
             + (IF l[1] = b THEN req[r].amount ELSE 0)
    <3>1. pc[r] \notin Paid \cup {"count"}
      BY <2>1 DEF Paid
    <3> QED
      BY <2>1, <2>3, <3>1, UncountedMoves
  <2>6. Ledger(b)' = batch'[b].sold + LeftOf(b)' + AmountOf(Uncounted(b))'
    BY DEF Ledger
  <2> QED
    BY <1>0, <2>1, <2>4, <2>5, <2>6 DEF Ledger
<1>2. ASSUME NEW r \in Requests, Count(r), BatchOf(r) = b, pc'[r] = "close",
             batch'[b].sold = batch[b].sold + req[r].amount
      PROVE  Ledger(b) \in Nat /\ Ledger(b)' \in Nat /\ Ledger(b)' <= Ledger(b)
  <2>1. /\ Others(r) /\ pc[r] = "count" /\ listing' = listing /\ req[r].amount \in Nat
        /\ req[r].listing \in Listings
    BY <1>2, CountEffect, BuyerType DEF BuyPlaces
  <2>2. /\ AmountOf(Uncounted(b)) \in Nat /\ AmountOf(Uncounted(b))' \in Nat
        /\ AmountOf(Uncounted(b))' + req[r].amount = AmountOf(Uncounted(b))
    <3>1. pc[r] \in Paid \cup {"count"} /\ pc'[r] \notin Paid \cup {"count"}
      BY <1>2, <2>1 DEF Paid
    <3> QED
      BY <1>2, <2>1, <3>1, UncountedMoves
  <2>3. LeftOf(b)' = LeftOf(b) /\ LeftOf(b) \in Nat
    <3>1. PICK l \in Listings : l = req[r].listing
      BY <2>1
    <3> QED
      BY <2>1, LeftMoves DEF LeftOf
  <2>4. Ledger(b)' = batch'[b].sold + LeftOf(b)' + AmountOf(Uncounted(b))'
    BY DEF Ledger
  <2> QED
    BY <1>0, <1>2, <2>1, <2>2, <2>3, <2>4 DEF Ledger
<1>3. ASSUME listing' = listing, batch'[b].sold = batch[b].sold
      PROVE  Ledger(b) \in Nat /\ Ledger(b)' \in Nat /\ Ledger(b)' <= Ledger(b)
  <2>1. \A r \in Requests : ~(Pay(r) /\ pc'[r] = "find")
    <3> SUFFICES ASSUME NEW r \in Requests, Pay(r), pc'[r] = "find" PROVE FALSE
      OBVIOUS
    <3>1. /\ req[r].listing \in Listings /\ req[r].amount >= 1 /\ req[r].amount \in Nat
          /\ listing' = [listing EXCEPT ![req[r].listing] =
                           [voucher |-> @.voucher, left |-> @.left - req[r].amount]]
      BY PayEffect, BuyerType DEF Sell, Ended, BuyPlaces
    <3>2. listing'[req[r].listing].left = listing[req[r].listing].left - req[r].amount
      BY <1>0, <3>1
    <3>3. listing[req[r].listing].left \in Nat
      BY <1>0, <3>1 DEF OnChain
    <3> QED
      BY <1>3, <3>1, <3>2, <3>3
  <2>2. /\ AmountOf(Uncounted(b)) \in Nat /\ AmountOf(Uncounted(b))' \in Nat
        /\ AmountOf(Uncounted(b))' <= AmountOf(Uncounted(b))
    BY <2>1, UncountedShrinks
  <2>3. LeftOf(b)' = LeftOf(b)
    BY <1>3 DEF LeftOf
  <2>4. LeftOf(b) \in Nat
    BY LeftType
  <2>5. Ledger(b)' = batch'[b].sold + LeftOf(b)' + AmountOf(Uncounted(b))'
    BY DEF Ledger
  <2> QED
    BY <1>0, <1>3, <2>2, <2>3, <2>4, <2>5 DEF Ledger
<1>4. ASSUME listing' = listing
      PROVE  Ledger(b) \in Nat /\ Ledger(b)' \in Nat /\ Ledger(b)' <= Ledger(b)
  BY <1>2, <1>3, <1>4, SoldSteps
<1> QED
  BY <1>1, <1>4

\* What a request has still to list is a number.
LEMMA ToListType ==
  ASSUME TypeOK, SellerShape, NEW b \in Requests
  PROVE  /\ \A i \in DOMAIN req[b].items :
              req[b].items[i].amount \in Nat /\ i \in Nat /\ i >= 1
         /\ IsFiniteSet(DOMAIN req[b].items)
         /\ ToList(b) \in Nat /\ TotalOf(req[b].items) \in Nat
         /\ ToList(b) <= TotalOf(req[b].items)
<1> DEFINE f == [i \in DOMAIN req[b].items |->
                  IF Pending(<<b, i>>) THEN req[b].items[i].amount ELSE 0]
           g == [i \in DOMAIN req[b].items |-> req[b].items[i].amount]
<1>1. req[b].items \in Seq(Items)
  BY DEF TypeOK, Reqs
<1>2. Len(req[b].items) \in Nat /\ DOMAIN req[b].items = 1 .. Len(req[b].items)
  BY <1>1
<1>3. \A i \in DOMAIN req[b].items :
        req[b].items[i].amount \in Nat /\ i \in Nat /\ i >= 1
  <2>1. \A i \in DOMAIN req[b].items : req[b].items[i] \in Items
    BY <1>1
  <2> QED
    BY <1>2, <2>1, Bounds DEF Items
<1>4. IsFiniteSet(DOMAIN req[b].items)
  <2>1. IsFiniteSet(1 .. Len(req[b].items))
    BY <1>2, FS_Interval
  <2> QED
    BY <1>2, <2>1
<1>5. Tallied(f) /\ Tallied(g)
  BY <1>3, <1>4 DEF Tallied
<1>6. \A y : ValueAt(f, y) <= ValueAt(g, y)
  BY <1>3 DEF ValueAt
<1>7. Tally(f) \in Nat /\ Tally(g) \in Nat /\ Tally(f) <= Tally(g)
  BY <1>5, <1>6, TallyType, TallyMonotone
<1> QED
  BY <1>3, <1>4, <1>7 DEF ToList, TotalOf

\* A request has no more to list than before.
LEMMA ToListShrinks ==
  ASSUME TypeOK, TypeOK', SellerShape, BuyerShape, [Next]_vars, NEW b \in Requests,
         req'[b].items = req[b].items
  PROVE  ToList(b)' <= ToList(b) /\ ToList(b)' \in Nat
<1> DEFINE f == [i \in DOMAIN req[b].items |->
                  IF Pending(<<b, i>>) THEN req[b].items[i].amount ELSE 0]
           g == [i \in DOMAIN req[b].items |->
                  IF Pending(<<b, i>>)' THEN req[b].items[i].amount ELSE 0]
<1>1. /\ IsFiniteSet(DOMAIN req[b].items)
      /\ \A i \in DOMAIN req[b].items : req[b].items[i].amount \in Nat /\ i \in Nat
  BY ToListType
<1>2. Tallied(f) /\ Tallied(g)
  BY <1>1 DEF Tallied
<1>3. \A i \in DOMAIN req[b].items : Pending(<<b, i>>)' => Pending(<<b, i>>)
  BY <1>1, PendingBack
<1>4. \A y : ValueAt(g, y) <= ValueAt(f, y)
  BY <1>1, <1>3 DEF ValueAt
<1>5. Tally(g) <= Tally(f) /\ Tally(g) \in Nat
  BY <1>2, <1>4, TallyType, TallyMonotone
<1>6. Tally(g) = ToList(b)' /\ Tally(f) = ToList(b)
  BY DEF ToList
<1> QED
  BY <1>5, <1>6

\* The item that is listed was to be listed, and is not any more.
LEMMA ToListMoves ==
  ASSUME TypeOK, TypeOK', SellerShape, BuyerShape, [Next]_vars, NEW b \in Requests,
         ListOnChain(b)
  PROVE  /\ Item(b).amount \in Nat /\ Item(b).amount <= ToList(b)
         /\ Stays(b) /\ pc'[b] \in {"codes", "batch"}
              => ToList(b)' + Item(b).amount = ToList(b) /\ ToList(b)' \in Nat
<1> DEFINE D == DOMAIN req[b].items
           f == [i \in D |-> IF Pending(<<b, i>>) THEN req[b].items[i].amount ELSE 0]
           g == [i \in D |-> IF Pending(<<b, i>>)' THEN req[b].items[i].amount ELSE 0]
           j == req[b].at
<1>0. /\ pc[b] = "list" /\ j \in D /\ j \in Nat /\ Item(b).amount \in Nat
      /\ Item(b) = req[b].items[j]
  <2>1. pc[b] = "list" /\ pc[b] \in ListPlaces
    BY ListEffect DEF ListPlaces
  <2>2. req[b].items \in Seq(Items) /\ j \in DOMAIN req[b].items /\ j \in Nat
    BY <2>1 DEF TypeOK, Reqs, SellerShape, SellerShapeOf
  <2> QED
    BY <2>1, <2>2, ItemType DEF Item
<1>1. /\ IsFiniteSet(D) /\ \A i \in D : req[b].items[i].amount \in Nat /\ i \in Nat
      /\ ToList(b) \in Nat
  BY ToListType
<1>2. Tallied(f) /\ Tallied(g)
  BY <1>1 DEF Tallied
<1>3. \A i \in D : Pending(<<b, i>>) <=> i >= j
  BY <1>0 DEF Pending, Listed, ListPlaces
<1>4. f[j] = Item(b).amount /\ ValueAt(f, j) = Item(b).amount
  BY <1>0, <1>3 DEF ValueAt
<1>5. Tally(f) = ToList(b)
  BY DEF ToList
<1>6. Item(b).amount <= ToList(b)
  BY <1>0, <1>2, <1>4, <1>5, TallyMember
<1>7. ASSUME Stays(b), pc'[b] \in {"codes", "batch"}
      PROVE  ToList(b)' + Item(b).amount = ToList(b) /\ ToList(b)' \in Nat
  <2>1. pc'[b] = IF req[b].early THEN "codes" ELSE "batch"
    BY <1>7, ListEffect DEF Ended
  <2>2. \A i \in D : Pending(<<b, i>>)' <=> i > j
    BY <1>7, <2>1 DEF Pending, Listed, ListPlaces, Stays
  <2>3. ValueAt(g, j) = 0
    BY <1>0, <2>2 DEF ValueAt
  <2>4. \A y : y # j => ValueAt(f, y) = ValueAt(g, y)
    BY <1>0, <1>1, <1>3, <2>2 DEF ValueAt
  <2>5. Tally(g) + ValueAt(f, j) = Tally(f) + ValueAt(g, j)
    BY <1>2, <2>4, TallyChange
  <2>6. Tally(g) = ToList(b)'
    BY <1>7 DEF ToList, Stays
  <2>7. Tally(g) \in Nat /\ Tally(f) \in Nat
    BY <1>2, TallyType
  <2>8. Tally(g) + Item(b).amount = Tally(f)
    <3>1. Tally(g) + Item(b).amount = Tally(f) + 0
      BY <1>4, <2>3, <2>5
    <3> HIDE DEF f, g
    <3> QED
      BY <2>7, <3>1
  <2> QED
    BY <1>5, <2>6, <2>7, <2>8
<1> QED
  BY <1>0, <1>6, <1>7

\* A listing adds its coupons to the ledger of its own batch.
LEMMA LedgerLists ==
  ASSUME TypeOK, TypeOK', SellerShape, BuyerShape, Fresh, [Next]_vars,
         NEW b \in Requests, NEW r \in Requests, ListOnChain(r), listing' # listing
  PROVE  /\ Ledger(b) \in Nat /\ Ledger(b)' \in Nat /\ Item(r).amount \in Nat
         /\ Ledger(b)' <= Ledger(b) + (IF b = r THEN Item(r).amount ELSE 0)
<1>0. /\ batch[b].sold \in Nat /\ listing \in [Listings -> OnChain]
      /\ req[r].at \in Nat /\ Here(r)[1] = r /\ Here(r)[2] = req[r].at
  BY DEF TypeOK, Batches, Reqs, Here
<1>1. /\ pc[r] = "list" /\ pc[r] \in ListPlaces /\ batch' = batch
      /\ listing' = [listing EXCEPT ![Here(r)] =
                       [voucher |-> Item(r).voucher, left |-> Item(r).amount]]
  BY ListEffect DEF ListPlaces
<1>2. Here(r) \in Listings /\ Item(r).amount \in Nat
  BY <1>1, ItemType
<1>3. PICK l \in Listings : l = Here(r)
  BY <1>2
<1>4. listing[l] = NoListing
  <2>1. Pending(l)
    BY <1>0, <1>1, <1>3 DEF Pending, Listed
  <2> QED
    BY <2>1 DEF Fresh
<1>5. /\ \A k \in Listings : k # l => listing'[k] = listing[k]
      /\ listing'[l].left = Item(r).amount /\ listing[l].left = 0 /\ l[1] = r
  BY <1>0, <1>1, <1>3, <1>4 DEF NoListing
<1>6. /\ LeftOf(b) \in Nat /\ LeftOf(b)' \in Nat
      /\ LeftOf(b)' = LeftOf(b) + (IF b = r THEN Item(r).amount ELSE 0)
  BY <1>2, <1>5, LeftMoves
<1>7. \A q \in Requests : ~(Pay(q) /\ pc'[q] = "find")
  <2> SUFFICES ASSUME NEW q \in Requests, Pay(q), pc'[q] = "find" PROVE FALSE
    OBVIOUS
  <2>1. pc[q] = "pay" /\ Others(r)
    BY PayEffect, ListEffect
  <2> QED
    BY <1>1, <2>1 DEF Others
<1>8. /\ AmountOf(Uncounted(b)) \in Nat /\ AmountOf(Uncounted(b))' \in Nat
      /\ AmountOf(Uncounted(b))' <= AmountOf(Uncounted(b))
  BY <1>7, UncountedShrinks
<1>9. Ledger(b)' = batch'[b].sold + LeftOf(b)' + AmountOf(Uncounted(b))'
  BY DEF Ledger
<1> QED
  BY <1>0, <1>1, <1>2, <1>6, <1>8, <1>9 DEF Ledger

\* A request that has not begun has an empty ledger.
LEMMA LedgerIdle ==
  ASSUME TypeOK, SellerShape, BuyerShape, Fresh, NEW b \in Requests, pc[b] = "idle"
  PROVE  Ledger(b) = 0
<1>1. batch[b].sold = 0
  BY DEF Fresh, Unbatched, NoBatch, NewBatch
<1>2. \A l \in Listings : l[1] = b => listing[l] = NoListing
  <2> SUFFICES ASSUME NEW l \in Listings, l[1] = b PROVE Pending(l)
    BY DEF Fresh
  <2>1. req[b].at = 1
    BY DEF SellerShape, SellerShapeOf, NoReq
  <2>2. l[2] \in Nat /\ l[2] >= 1
    BY Bounds DEF Listings
  <2> QED
    BY <2>1, <2>2 DEF Pending, Listed
<1>3. LeftOf(b) = 0
  <2> DEFINE L == {l \in Listings : l[1] = b}
             f == [l \in L |-> listing[l].left]
  <2>1. \A l \in L : listing[l].left = 0
    BY <1>2 DEF NoListing
  <2>2. IsFiniteSet(L)
    BY CodesFinite, FS_Subset
  <2>3. Tallied(f)
    BY <2>1, <2>2 DEF Tallied
  <2>4. Tally(f) = 0
    BY <2>1, <2>3, TallyZero
  <2> QED
    BY <2>4 DEF LeftOf
<1>4. Uncounted(b) = {}
  <2> SUFFICES ASSUME NEW r \in Uncounted(b) PROVE FALSE
    OBVIOUS
  <2>1. r \in Requests /\ pc[r] \in BuyPlaces /\ req[r].listing[1] = b
    BY DEF Uncounted, Running, Paid, BuyPlaces, BatchOf
  <2>2. req[r].listing \in Listings /\ listing[req[r].listing].voucher \in Vouchers
    BY <2>1, BuyerType
  <2> QED
    BY <1>2, <2>1, <2>2, Different DEF NoListing
<1> QED
  BY <1>1, <1>3, <1>4, AmountNone DEF Ledger

\* What a batch has sold, offers and has still to list stays within its items.
LEMMA WithinStep ==
  ASSUME TypeOK, TypeOK', SellerShape, SellerShape', BuyerShape, Fresh, Batched, Held,
         Within, [Next]_vars
  PROVE  Within'
<1> SUFFICES ASSUME NEW b \in Requests
    PROVE /\ (pc[b] \in ListPlaces => Ledger(b) + ToList(b) <= TotalOf(req[b].items))'
          /\ (batch[b] # NoBatch /\ pc[b] \notin ListPlaces => Ledger(b) <= batch[b].total)'
  BY DEF Within
<1>a. pc[b] \in ListPlaces =>
        Ledger(b) + ToList(b) <= TotalOf(req[b].items)
  BY DEF Within
<1>b. batch[b] # NoBatch /\ pc[b] \notin ListPlaces => Ledger(b) <= batch[b].total
  BY DEF Within
<1>c. /\ batch[b].total \in Nat /\ batch'[b].total \in Nat
      /\ ToList(b) \in Nat /\ TotalOf(req[b].items) \in Nat
  BY ToListType DEF TypeOK, Batches
<1>d. ASSUME NEW r \in Requests, ListOnChain(r), listing' # listing
      PROVE  /\ Ledger(b) \in Nat /\ Ledger(b)' \in Nat /\ Item(r).amount \in Nat
             /\ Ledger(b)' <= Ledger(b) + (IF b = r THEN Item(r).amount ELSE 0)
  BY <1>d, LedgerLists
<1>e. ASSUME listing' = listing \/ (\E r \in Requests : Pay(r))
      PROVE  Ledger(b) \in Nat /\ Ledger(b)' \in Nat /\ Ledger(b)' <= Ledger(b)
  BY <1>e, LedgerShrinks
\* The items of a request that goes on.
<1>1. ASSUME pc[b] \in ListPlaces, pc'[b] \in ListPlaces
      PROVE  req'[b].items = req[b].items
  <2>1. ASSUME NEW r \in Requests, r # b, Others(r)
        PROVE  req'[b].items = req[b].items
    BY <2>1 DEF Others
  <2>2. ASSUME NEW r \in Requests, List(r) \/ ListBatch(r) \/ Buy(r)
        PROVE  req'[b].items = req[b].items
    <3>1. Others(r) /\ pc[r] = "idle"
      BY <2>2, ArriveEffect, BuyEffect
    <3> QED
      BY <1>1, <2>1, <3>1 DEF ListPlaces
  <2>3. ASSUME NEW r \in Requests, Selling(r), ~List(r), ~ListBatch(r)
        PROVE  req'[b].items = req[b].items
    <3>1. Others(r) /\ SellerGoes(r)
      BY <2>3, SellerMoves
    <3> QED
      BY <1>1, <2>1, <3>1 DEF SellerGoes, Ended, ListPlaces
  <2>4. ASSUME NEW r \in Requests, Buying(r), ~Buy(r)
        PROVE  req'[b].items = req[b].items
    <3>1. Others(r) /\ pc[r] \in BuyPlaces
      BY <2>4, BuyerMoves
    <3> QED
      BY <1>1, <2>1, <3>1 DEF BuyPlaces, ListPlaces
  <2> QED
    BY <2>2, <2>3, <2>4, WhoSteps
<1>2. ASSUME pc'[b] \in ListPlaces
      PROVE  Ledger(b)' + ToList(b)' <= TotalOf(req'[b].items)
  <2>1. CASE pc[b] = "idle"
    <3>1. Ledger(b) = 0
      BY <2>1, LedgerIdle
    <3>2. ASSUME NEW r \in Requests, ListOnChain(r) PROVE b # r
      BY <2>1, <3>2, ListEffect
    <3>3. Ledger(b)' = 0
      <4>1. ASSUME NEW r \in Requests, ListOnChain(r), listing' # listing PROVE Ledger(b)' = 0
        BY <1>d, <3>1, <3>2, <4>1
      <4>2. ASSUME listing' = listing \/ (\E r \in Requests : Pay(r)) PROVE Ledger(b)' = 0
        BY <1>e, <3>1, <4>2
      <4> QED
        BY <4>1, <4>2, Writers
    <3>4. (ToList(b) <= TotalOf(req[b].items) /\ ToList(b) \in Nat)'
      BY ToListType, PTL
    <3> QED
      BY <3>3, <3>4
  <2>2. CASE pc[b] \in ListPlaces
    <3>1. req'[b].items = req[b].items /\ TotalOf(req'[b].items) = TotalOf(req[b].items)
      BY <1>1, <1>2, <2>2
    <3>2. ToList(b)' <= ToList(b) /\ ToList(b)' \in Nat
      BY <3>1, ToListShrinks
    <3>3. ASSUME NEW r \in Requests, ListOnChain(r), listing' # listing
          PROVE  Ledger(b)' + ToList(b)' <= Ledger(b) + ToList(b)
      <4>1. CASE r = b
        <5>1. Stays(b) /\ pc'[b] \in {"codes", "batch"}
          BY <1>2, <3>3, <4>1, ListEffect DEF Ended, ListPlaces
        <5>2. ToList(b)' + Item(b).amount = ToList(b)
          BY <3>3, <4>1, <5>1, ToListMoves
        <5> QED
          BY <1>c, <1>d, <3>2, <3>3, <4>1, <5>2
      <4>2. CASE r # b
        BY <1>c, <1>d, <3>2, <3>3, <4>2
      <4> QED
        BY <4>1, <4>2
    <3>4. ASSUME listing' = listing \/ (\E r \in Requests : Pay(r))
          PROVE  Ledger(b)' + ToList(b)' <= Ledger(b) + ToList(b)
      BY <1>c, <1>e, <3>2, <3>4
    <3>5. Ledger(b)' + ToList(b)' <= Ledger(b) + ToList(b)
      BY <3>3, <3>4, Writers
    <3>6. Ledger(b) \in Nat /\ Ledger(b)' \in Nat
      BY <1>d, <1>e, Writers
    <3> QED
      BY <1>a, <1>c, <2>2, <3>1, <3>2, <3>5, <3>6
  <2> QED
    <3>1. pc'[b] \in ListPlaces => pc[b] \in ListPlaces \cup {"idle"}
      BY PendingBack
    <3> QED
      BY <1>2, <2>1, <2>2, <3>1
<1>3. ASSUME batch'[b] # NoBatch, pc'[b] \notin ListPlaces
      PROVE  Ledger(b)' <= batch'[b].total
  <2>1. batch[b] # NoBatch /\ batch'[b].total = batch[b].total
    <3>1. ASSUME CreateBatch(b), batch' # batch PROVE FALSE
      <4>1. pc'[b] = IF req[b].early THEN "mint" ELSE "codes"
        BY <3>1, BatchEffect
      <4> QED
        BY <1>3, <4>1 DEF ListPlaces
    <3> QED
      BY <1>3, <3>1, BatchSteps
  <2>2. Ledger(b) \in Nat /\ Ledger(b)' \in Nat
    BY <1>d, <1>e, Writers
  <2>3. CASE pc[b] \in ListPlaces
    <3>1. batch[b].total = TotalOf(req[b].items)
      <4>1. ~Unbatched(b)
        BY <2>1 DEF Fresh
      <4> QED
        BY <2>3, <4>1 DEF Batched
    <3>2. Ledger(b) + ToList(b) <= batch[b].total
      BY <1>a, <2>3, <3>1
    <3>3. ASSUME NEW r \in Requests, ListOnChain(r), listing' # listing
          PROVE  Ledger(b)' <= Ledger(b) + ToList(b)
      <4>1. CASE r = b
        <5>1. Item(b).amount <= ToList(b)
          BY <3>3, <4>1, ToListMoves
        <5> QED
          BY <1>c, <1>d, <3>3, <4>1, <5>1
      <4>2. CASE r # b
        BY <1>c, <1>d, <3>3, <4>2
      <4> QED
        BY <4>1, <4>2
    <3>4. ASSUME listing' = listing \/ (\E r \in Requests : Pay(r))
          PROVE  Ledger(b)' <= Ledger(b) + ToList(b)
      BY <1>c, <1>e, <3>4
    <3>5. Ledger(b)' <= Ledger(b) + ToList(b)
      BY <3>3, <3>4, Writers
    <3> QED
      BY <1>c, <2>1, <2>2, <3>2, <3>5
  <2>4. CASE pc[b] \notin ListPlaces
    <3>1. Ledger(b) <= batch[b].total
      BY <1>b, <2>1, <2>4
    <3>2. ASSUME NEW r \in Requests, ListOnChain(r), listing' # listing
          PROVE  Ledger(b)' <= Ledger(b)
      <4>1. r # b
        BY <2>4, <3>2, ListEffect DEF ListPlaces
      <4> QED
        BY <1>d, <3>2, <4>1
    <3>3. Ledger(b)' <= Ledger(b)
      BY <1>e, <3>2, Writers
    <3> QED
      BY <1>c, <2>1, <2>2, <3>1, <3>3
  <2> QED
    BY <2>3, <2>4
<1> QED
  BY <1>2, <1>3

-----------------------------------------------------------------------------
(* Purchases that wait for each other.                                     *)

\* A purchase that is running was running for the same coupons, or begins.
LEMMA BuyingBack ==
  ASSUME TypeOK, SellerShape, BuyerShape, [Next]_vars, NEW q \in Requests,
         pc'[q] \in BuyPlaces
  PROVE  \/ pc[q] \in BuyPlaces /\ Keeps(q)
         \/ /\ Others(q) /\ owner' = owner
            /\ \E m \in Merchants, l \in Listings :
                 MayBuy(m, l) /\ req'[q].by = m /\ req'[q].listing = l
<1> DEFINE Goal == \/ pc[q] \in BuyPlaces /\ Keeps(q)
                   \/ /\ Others(q) /\ owner' = owner
                      /\ \E m \in Merchants, l \in Listings :
                           MayBuy(m, l) /\ req'[q].by = m /\ req'[q].listing = l
<1>1. ASSUME req'[q] = req[q], pc'[q] = pc[q] PROVE Goal
  BY <1>1 DEF Keeps
<1>2. ASSUME NEW r \in Requests, Others(r), r # q PROVE Goal
  BY <1>1, <1>2 DEF Others
<1>3. ASSUME NEW r \in Requests, List(r) \/ ListBatch(r) PROVE Goal
  BY <1>2, <1>3, ArriveEffect DEF BuyPlaces
<1>4. ASSUME NEW r \in Requests, Buy(r) PROVE Goal
  <2>1. CASE r = q
    <3>1. PICK m \in Merchants, l \in Listings, n \in 1 .. Issued :
            MayBuy(m, l) /\ req'[q] = BuyReq(m, l, n)
      BY <1>4, <2>1, BuyEffect
    <3>2. Others(q) /\ owner' = owner
      BY <1>4, <2>1, BuyEffect
    <3> QED
      BY <3>1, <3>2 DEF BuyReq
  <2> QED
    BY <1>2, <1>4, <2>1, BuyEffect
<1>5. ASSUME NEW r \in Requests, Selling(r), ~List(r), ~ListBatch(r) PROVE Goal
  BY <1>2, <1>5, SellerMoves DEF SellerGoes, Ended, BuyPlaces
<1>6. ASSUME NEW r \in Requests, Buying(r), ~Buy(r) PROVE Goal
  <2>1. Others(r) /\ BuyerGoes(r) /\ pc[r] \in BuyPlaces
    BY <1>6, BuyerMoves
  <2>2. CASE r = q
    <3>1. ~Ended(q)
      BY DEF Ended, BuyPlaces
    <3> QED
      BY <2>1, <2>2, <3>1 DEF BuyerGoes
  <2> QED
    BY <1>2, <2>1, <2>2
<1> QED
  BY <1>1, <1>3, <1>4, <1>5, <1>6, WhoSteps

\* A purchase that holds codes held them, or picks them.
LEMMA HoldingBack ==
  ASSUME TypeOK, SellerShape, BuyerShape, [Next]_vars, NEW q \in Requests,
         pc'[q] \in {"rows", "own"}
  PROVE  \/ pc[q] \in {"rows", "own"} /\ req'[q] = req[q]
         \/ /\ owner' = owner /\ Keeps(q)
            /\ req'[q].held \subseteq Unsold(req[q].listing)
<1> DEFINE Goal == \/ pc[q] \in {"rows", "own"} /\ req'[q] = req[q]
                   \/ /\ owner' = owner /\ Keeps(q)
                      /\ req'[q].held \subseteq Unsold(req[q].listing)
<1>1. ASSUME NEW r \in Requests, Others(r), r # q PROVE Goal
  BY <1>1 DEF Others
<1>2. ASSUME UNCHANGED <<req, pc>> PROVE Goal
  BY <1>2
<1>3. ASSUME NEW r \in Requests, List(r) \/ ListBatch(r) PROVE Goal
  BY <1>1, <1>3, ArriveEffect
<1>4. ASSUME NEW r \in Requests, Buy(r) PROVE Goal
  BY <1>1, <1>4, BuyEffect
<1>5. ASSUME NEW r \in Requests, Selling(r), ~List(r), ~ListBatch(r) PROVE Goal
  BY <1>1, <1>5, SellerMoves DEF SellerGoes, Ended
<1>6. ASSUME NEW r \in Requests, Buying(r), ~Buy(r) PROVE Goal
  <2>1. Others(r) /\ BuyerGoes(r) /\ pc[r] \in BuyPlaces
    BY <1>6, BuyerMoves
  <2>2. CASE r = q /\ pc[q] # "find"
    BY <2>1, <2>2 DEF BuyerGoes, Ended
  <2>3. CASE r = q /\ pc[q] = "find"
    <3>1. FindCodes(q)
      BY <1>6, <2>3, CheckEffect, MintTHBEffect, RecordEffect, ApproveEffect, PayEffect,
         RowEffect, OwnEffect, CountEffect, CloseEffect DEF Buying
    <3>2. PICK S \in SUBSET Unsold(req[q].listing) : req'[q] = Holding(req[q], S)
      BY <3>1, FindEffect
    <3>3. S \subseteq Codes
      BY <2>3, <3>2, BuyerType DEF Unsold, CodesOf, Codes, BuyPlaces
    <3>4. req'[q].held = S /\ Keeps(q)
      BY <3>2, <3>3, HoldingFields DEF Keeps
    <3> QED
      BY <3>1, <3>2, <3>4, FindEffect
  <2> QED
    BY <1>1, <2>1, <2>2, <2>3
<1> QED
  BY <1>2, <1>3, <1>4, <1>5, <1>6, WhoSteps

\* Polite purchases stay alone.
LEMMA AloneStep ==
  ASSUME TypeOK, TypeOK', SellerShape, BuyerShape, Fresh, Held, Alone, [Next]_vars
  PROVE  Alone'
<1> SUFFICES ASSUME polite
    PROVE  /\ (\A r, q \in Running(BuyPlaces) :
                 r # q => req[r].by # req[q].by /\ req[r].listing # req[q].listing)'
           /\ (\A r \in Running(BuyPlaces) : Shown(req[r].listing))'
           /\ (\A r \in Running({"rows", "own"}) : req[r].held \subseteq Unsold(req[r].listing))'
  BY Writers DEF Alone
<1>1. /\ \A r, q \in Requests :
           pc[r] \in BuyPlaces /\ pc[q] \in BuyPlaces /\ r # q
             => req[r].by # req[q].by /\ req[r].listing # req[q].listing
      /\ \A r \in Requests : pc[r] \in BuyPlaces => Shown(req[r].listing)
      /\ \A r \in Requests : pc[r] \in {"rows", "own"}
             => req[r].held \subseteq Unsold(req[r].listing)
  BY DEF Alone, Running
<1>2. \A l \in Listings : Shown(l) => Shown(l)'
  BY OwnerSteps DEF Shown, CodesOf, Codes
<1>3. ASSUME NEW r \in Requests, NEW q \in Requests, r # q,
             pc'[r] \in BuyPlaces, pc'[q] \in BuyPlaces
      PROVE  req'[r].by # req'[q].by /\ req'[r].listing # req'[q].listing
  <2>1. ASSUME NEW p \in Requests, NEW o \in Requests, p # o, pc'[o] \in BuyPlaces, Others(p),
               \E m \in Merchants, l \in Listings :
                 MayBuy(m, l) /\ req'[p].by = m /\ req'[p].listing = l
        PROVE  req'[p].by # req'[o].by /\ req'[p].listing # req'[o].listing
    <3>1. pc[o] \in BuyPlaces /\ req'[o] = req[o]
      BY <2>1 DEF Others
    <3> QED
      BY <2>1, <3>1 DEF MayBuy, Running
  <2>2. CASE pc[r] \in BuyPlaces /\ Keeps(r) /\ pc[q] \in BuyPlaces /\ Keeps(q)
    BY <1>1, <1>3, <2>2 DEF Keeps
  <2> QED
    BY <1>3, <2>1, <2>2, BuyingBack
<1>4. ASSUME NEW r \in Requests, pc'[r] \in BuyPlaces
      PROVE  \E c \in CodesOf(req'[r].listing) : owner'[c] # Absent
  <2>1. CASE pc[r] \in BuyPlaces /\ Keeps(r)
    <3>1. PICK l \in Listings : l = req[r].listing
      BY <2>1, BuyerType
    <3>2. Shown(l)'
      BY <1>1, <1>2, <2>1, <3>1
    <3> QED
      BY <2>1, <3>1, <3>2 DEF Keeps, Shown, CodesOf
  <2>2. ASSUME NEW m \in Merchants, NEW l \in Listings, MayBuy(m, l), req'[r].listing = l
        PROVE  \E c \in CodesOf(l) : owner'[c] # Absent
    <3>1. Shown(l)
      BY <2>2 DEF MayBuy, Shown
    <3> QED
      BY <1>2, <2>2, <3>1 DEF Shown, CodesOf
  <2> QED
    BY <1>4, <2>1, <2>2, BuyingBack
<1>5. ASSUME NEW q \in Requests, pc'[q] \in {"rows", "own"}
      PROVE  \A c \in req'[q].held : c \in CodesOf(req'[q].listing) /\ owner'[c] = None
  <2>1. CASE owner' = owner /\ Keeps(q) /\ req'[q].held \subseteq Unsold(req[q].listing)
    BY <2>1 DEF Unsold, Keeps
  <2>2. CASE pc[q] \in {"rows", "own"} /\ req'[q] = req[q]
    <3>1. req[q].held \subseteq Unsold(req[q].listing) /\ req[q].listing \in Listings
      BY <1>1, <2>2, BuyerType DEF BuyPlaces
    <3>2. req[q].held \subseteq Codes
      BY DEF TypeOK, Reqs
    <3>3. CASE \A r \in Requests : ~(Own(r) /\ owner' # owner)
      <4>1. \A c \in req[q].held : owner'[c] = owner[c]
        BY <3>1, <3>2, <3>3, OwnerSteps, Different DEF Unsold, Absent
      <4> QED
        BY <2>2, <3>1, <4>1 DEF Unsold
    <3>4. ASSUME NEW r \in Requests, Own(r), owner' # owner
          PROVE  \A c \in req'[q].held : c \in CodesOf(req'[q].listing) /\ owner'[c] = None
      <4>1. /\ req[r].held \subseteq CodesOf(req[r].listing) /\ pc[r] = "own" /\ pc'[r] = "count"
            /\ owner' = [c \in Codes |-> IF c \in req[r].held THEN req[r].by ELSE owner[c]]
        BY <3>4, OwnTakes
      <4>2. req[r].listing # req[q].listing
        BY <1>1, <1>5, <2>2, <4>1 DEF BuyPlaces
      <4>3. \A c \in req[q].held : c \notin req[r].held
        BY <3>1, <4>1, <4>2 DEF Unsold, CodesOf
      <4> QED
        BY <2>2, <3>1, <3>2, <4>1, <4>3 DEF Unsold
    <3> QED
      BY <3>3, <3>4
  <2> QED
    BY <1>5, <2>1, <2>2, HoldingBack
<1>6. \A r, q \in Running(BuyPlaces)' :
        r # q => req'[r].by # req'[q].by /\ req'[r].listing # req'[q].listing
  BY <1>3 DEF Running
<1>7. \A r \in Running(BuyPlaces)' : \E c \in CodesOf(req'[r].listing) : owner'[c] # Absent
  BY <1>4 DEF Running
<1>8. \A r \in Running({"rows", "own"})' :
        req'[r].held \subseteq {c \in CodesOf(req'[r].listing) : owner'[c] = None}
  BY <1>5 DEF Running
<1> QED
  BY <1>6, <1>7, <1>8 DEF Unsold, CodesOf, Shown

\* Nobody takes what an approved purchase needs.
LEMMA ApprovalStep ==
  ASSUME TypeOK, TypeOK', SellerShape, BuyerShape, Alone, ApprovalSuffices, [Next]_vars
  PROVE  ApprovalSuffices'
<1> SUFFICES ASSUME polite, NEW q \in Requests, pc'[q] = "pay"
    PROVE  thb'[req'[q].by] >= Cost(req'[q].amount) /\ allowance'[req'[q].by] >= Cost(req'[q].amount)
  BY Writers DEF ApprovalSuffices, Running
<1>0. /\ thb \in [Merchants -> Nat] /\ allowance \in [Merchants -> Nat]
      /\ \A r \in Requests : Cost(req[r].amount) \in Nat /\ req[r].short \in Nat
  BY CostType DEF TypeOK, Reqs
<1>1. ASSUME NEW r \in Requests, Approve(r), r = q
      PROVE  thb'[req'[q].by] >= Cost(req'[q].amount) /\ allowance'[req'[q].by] >= Cost(req'[q].amount)
  <2>1. /\ thb' = thb /\ req'[q] = req[q] /\ CanBuy(q)
        /\ allowance' = [allowance EXCEPT ![req[q].by] = Cost(req[q].amount)]
    BY <1>1, ApproveEffect DEF Ended, Stays
  <2>2. req[q].by \in Merchants
    BY <1>1, ApproveEffect, BuyerType DEF BuyPlaces
  <2> QED
    BY <1>0, <2>1, <2>2 DEF CanBuy
<1>2. ASSUME pc[q] = "pay", req'[q] = req[q]
      PROVE  thb'[req'[q].by] >= Cost(req'[q].amount) /\ allowance'[req'[q].by] >= Cost(req'[q].amount)
  <2>1. /\ thb[req[q].by] >= Cost(req[q].amount) /\ allowance[req[q].by] >= Cost(req[q].amount)
        /\ req[q].by \in Merchants
    BY <1>2, BuyerType DEF ApprovalSuffices, Running, BuyPlaces
  <2>2. ASSUME NEW r \in Requests, Pay(r) \/ Approve(r)
        PROVE  /\ Pay(r) \/ r # q
               /\ r # q => req[r].by # req[q].by /\ req[r].by \in Merchants
    <3>1. pc[r] \in {"pay", "approve"} /\ (pc[r] = "pay" \/ r # q)
      BY <1>2, <2>2, PayEffect, ApproveEffect
    <3>2. pc[r] \in BuyPlaces /\ pc[q] \in BuyPlaces
      BY <1>2, <3>1 DEF BuyPlaces
    <3>3. r # q => req[r].by # req[q].by
      BY <3>2 DEF Alone, Running
    <3>4. req[r].by \in Merchants
      BY <3>2, BuyerType
    <3>5. Pay(r) \/ r # q
      BY <1>2, <2>2, ApproveEffect
    <3> QED
      BY <3>3, <3>4, <3>5
  <2>3. ASSUME NEW r \in Requests, Pay(r) PROVE r # q
    BY <2>3, PayEffect DEF Ended
  <2>4. thb'[req[q].by] >= thb[req[q].by]
    <3>1. ASSUME NEW r \in Requests, Pay(r), thb' # thb PROVE thb'[req[q].by] >= thb[req[q].by]
      <4>1. thb' = [thb EXCEPT ![req[r].by] = @ - Cost(req[r].amount)]
        BY <3>1, PayEffect DEF Sell
      <4> QED
        BY <1>0, <2>1, <2>2, <2>3, <3>1, <4>1
    <3>2. ASSUME NEW r \in Requests, MintTHB(r), thb' # thb PROVE thb'[req[q].by] >= thb[req[q].by]
      <4>1. thb' = [thb EXCEPT ![req[r].by] = @ + req[r].short]
        BY <3>2, MintTHBEffect
      <4> QED
        BY <1>0, <2>1, <4>1
    <3>3. ASSUME NEW m \in Merchants, MintTHBToMerchant(m) PROVE thb'[req[q].by] >= thb[req[q].by]
      <4>1. thb' = [thb EXCEPT ![m] = @ + 1]
        BY <3>3, TreasuryEffect
      <4> QED
        BY <1>0, <2>1, <4>1
    <3>4. CASE thb' = thb
      BY <1>0, <2>1, <3>4
    <3> QED
      BY <3>1, <3>2, <3>3, <3>4, Writers
  <2>5. allowance'[req[q].by] = allowance[req[q].by]
    <3>1. ASSUME NEW r \in Requests, Pay(r), allowance' # allowance
          PROVE  allowance'[req[q].by] = allowance[req[q].by]
      <4>1. allowance' = [allowance EXCEPT ![req[r].by] = @ - Cost(req[r].amount)]
        BY <3>1, PayEffect DEF Sell
      <4> QED
        BY <1>0, <2>1, <2>2, <2>3, <3>1, <4>1
    <3>2. ASSUME NEW r \in Requests, Approve(r), allowance' # allowance
          PROVE  allowance'[req[q].by] = allowance[req[q].by]
      <4>1. r # q
        BY <1>2, <3>2, ApproveEffect
      <4> QED
        BY <1>0, <2>1, <2>2, <3>2, <4>1, ApproveEffect
    <3> QED
      BY <3>1, <3>2, Writers
  <2> QED
    BY <1>0, <1>2, <2>1, <2>4, <2>5 DEF TypeOK
<1>3. ASSUME NEW r \in Requests, Others(r), r # q
      PROVE  thb'[req'[q].by] >= Cost(req'[q].amount) /\ allowance'[req'[q].by] >= Cost(req'[q].amount)
  BY <1>2, <1>3 DEF Others
<1>4. ASSUME NEW r \in Requests, Others(r), r = q, pc[q] # "approve"
      PROVE  ~Buying(q) \/ Buy(q)
  <2> SUFFICES ASSUME Buying(q), ~Buy(q) PROVE FALSE
    OBVIOUS
  <2> QED
    BY <1>4, BuyerMoves DEF BuyerGoes, Ended
<1>5. ASSUME NEW r \in Requests, Buying(r), ~Buy(r)
      PROVE  thb'[req'[q].by] >= Cost(req'[q].amount) /\ allowance'[req'[q].by] >= Cost(req'[q].amount)
  <2>1. Others(r)
    BY <1>5, BuyerMoves
  <2>2. CASE r = q
    <3>1. pc[q] = "approve"
      BY <1>4, <1>5, <2>1, <2>2
    <3>2. Approve(q)
      BY <1>5, <2>2, <3>1, CheckEffect, MintTHBEffect, RecordEffect, PayEffect, FindEffect,
         RowEffect, OwnEffect, CountEffect, CloseEffect DEF Buying
    <3> QED
      BY <1>1, <3>2
  <2> QED
    BY <1>3, <2>1, <2>2
<1>6. ASSUME NEW r \in Requests, Selling(r), ~List(r), ~ListBatch(r)
      PROVE  thb'[req'[q].by] >= Cost(req'[q].amount) /\ allowance'[req'[q].by] >= Cost(req'[q].amount)
  BY <1>3, <1>6, SellerMoves DEF SellerGoes, Ended
<1>7. ASSUME NEW r \in Requests, List(r) \/ ListBatch(r) \/ Buy(r)
      PROVE  thb'[req'[q].by] >= Cost(req'[q].amount) /\ allowance'[req'[q].by] >= Cost(req'[q].amount)
  BY <1>3, <1>7, ArriveEffect, BuyEffect
<1> QED
  BY <1>2, <1>5, <1>6, <1>7, WhoSteps

-----------------------------------------------------------------------------
(* THB and coupons.                                                        *)

\* A seller's step changes the seller's own coupons, and no THB.
LEMMA SellerTokens ==
  ASSUME TypeOK, NEW r \in Requests, Selling(r), NEW m \in Merchants
  PROVE  /\ \A v \in Vouchers : tokens'[v][m] = tokens[v][m]
         /\ UNCHANGED <<thb, allowance, mintRows, granted, buyRows, polite>>
<1>0. tokens \in [Vouchers -> [Wallets -> Nat]] /\ m \in Wallets /\ m # Seller
  BY Different DEF TypeOK, Wallets
<1>1. ASSUME NEW u, NEW n, tokens' = [tokens EXCEPT ![u][Seller] = n], NEW v \in Vouchers
      PROVE  tokens'[v][m] = tokens[v][m]
  BY <1>0, <1>1
<1>2. ASSUME NEW v \in Vouchers PROVE tokens'[v][m] = tokens[v][m]
  <2>1. \/ tokens' = tokens
        \/ tokens' = [tokens EXCEPT ![Item(r).voucher][Seller] = @ + Item(r).amount]
        \/ tokens' = [tokens EXCEPT ![Item(r).voucher][Seller] = @ - Item(r).amount]
    BY ArriveEffect, AdmitEffect, BatchEffect, MintEffect, ListEffect, CodesEffect,
       SyncEffect DEF Selling, Quiet
  <2> QED
    BY <1>1, <2>1
<1>3. UNCHANGED <<thb, allowance, mintRows, granted, buyRows, polite>>
  BY ArriveEffect, AdmitEffect, BatchEffect, MintEffect, ListEffect, CodesEffect,
     SyncEffect DEF Selling, Quiet
<1> QED
  BY <1>2, <1>3

\* A merchant who pays loses the price of each coupon he gets.
LEMMA PayTokens ==
  ASSUME TypeOK, BuyerShape, NEW r \in Requests, Pay(r), ~Ended(r)
  PROVE  /\ req[r].by \in Merchants /\ req[r].amount \in Nat /\ req[r].amount >= 1
         /\ listing[req[r].listing].voucher \in Vouchers
         /\ \A m \in Merchants :
              thb'[m] = thb[m] - (IF m = req[r].by THEN Cost(req[r].amount) ELSE 0)
         /\ \A m \in Merchants, v \in Vouchers :
              tokens'[v][m] = tokens[v][m]
                + (IF m = req[r].by /\ v = listing[req[r].listing].voucher
                   THEN req[r].amount ELSE 0)
<1> DEFINE w == listing[req[r].listing].voucher
           b == req[r].by
           n == req[r].amount
<1>1. b \in Merchants /\ n \in Nat /\ n >= 1 /\ w \in Vouchers /\ Cost(n) \in Nat
  BY PayEffect, BuyerType, CostType DEF BuyPlaces
<1>2. tokens \in [Vouchers -> [Wallets -> Nat]] /\ thb \in [Merchants -> Nat]
      /\ Merchants \subseteq Wallets
  BY DEF TypeOK, Wallets
<1>3. tokens' = [tokens EXCEPT ![w][b] = @ + n] /\ thb' = [thb EXCEPT ![b] = @ - Cost(n)]
  BY PayEffect DEF Sell
<1> HIDE DEF w, b, n
<1>4. \A m \in Merchants : thb'[m] = thb[m] - (IF m = b THEN Cost(n) ELSE 0)
  BY <1>1, <1>2, <1>3
<1>5. \A m \in Merchants, v \in Vouchers :
        tokens'[v][m] = tokens[v][m] + (IF m = b /\ v = w THEN n ELSE 0)
  <2> SUFFICES ASSUME NEW m \in Merchants, NEW v \in Vouchers
      PROVE tokens'[v][m] = tokens[v][m] + (IF m = b /\ v = w THEN n ELSE 0)
    OBVIOUS
  <2>1. tokens[v][m] \in Nat
    BY <1>2
  <2>2. CASE v = w
    <3>1. tokens'[v] = [tokens[v] EXCEPT ![b] = @ + n]
      BY <1>2, <1>3, <2>2
    <3>2. tokens[v] \in [Wallets -> Nat]
      BY <1>2
    <3>3. CASE m = b
      BY <1>1, <1>2, <2>2, <3>1, <3>2, <3>3
    <3>4. CASE m # b
      BY <1>1, <1>2, <2>1, <2>2, <3>1, <3>2, <3>4
    <3> QED
      BY <3>3, <3>4
  <2>3. CASE v # w
    BY <1>2, <1>3, <2>1, <2>3
  <2> QED
    BY <2>2, <2>3
<1> QED
  BY <1>1, <1>4, <1>5 DEF w, b, n

\* The coupons of a merchant, of all vouchers, are a number.
LEMMA TokensType ==
  ASSUME TypeOK, NEW m \in Merchants
  PROVE  /\ TokensOf(m) \in Nat /\ Tallied([v \in Vouchers |-> tokens[v][m]])
<1> DEFINE f == [v \in Vouchers |-> tokens[v][m]]
<1>1. Tallied(f)
  BY Finite DEF Tallied, TypeOK, Wallets
<1>2. Tally(f) \in Nat
  BY <1>1, TallyType
<1> QED
  BY <1>1, <1>2 DEF TokensOf

\* A payment adds the coupons that were paid for.
LEMMA TokensMove ==
  ASSUME TypeOK, TypeOK', BuyerShape, NEW r \in Requests, Pay(r), ~Ended(r),
         NEW m \in Merchants
  PROVE  TokensOf(m)' = TokensOf(m) + (IF m = req[r].by THEN req[r].amount ELSE 0)
<1> DEFINE f == [v \in Vouchers |-> tokens[v][m]]
           g == [v \in Vouchers |-> tokens'[v][m]]
           w == listing[req[r].listing].voucher
           n == IF m = req[r].by THEN req[r].amount ELSE 0
<1>1. /\ w \in Vouchers /\ n \in Nat
      /\ \A v \in Vouchers :
           tokens'[v][m] = tokens[v][m] + (IF v = w THEN n ELSE 0)
  BY PayTokens
<1> HIDE DEF w, n
<1>2. \A v \in Vouchers : tokens[v][m] \in Nat /\ tokens'[v][m] \in Nat
  BY DEF TypeOK, Wallets
<1>3. Tallied(f) /\ Tallied(g)
  BY <1>2, Finite DEF Tallied
<1>4. \A y : y # w => ValueAt(f, y) = ValueAt(g, y)
  BY <1>1, <1>2 DEF ValueAt
<1>5. ValueAt(f, w) \in Nat /\ ValueAt(g, w) = ValueAt(f, w) + n
  BY <1>1, <1>2 DEF ValueAt
<1>6. Tally(g) + ValueAt(f, w) = Tally(f) + ValueAt(g, w)
  BY <1>3, <1>4, TallyChange
<1>7. Tally(f) \in Nat /\ Tally(g) \in Nat
  BY <1>3, TallyType
<1>8. Tally(g) = Tally(f) + n
  BY <1>1, <1>5, <1>6, <1>7
<1>9. Tally(f) = TokensOf(m) /\ Tally(g) = TokensOf(m)'
  BY DEF TokensOf
<1> QED
  BY <1>8, <1>9 DEF n

\* Requests of a merchant whose THB is minted and not recorded.
Owing(m) == {r \in Running({"mintRow", "unrecorded"}) : req[r].by = m}

\* What was minted and not recorded is a number.
LEMMA OwingType ==
  ASSUME TypeOK, NEW m
  PROVE  ShortOf(Owing(m)) \in Nat
<1> DEFINE f == [r \in Owing(m) |-> req[r].short]
<1>1. Owing(m) \subseteq Requests
  BY DEF Owing, Running
<1>2. Tallied(f)
  BY <1>1, Finite, FS_Subset DEF Tallied, TypeOK, Reqs
<1>3. Tally(f) \in Nat
  BY <1>2, TallyType
<1> QED
  BY <1>3 DEF ShortOf

\* What was minted and not recorded changes only by the request that moves.
LEMMA OwingMoves ==
  ASSUME TypeOK, TypeOK', NEW r \in Requests, Others(r), NEW m
  PROVE  /\ ShortOf(Owing(m)) \in Nat /\ ShortOf(Owing(m))' \in Nat
         /\ ShortOf(Owing(m))'
              + (IF pc[r] \in {"mintRow", "unrecorded"} /\ req[r].by = m
                 THEN req[r].short ELSE 0)
            = ShortOf(Owing(m))
              + (IF pc'[r] \in {"mintRow", "unrecorded"} /\ req'[r].by = m
                 THEN req'[r].short ELSE 0)
<1> DEFINE R == Owing(m)  S == Owing(m)'
           f == [q \in R |-> req[q].short]
           g == [q \in S |-> req'[q].short]
<1>1. R \subseteq Requests /\ S \subseteq Requests
  BY DEF Owing, Running
<1>2. \A q \in Requests : q # r => (q \in R <=> q \in S) /\ req'[q] = req[q]
  BY DEF Owing, Running, Others
<1>3. /\ r \in R <=> pc[r] \in {"mintRow", "unrecorded"} /\ req[r].by = m
      /\ r \in S <=> pc'[r] \in {"mintRow", "unrecorded"} /\ req'[r].by = m
  BY DEF Owing, Running
<1>4. Tally(f) = ShortOf(Owing(m)) /\ Tally(g) = ShortOf(Owing(m))'
  BY DEF ShortOf
<1>5. /\ \A q \in Requests : req[q].short \in Nat /\ req'[q].short \in Nat
      /\ IsFiniteSet(R) /\ IsFiniteSet(S)
  BY <1>1, Finite, FS_Subset DEF TypeOK, Reqs
<1> HIDE DEF R, S
<1>6. Tallied(f) /\ Tallied(g)
  BY <1>1, <1>5 DEF Tallied
<1>7. \A y : y # r => ValueAt(f, y) = ValueAt(g, y)
  BY <1>1, <1>2 DEF ValueAt
<1>8. Tally(g) + ValueAt(f, r) = Tally(f) + ValueAt(g, r)
  BY <1>6, <1>7, TallyChange
<1>9. /\ ValueAt(f, r) = (IF r \in R THEN req[r].short ELSE 0)
      /\ ValueAt(g, r) = (IF r \in S THEN req'[r].short ELSE 0)
  BY DEF ValueAt
<1>10. Tally(f) \in Nat /\ Tally(g) \in Nat
  BY <1>6, TallyType
<1> HIDE DEF f, g
<1> QED
  BY <1>3, <1>4, <1>8, <1>9, <1>10

\* What was minted is what is known of it, but for what the rows cut off.
Balanced(minted, known, cut) == known <= minted /\ minted <= known + cut

\* The books of THB balance after every step.
LEMMA MintedStep ==
  ASSUME TypeOK, TypeOK', SellerShape, BuyerShape, MintedIsAccounted, [Next]_vars
  PROVE  MintedIsAccounted'
<1> SUFFICES ASSUME NEW m \in Merchants
    PROVE Balanced(thb'[m] + Cost(TokensOf(m)'),
                   Unit * mintRows'[m].thb + granted'[m] + ShortOf(Owing(m))',
                   (Unit - 1) * mintRows'[m].rows)
  BY DEF MintedIsAccounted, Owing, Balanced, Cost
<1> DEFINE Goal == Balanced(thb'[m] + Cost(TokensOf(m)'),
                            Unit * mintRows'[m].thb + granted'[m] + ShortOf(Owing(m))',
                            (Unit - 1) * mintRows'[m].rows)
<1>a. Balanced(thb[m] + Cost(TokensOf(m)),
               Unit * mintRows[m].thb + granted[m] + ShortOf(Owing(m)),
               (Unit - 1) * mintRows[m].rows)
  BY DEF MintedIsAccounted, Owing, Balanced
<1>b. /\ thb \in [Merchants -> Nat] /\ mintRows \in [Merchants -> Minted]
      /\ granted \in [Merchants -> Nat] /\ TokensOf(m) \in Nat
      /\ \A r \in Requests : req[r].short \in Nat /\ req'[r].short \in Nat
  BY TokensType DEF TypeOK, Reqs
<1>c. /\ Unit \in Nat /\ Unit - 1 \in Nat
      /\ Unit * mintRows[m].thb \in Nat /\ (Unit - 1) * mintRows[m].rows \in Nat
      /\ mintRows[m].thb \in Nat /\ mintRows[m].rows \in Nat
      /\ Cost(TokensOf(m)) \in Nat /\ ShortOf(Owing(m)) \in Nat
      /\ thb[m] \in Nat /\ granted[m] \in Nat
  <2>1. Unit \in Nat /\ Unit - 1 \in Nat
    BY Bounds
  <2>2. mintRows[m].thb \in Nat /\ mintRows[m].rows \in Nat
    BY <1>b DEF Minted
  <2>3. Cost(TokensOf(m)) \in Nat /\ ShortOf(Owing(m)) \in Nat
    BY <1>b, CostType, OwingType
  <2>4. thb[m] \in Nat /\ granted[m] \in Nat
    BY <1>b
  <2>5. Unit * mintRows[m].thb \in Nat /\ (Unit - 1) * mintRows[m].rows \in Nat
    BY <2>1, <2>2
  <2> QED
    BY <2>1, <2>2, <2>3, <2>4, <2>5
<1>1. ASSUME thb' = thb, mintRows' = mintRows, granted' = granted,
             \A v \in Vouchers : tokens'[v][m] = tokens[v][m],
             ShortOf(Owing(m))' = ShortOf(Owing(m))
      PROVE  Goal
  <2>1. TokensOf(m)' = TokensOf(m)
    BY <1>1 DEF TokensOf
  <2> QED
    BY <1>1, <1>a, <2>1
<1>2. ASSUME UNCHANGED <<req, pc>> PROVE ShortOf(Owing(m))' = ShortOf(Owing(m))
  BY <1>2 DEF Owing, Running, ShortOf
<1>3. ASSUME NEW r \in Requests, Others(r),
             pc[r] \in {"mintRow", "unrecorded"} \/ pc'[r] \in {"mintRow", "unrecorded"}
               => \/ pc[r] \in {"mintRow", "unrecorded"} /\ pc'[r] \in {"mintRow", "unrecorded"}
                     /\ req'[r] = req[r]
                  \/ pc[r] \notin {"mintRow", "unrecorded"} /\ req'[r].short = 0
      PROVE  ShortOf(Owing(m))' = ShortOf(Owing(m))
  BY <1>3, <1>b, OwingMoves
<1>4. ASSUME UNCHANGED vars \/ (\E v \in Vouchers : CreateType(v) \/ PersistVoucher(v))
               \/ (\E w \in Merchants : Whitelist(w))
               \/ (\E W \in SUBSET Missing(Merchants) : WhitelistBatch(W))
      PROVE  Goal
  BY <1>1, <1>2, <1>4, QuietEffect DEF Quiet
<1>5. ASSUME NEW w \in Merchants, MintTHBToMerchant(w) PROVE Goal
  <2>1. /\ UNCHANGED <<tokens, mintRows, req, pc>>
        /\ thb' = [thb EXCEPT ![w] = @ + 1] /\ granted' = [granted EXCEPT ![w] = @ + 1]
    BY <1>5, TreasuryEffect
  <2>2. TokensOf(m)' = TokensOf(m) /\ ShortOf(Owing(m))' = ShortOf(Owing(m))
    BY <1>2, <2>1 DEF TokensOf
  <2>3. \/ thb'[m] = thb[m] /\ granted'[m] = granted[m]
        \/ thb'[m] = thb[m] + 1 /\ granted'[m] = granted[m] + 1
    BY <1>b, <2>1
  <2> QED
    BY <1>a, <1>c, <2>1, <2>2, <2>3 DEF Balanced
<1>6. ASSUME NEW r \in Requests, Selling(r) PROVE Goal
  <2>1. /\ UNCHANGED <<thb, mintRows, granted>>
        /\ \A v \in Vouchers : tokens'[v][m] = tokens[v][m]
    BY <1>6, SellerTokens
  <2>2. CASE List(r) \/ ListBatch(r)
    BY <1>1, <1>3, <2>1, <2>2, ArriveEffect
  <2>3. CASE ~List(r) /\ ~ListBatch(r)
    BY <1>1, <1>3, <1>6, <2>1, <2>3, SellerMoves DEF SellerGoes, Ended, ListPlaces
  <2> QED
    BY <2>2, <2>3
<1>7. ASSUME NEW r \in Requests, Pay(r), ~Ended(r) PROVE Goal
  <2>1. /\ Others(r) /\ req'[r] = req[r] /\ pc[r] = "pay" /\ req[r].short = 0
        /\ mintRows' = mintRows /\ granted' = granted
    BY <1>7, PayEffect DEF Stays, BuyerShape, BuyerShapeOf, BuyPlaces
  <2>2. ShortOf(Owing(m))' = ShortOf(Owing(m))
    BY <1>3, <2>1
  <2>3. /\ TokensOf(m)' = TokensOf(m) + (IF m = req[r].by THEN req[r].amount ELSE 0)
        /\ thb'[m] = thb[m] - (IF m = req[r].by THEN Cost(req[r].amount) ELSE 0)
        /\ req[r].amount \in Nat
    BY <1>7, PayTokens, TokensMove
  <2>4. /\ Cost(req[r].amount) \in Nat
        /\ Cost(TokensOf(m) + req[r].amount) = Cost(TokensOf(m)) + Cost(req[r].amount)
    BY <1>b, <2>3, CostType
  <2>5. thb'[m] + Cost(TokensOf(m)') = thb[m] + Cost(TokensOf(m))
    BY <1>b, <1>c, <2>3, <2>4
  <2> QED
    BY <1>a, <2>1, <2>2, <2>5
<1>8. ASSUME NEW r \in Requests, MintTHB(r), ~Ended(r) PROVE Goal
  <2>1. /\ Others(r) /\ req'[r] = req[r] /\ pc[r] = "mintTHB"
        /\ pc'[r] \in {"mintRow", "unrecorded"}
        /\ UNCHANGED <<tokens, mintRows, granted>>
        /\ thb' = [thb EXCEPT ![req[r].by] = @ + req[r].short] /\ req[r].by \in Merchants
    BY <1>8, MintTHBEffect, BuyerType DEF Stays, BuyPlaces
  <2>2. thb'[m] = thb[m] + (IF req[r].by = m THEN req[r].short ELSE 0)
    BY <1>b, <2>1
  <2>3. /\ ShortOf(Owing(m)) \in Nat /\ ShortOf(Owing(m))' \in Nat
        /\ ShortOf(Owing(m))' = ShortOf(Owing(m)) + (IF req[r].by = m THEN req[r].short ELSE 0)
    BY <1>b, <2>1, OwingMoves
  <2>4. TokensOf(m)' = TokensOf(m)
    BY <2>1 DEF TokensOf
  <2> QED
    BY <1>a, <1>b, <1>c, <2>1, <2>2, <2>3, <2>4 DEF Balanced
<1>9. ASSUME NEW r \in Requests, RecordMint(r), pc'[r] = "approve" PROVE Goal
  <2>1. /\ Others(r) /\ req'[r] = Lacking(req[r], 0) /\ pc[r] = "mintRow"
        /\ pc'[r] = "approve" /\ UNCHANGED <<tokens, thb, granted>>
        /\ mintRows' = [mintRows EXCEPT ![req[r].by] =
               [rows |-> @.rows + 1, thb |-> @.thb + WholeTHB(req[r].short)]]
        /\ req[r].by \in Merchants
    BY <1>9, RecordEffect, BuyerType DEF BuyPlaces
  <2>2. /\ ShortOf(Owing(m)) \in Nat /\ ShortOf(Owing(m))' \in Nat
        /\ ShortOf(Owing(m))' + (IF req[r].by = m THEN req[r].short ELSE 0) = ShortOf(Owing(m))
    BY <1>b, <2>1, OwingMoves
  <2>3. TokensOf(m)' = TokensOf(m)
    BY <2>1 DEF TokensOf
  <2>4. CASE req[r].by # m
    <3>1. mintRows'[m] = mintRows[m] /\ ShortOf(Owing(m))' = ShortOf(Owing(m))
      BY <1>b, <2>1, <2>2, <2>4
    <3> QED
      BY <1>a, <2>1, <2>3, <3>1
  <2>5. CASE req[r].by = m
    <3> DEFINE w == WholeTHB(req[r].short)
    <3>1. mintRows'[m].rows = mintRows[m].rows + 1 /\ mintRows'[m].thb = mintRows[m].thb + w
      BY <1>b, <2>1, <2>5 DEF Minted
    <3>2. /\ w \in Nat /\ Unit * w \in Nat /\ Unit * w <= req[r].short
          /\ req[r].short <= Unit * w + (Unit - 1) /\ req[r].short \in Nat
      BY <1>b, WholeType
    <3> HIDE DEF w
    <3>3. Unit * (mintRows[m].thb + w) = Unit * mintRows[m].thb + Unit * w
      BY <1>c, <3>2
    <3>4. (Unit - 1) * (mintRows[m].rows + 1) = (Unit - 1) * mintRows[m].rows + (Unit - 1)
      BY <1>c
    <3>5. /\ Unit * mintRows'[m].thb = Unit * mintRows[m].thb + Unit * w
          /\ (Unit - 1) * mintRows'[m].rows = (Unit - 1) * mintRows[m].rows + (Unit - 1)
      BY <3>1, <3>3, <3>4
    <3>6. ShortOf(Owing(m))' + req[r].short = ShortOf(Owing(m)) /\ ShortOf(Owing(m))' \in Nat
      BY <2>2, <2>5
    <3>7. thb'[m] = thb[m] /\ granted'[m] = granted[m] /\ Cost(TokensOf(m)') = Cost(TokensOf(m))
      BY <2>1, <2>3
    <3> QED
      BY <1>a, <1>c, <3>2, <3>5, <3>6, <3>7 DEF Balanced
  <2> QED
    BY <2>4, <2>5
<1>10. ASSUME NEW r \in Requests, Buying(r), ~Buy(r), ~(Pay(r) /\ ~Ended(r)),
              ~(MintTHB(r) /\ ~Ended(r)), ~(RecordMint(r) /\ pc'[r] = "approve")
       PROVE  Goal
  <2>1. UNCHANGED <<thb, mintRows, granted, tokens>>
    BY <1>10, CheckEffect, MintTHBEffect, RecordEffect, ApproveEffect, PayEffect, FindEffect,
       RowEffect, OwnEffect, CountEffect, CloseEffect DEF Buying, Ended
  <2>2. Others(r) /\ BuyerGoes(r) /\ pc[r] \in BuyPlaces
    BY <1>10, BuyerMoves
  <2>3. pc[r] = "mintTHB" => Ended(r)
    <3>1. pc[r] = "mintTHB" => MintTHB(r)
      BY <1>10, CheckEffect, RecordEffect, ApproveEffect, PayEffect, FindEffect,
         RowEffect, OwnEffect, CountEffect, CloseEffect DEF Buying
    <3> QED
      BY <1>10, <3>1
  <2>4. pc[r] = "mintRow" => pc'[r] = "unrecorded" /\ req'[r] = req[r]
    <3>1. pc[r] = "mintRow" => RecordMint(r)
      BY <1>10, CheckEffect, MintTHBEffect, ApproveEffect, PayEffect, FindEffect,
         RowEffect, OwnEffect, CountEffect, CloseEffect DEF Buying
    <3> QED
      BY <1>10, <3>1, RecordEffect DEF Stays
  <2>5. pc[r] \in BuyPlaces \ {"mintTHB", "mintRow"} => req[r].short = 0
    BY DEF BuyerShape, BuyerShapeOf
  <2>6. ShortOf(Owing(m))' = ShortOf(Owing(m))
    BY <1>3, <2>2, <2>3, <2>4, <2>5 DEF BuyerGoes, Ended, BuyPlaces
  <2> QED
    BY <1>1, <2>1, <2>6
<1>11. ASSUME NEW r \in Requests, Buy(r) PROVE Goal
  BY <1>1, <1>3, <1>11, BuyEffect
<1> HIDE DEF Goal
<1>12. ASSUME NEW r \in Requests, Buying(r) PROVE Goal
  BY <1>7, <1>8, <1>9, <1>10, <1>11, <1>12
<1>13. Goal
  BY <1>4, <1>5, <1>6, <1>12 DEF Next
<1> QED
  BY <1>13 DEF Goal

-----------------------------------------------------------------------------
(* Codes and coupons.                                                      *)

Has(r, m, v) == req[r].by = m /\ listing[req[r].listing].voucher = v

\* Coupons that merchant m has and that no code of his accounts for.
Gap(m, v) == tokens[v][m] - Cardinality(CodesOwned(m, v)) - AmountOf(For(m, v, Paid))

\* A purchase is for coupons of the same voucher to the end.
LEMMA HasStays ==
  ASSUME TypeOK, SellerShape, BuyerShape, Fresh, [Next]_vars, NEW r \in Requests,
         pc[r] \in BuyPlaces \cup BuyEnds, Keeps(r), NEW m, NEW v
  PROVE  Has(r, m, v)' <=> Has(r, m, v)
<1>1. PICK l \in Listings : l = req[r].listing
  BY BuyerType
<1>2. listing'[l].voucher = listing[l].voucher
  BY <1>1, BuyerType, ListingSteps
<1> QED
  BY <1>1, <1>2 DEF Has, Keeps

\* What a merchant has paid for changes only by the request that moves.
LEMMA ForMoves ==
  ASSUME TypeOK, TypeOK', SellerShape, BuyerShape, Fresh, [Next]_vars,
         NEW r \in Requests, Others(r), NEW m, NEW v
  PROVE  /\ AmountOf(For(m, v, Paid)) \in Nat /\ AmountOf(For(m, v, Paid))' \in Nat
         /\ AmountOf(For(m, v, Paid))'
              + (IF pc[r] \in Paid /\ Has(r, m, v) THEN req[r].amount ELSE 0)
            = AmountOf(For(m, v, Paid))
              + (IF pc'[r] \in Paid /\ Has(r, m, v)' THEN req'[r].amount ELSE 0)
<1> DEFINE R == For(m, v, Paid)  S == For(m, v, Paid)'
<1>1. R \subseteq Requests /\ S \subseteq Requests
  BY DEF For, Running
<1>2. \A q \in Requests : /\ q \in R <=> pc[q] \in Paid /\ Has(q, m, v)
                          /\ q \in S <=> pc'[q] \in Paid /\ Has(q, m, v)'
  BY DEF For, Running, Has
<1>3. \A q \in Requests : q # r => (q \in R <=> q \in S)
  <2> SUFFICES ASSUME NEW q \in Requests, q # r PROVE q \in R <=> q \in S
    OBVIOUS
  <2>1. pc'[q] = pc[q] /\ Keeps(q)
    BY DEF Others, Keeps
  <2>2. pc[q] \in Paid => pc[q] \in BuyPlaces \cup BuyEnds
    BY DEF Paid, BuyPlaces
  <2> QED
    BY <1>2, <2>1, <2>2, HasStays
<1>4. AmountOf(For(m, v, Paid))' = Tally([q \in S |-> req'[q].amount])
  BY DEF AmountOf
<1>5. AmountOf(R) = AmountOf(For(m, v, Paid))
  OBVIOUS
<1> HIDE DEF R, S
<1>6. /\ AmountOf(R) \in Nat /\ Tally([q \in S |-> req'[q].amount]) \in Nat
      /\ Tally([q \in S |-> req'[q].amount]) + (IF r \in R THEN req[r].amount ELSE 0)
           = AmountOf(R) + (IF r \in S THEN req'[r].amount ELSE 0)
  BY <1>1, <1>3, AmountMoves
<1> QED
  BY <1>2, <1>4, <1>5, <1>6

\* A listing that has codes keeps its voucher.
LEMMA CodeVoucher ==
  ASSUME TypeOK, SellerShape, BuyerShape, Fresh, [Next]_vars, NEW c \in Codes,
         owner[c] # Absent
  PROVE  listing'[c[1]].voucher = listing[c[1]].voucher
<1>0. c[1] \in Listings /\ listing \in [Listings -> OnChain]
  BY DEF Codes, TypeOK
<1>1. ASSUME NEW r \in Requests, ListOnChain(r), listing' # listing
      PROVE  listing'[c[1]] = listing[c[1]]
  <2>1. /\ pc[r] = "list" /\ req[r].at \in Nat /\ Here(r)[1] = r /\ Here(r)[2] = req[r].at
        /\ listing' = [listing EXCEPT ![Here(r)] =
                         [voucher |-> Item(r).voucher, left |-> Item(r).amount]]
    BY <1>1, ListEffect DEF TypeOK, Reqs, Here
  <2>2. Uncoded(Here(r))
    BY <2>1 DEF Uncoded, Pending, Listed, ListPlaces
  <2>3. c[1] # Here(r)
    BY <2>2 DEF Fresh
  <2> QED
    BY <1>0, <2>1, <2>3
<1>2. ASSUME NEW r \in Requests, Pay(r), listing' # listing
      PROVE  listing'[c[1]].voucher = listing[c[1]].voucher
  <2>1. listing' = [listing EXCEPT ![req[r].listing] =
                      [voucher |-> @.voucher, left |-> @.left - req[r].amount]]
    BY <1>2, PayEffect DEF Sell
  <2> QED
    BY <1>0, <2>1
<1> QED
  BY <1>1, <1>2, Writers

\* Only Own changes which codes a merchant owns.
LEMMA OwnedSteps ==
  ASSUME TypeOK, SellerShape, BuyerShape, Fresh, Held, [Next]_vars,
         \A r \in Requests : ~(Own(r) /\ pc'[r] = "count"),
         NEW m \in Merchants, NEW v
  PROVE  CodesOwned(m, v)' = CodesOwned(m, v)
<1> SUFFICES ASSUME NEW c \in Codes
    PROVE owner'[c] = m /\ listing'[c[1]].voucher = v
            <=> owner[c] = m /\ listing[c[1]].voucher = v
  BY DEF CodesOwned
<1>0. m # Absent /\ None # m
  BY Different DEF Absent
<1>1. CASE owner[c] = Absent
  <2>1. owner'[c] # m
    BY <1>0, <1>1, OwnerSteps
  <2> QED
    BY <1>0, <1>1, <2>1
<1>2. CASE owner[c] # Absent
  <2>1. owner'[c] = owner[c]
    <3>1. CASE \A r \in Requests : ~Own(r)
      BY <1>2, <3>1, OwnerSteps
    <3>2. ASSUME NEW r \in Requests, Own(r) PROVE owner' = owner
      BY <3>2, OwnEffect
    <3> QED
      BY <3>1, <3>2
  <2> QED
    BY <1>2, <2>1, CodeVoucher
<1> QED
  BY <1>1, <1>2

\* The codes that Own hands over.
LEMMA OwnedMoves ==
  ASSUME TypeOK, SellerShape, BuyerShape, Held, NEW r \in Requests, Own(r), pc'[r] = "count",
         NEW m \in Merchants, NEW v \in Vouchers
  PROVE  /\ Has(r, m, v) => CodesOwned(m, v)' = CodesOwned(m, v) \cup req[r].held
         /\ ~Has(r, m, v) => CodesOwned(m, v)' \subseteq CodesOwned(m, v)
         /\ ~Has(r, m, v) /\ req[r].held \subseteq Unsold(req[r].listing)
              => CodesOwned(m, v)' = CodesOwned(m, v)
<1>1. /\ req[r].held \subseteq CodesOf(req[r].listing) /\ listing' = listing
      /\ owner' = [c \in Codes |-> IF c \in req[r].held THEN req[r].by ELSE owner[c]]
  BY OwnTakes, OwnEffect
<1>2. req[r].held \subseteq Codes
  BY DEF TypeOK, Reqs
<1>3. \A c \in req[r].held : c \in Codes /\ c[1] = req[r].listing
  BY <1>1, <1>2 DEF CodesOf
<1>4. CodesOwned(m, v)' = {c \in Codes : owner'[c] = m /\ listing[c[1]].voucher = v}
  BY <1>1 DEF CodesOwned
<1>5. CASE Has(r, m, v)
  BY <1>1, <1>3, <1>4, <1>5 DEF Has, CodesOwned
<1>6. CASE ~Has(r, m, v)
  <2>1. CodesOwned(m, v)' \subseteq CodesOwned(m, v)
    BY <1>1, <1>3, <1>4, <1>6 DEF Has, CodesOwned
  <2>2. ASSUME req[r].held \subseteq Unsold(req[r].listing)
        PROVE  CodesOwned(m, v) \subseteq CodesOwned(m, v)'
    <3>1. \A c \in req[r].held : owner[c] # m
      BY <2>2, Different DEF Unsold
    <3> QED
      BY <1>1, <1>4, <3>1 DEF CodesOwned
  <2> QED
    BY <1>6, <2>1, <2>2
<1> QED
  BY <1>5, <1>6

\* Codes are counted.
LEMMA OwnedType ==
  ASSUME NEW m, NEW v
  PROVE  IsFiniteSet(CodesOwned(m, v)) /\ Cardinality(CodesOwned(m, v)) \in Nat
BY CodesFinite, FS_Subset, FS_CardinalityType DEF CodesOwned

\* What merchants have paid for is a number.
LEMMA ForType ==
  ASSUME TypeOK, NEW m, NEW v
  PROVE  AmountOf(For(m, v, Paid)) \in Nat
BY AmountType DEF For, Running

\* Both sides of the comparison of coupons and codes are numbers.
LEMMA GapType ==
  ASSUME TypeOK, NEW m \in Merchants, NEW v \in Vouchers
  PROVE  /\ tokens[v][m] \in Nat /\ Cardinality(CodesOwned(m, v)) \in Nat
         /\ AmountOf(For(m, v, Paid)) \in Nat
<1>1. tokens[v][m] \in Nat
  BY DEF TypeOK, Wallets
<1> QED
  BY <1>1, OwnedType, ForType

\* A purchase that failed after its payment stays on record.
LEMMA UnrecordedStays ==
  ASSUME TypeOK, SellerShape, BuyerShape, Fresh, [Next]_vars, NEW m, NEW v,
         For(m, v, {"unrecorded"})' = {}
  PROVE  For(m, v, {"unrecorded"}) = {}
<1> SUFFICES ASSUME NEW q \in Requests, pc[q] = "unrecorded", Has(q, m, v) PROVE FALSE
  BY DEF For, Running, Has
<1>1. pc'[q] = "unrecorded" /\ req'[q] = req[q]
  <2>1. ASSUME NEW r \in Requests, Others(r), pc[r] # "unrecorded"
        PROVE  pc'[q] = "unrecorded" /\ req'[q] = req[q]
    BY <2>1 DEF Others
  <2>2. ASSUME NEW r \in Requests, List(r) \/ ListBatch(r) \/ Buy(r)
        PROVE  pc'[q] = "unrecorded" /\ req'[q] = req[q]
    BY <2>1, <2>2, ArriveEffect, BuyEffect
  <2>3. ASSUME NEW r \in Requests, Selling(r), ~List(r), ~ListBatch(r)
        PROVE  pc'[q] = "unrecorded" /\ req'[q] = req[q]
    BY <2>1, <2>3, SellerMoves DEF ListPlaces
  <2>4. ASSUME NEW r \in Requests, Buying(r), ~Buy(r)
        PROVE  pc'[q] = "unrecorded" /\ req'[q] = req[q]
    BY <2>1, <2>4, BuyerMoves DEF BuyPlaces
  <2> QED
    BY <2>2, <2>3, <2>4, WhoSteps
<1>2. Has(q, m, v)'
  BY <1>1, HasStays DEF Keeps, BuyEnds
<1> QED
  BY <1>1, <1>2 DEF For, Running, Has

\* No step takes a coupon from a merchant without one of his codes, and a
\* polite purchase hands over a code for each coupon or fails.
LEMMA GapStep ==
  ASSUME TypeOK, TypeOK', SellerShape, BuyerShape, Fresh, Held, Alone, [Next]_vars,
         NEW m \in Merchants, NEW v \in Vouchers
  PROVE  /\ Gap(m, v)' >= Gap(m, v)
         /\ polite => Gap(m, v)' = Gap(m, v) \/ For(m, v, {"unrecorded"})' # {}
<1> DEFINE Goal == /\ Gap(m, v)' >= Gap(m, v)
                   /\ polite => Gap(m, v)' = Gap(m, v) \/ For(m, v, {"unrecorded"})' # {}
           T == tokens[v][m]
           O == Cardinality(CodesOwned(m, v))
           F == AmountOf(For(m, v, Paid))
<1>0. /\ Gap(m, v) = T - O - F /\ Gap(m, v)' = T' - O' - F'
      /\ T \in Nat /\ T' \in Nat
      /\ O \in Nat /\ O' \in Nat
      /\ \A r \in Requests : req[r].amount \in Nat /\ req'[r].amount \in Nat
  <2>1. Gap(m, v) = T - O - F /\ Gap(m, v)' = T' - O' - F'
    BY DEF Gap
  <2>2. T \in Nat /\ T' \in Nat
    BY DEF TypeOK, Wallets
  <2>3. O \in Nat
    BY OwnedType
  <2>4. O' \in Nat
    <3>1. CodesOwned(m, v)' \subseteq Codes
      BY DEF CodesOwned
    <3>2. Cardinality(CodesOwned(m, v)') \in Nat
      BY <3>1, CodesFinite, FS_Subset, FS_CardinalityType
    <3> QED
      BY <3>2
  <2>5. \A r \in Requests : req[r].amount \in Nat /\ req'[r].amount \in Nat
    BY DEF TypeOK, Reqs
  <2> QED
    BY <2>1, <2>2, <2>3, <2>4, <2>5
<1>f. F \in Nat
  BY ForType
<1>o. ASSUME CodesOwned(m, v)' = CodesOwned(m, v) PROVE O' = O
  BY <1>o
<1> HIDE DEF T, O, F
<1>1. ASSUME T' = T, CodesOwned(m, v)' = CodesOwned(m, v), F' = F PROVE Goal
  BY <1>0, <1>f, <1>o, <1>1
\* Steps of nobody's request.
<1>2. ASSUME UNCHANGED <<tokens, listing, owner, req, pc>> PROVE Goal
  <2>1. T' = T /\ CodesOwned(m, v)' = CodesOwned(m, v)
    BY <1>2 DEF T, CodesOwned
  <2>2. F' = F
    BY <1>2 DEF F, For, Running, AmountOf
  <2> QED
    BY <1>1, <2>1, <2>2
\* Steps of a request that has not paid.
<1>3. ASSUME NEW r \in Requests, Others(r), pc[r] \notin Paid, pc'[r] \notin Paid PROVE F' = F
  BY <1>f, <1>3, ForMoves DEF F
<1>4. ASSUME NEW r \in Requests, Selling(r) PROVE Goal
  <2>1. T' = T
    BY <1>4, SellerTokens DEF T
  <2>2. Others(r) /\ pc[r] \notin Paid /\ pc'[r] \notin Paid /\ pc[r] # "own"
    <3>1. CASE List(r) \/ ListBatch(r)
      BY <3>1, ArriveEffect DEF Paid
    <3>2. CASE ~List(r) /\ ~ListBatch(r)
      BY <1>4, <3>2, SellerMoves DEF SellerGoes, Ended, Paid, ListPlaces
    <3> QED
      BY <3>1, <3>2
  <2>3. ASSUME NEW q \in Requests, Own(q), pc'[q] = "count" PROVE FALSE
    <3>1. pc[q] = "own"
      BY <2>3, OwnEffect
    <3> QED
      BY <2>2, <2>3, <3>1 DEF Others
  <2> QED
    BY <1>1, <1>3, <2>1, <2>2, <2>3, OwnedSteps
<1>5. ASSUME NEW r \in Requests, Buy(r) PROVE Goal
  <2>1. T' = T /\ CodesOwned(m, v)' = CodesOwned(m, v)
    BY <1>5, BuyEffect DEF T, CodesOwned
  <2>2. F' = F
    BY <1>3, <1>5, BuyEffect DEF Paid
  <2> QED
    BY <1>1, <2>1, <2>2
<1>6. ASSUME NEW r \in Requests, Pay(r), ~Ended(r) PROVE Goal
  <2>1. /\ Others(r) /\ req'[r] = req[r] /\ pc[r] = "pay" /\ pc'[r] \in {"find", "unrecorded"}
    BY <1>6, PayEffect DEF Stays
  <2>2. Has(r, m, v)' <=> Has(r, m, v)
    BY <2>1, HasStays DEF Keeps, BuyPlaces
  <2>3. T' = T + (IF Has(r, m, v) THEN req[r].amount ELSE 0)
    BY <1>6, PayTokens DEF T, Has
  <2>4. CodesOwned(m, v)' = CodesOwned(m, v)
    <3>1. ASSUME NEW q \in Requests, Own(q), pc'[q] = "count" PROVE FALSE
      <4>1. pc[q] = "own"
        BY <3>1, OwnEffect
      <4> QED
        BY <2>1, <3>1, <4>1 DEF Others
    <3> QED
      BY <3>1, OwnedSteps
  <2>5. F' = F + (IF pc'[r] = "find" /\ Has(r, m, v) THEN req[r].amount ELSE 0)
    <3>1. pc[r] \notin Paid /\ (pc'[r] \in Paid <=> pc'[r] = "find")
      BY <2>1 DEF Paid
    <3> QED
      BY <1>0, <1>f, <2>1, <2>2, <3>1, ForMoves DEF F
  <2>6. pc'[r] = "unrecorded" /\ Has(r, m, v) => For(m, v, {"unrecorded"})' # {}
    BY <2>2 DEF For, Running, Has
  <2> QED
    BY <1>0, <1>f, <1>o, <2>1, <2>3, <2>4, <2>5, <2>6
<1>7. ASSUME NEW r \in Requests, Own(r), pc'[r] = "count" PROVE Goal
  <2>1. /\ Others(r) /\ req'[r] = req[r] /\ pc[r] = "own" /\ tokens' = tokens
        /\ Cardinality(req[r].held) = req[r].amount
        /\ req[r].held \subseteq CodesOf(req[r].listing)
    BY <1>7, OwnTakes, OwnEffect
  <2>2. T' = T
    BY <2>1 DEF T
  <2>3. F' + (IF Has(r, m, v) THEN req[r].amount ELSE 0) = F /\ F' \in Nat
    <3>1. pc[r] \in Paid /\ pc'[r] \notin Paid
      BY <1>7, <2>1 DEF Paid
    <3> QED
      BY <1>0, <1>f, <2>1, <3>1, ForMoves DEF F
  <2>4. /\ IsFiniteSet(CodesOwned(m, v)) /\ IsFiniteSet(req[r].held)
        /\ Cardinality(req[r].held) \in Nat
    BY <2>1, OwnedType, CodesFinite, FS_Subset, FS_CardinalityType
  <2>5. polite => req[r].held \subseteq Unsold(req[r].listing)
    BY <2>1 DEF Alone, Running
  <2>6. CASE Has(r, m, v)
    <3>1. CodesOwned(m, v)' = CodesOwned(m, v) \cup req[r].held
      BY <1>7, <2>6, OwnedMoves
    <3>2. O' = Cardinality(CodesOwned(m, v) \cup req[r].held)
      BY <3>1 DEF O
    <3>3. O' = O + req[r].amount - Cardinality(CodesOwned(m, v) \cap req[r].held)
      BY <2>1, <2>4, <3>2, FS_Union DEF O
    <3>4. Cardinality(CodesOwned(m, v) \cap req[r].held) \in Nat
      BY <2>4, FS_Subset, FS_CardinalityType
    <3>5. polite => Cardinality(CodesOwned(m, v) \cap req[r].held) = 0
      <4>1. polite => CodesOwned(m, v) \cap req[r].held = {}
        BY <2>5, Different DEF CodesOwned, Unsold
      <4> QED
        BY <4>1, FS_EmptySet
    <3> QED
      BY <1>0, <1>f, <2>2, <2>3, <2>6, <3>3, <3>4, <3>5
  <2>7. CASE ~Has(r, m, v)
    <3>1. CodesOwned(m, v)' \subseteq CodesOwned(m, v)
      BY <1>7, <2>7, OwnedMoves
    <3>2. Cardinality(CodesOwned(m, v)') <= Cardinality(CodesOwned(m, v))
      BY <2>4, <3>1, FS_Subset
    <3>3. O' <= O
      BY <3>2 DEF O
    <3>4. polite => O' = O
      BY <1>7, <1>o, <2>5, <2>7, OwnedMoves
    <3>5. F' = F
      <4>1. pc[r] \in Paid /\ pc'[r] \notin Paid
        BY <1>7, <2>1 DEF Paid
      <4> QED
        BY <1>f, <2>7, <2>1, <4>1, ForMoves DEF F
    <3>6. T - O' - F >= T - O - F
      <4>1. \A t, o, p, f \in Nat : p <= o => t - p - f >= t - o - f
        OBVIOUS
      <4>2. T \in Nat /\ O \in Nat /\ O' \in Nat /\ F \in Nat
        BY <1>0, <1>f
      <4> QED
        BY <3>3, <4>1, <4>2
    <3>7. T' - O' - F' >= T - O - F
      BY <2>2, <3>5, <3>6
    <3>8. polite => T' - O' - F' = T - O - F
      BY <2>2, <3>4, <3>5
    <3> QED
      BY <1>0, <3>7, <3>8
  <2> QED
    BY <2>6, <2>7
<1>8. ASSUME NEW r \in Requests, Buying(r), ~Buy(r), ~(Pay(r) /\ ~Ended(r)),
             ~(Own(r) /\ pc'[r] = "count")
      PROVE  Goal
  <2>1. tokens' = tokens
    BY <1>8, CheckEffect, MintTHBEffect, RecordEffect, ApproveEffect, PayEffect, FindEffect,
       RowEffect, OwnEffect, CountEffect, CloseEffect DEF Buying, Ended
  <2>2. Others(r) /\ BuyerGoes(r) /\ pc[r] \in BuyPlaces
    BY <1>8, BuyerMoves
  <2>3. T' = T
    BY <2>1 DEF T
  <2>4. pc[r] = "pay" => Ended(r)
    <3>1. pc[r] = "pay" => Pay(r)
      BY <1>8, CheckEffect, MintTHBEffect, RecordEffect, ApproveEffect, FindEffect,
         RowEffect, OwnEffect, CountEffect, CloseEffect DEF Buying
    <3> QED
      BY <1>8, <3>1
  <2>5. pc[r] = "own" => pc'[r] = "unrecorded"
    <3>1. pc[r] = "own" => Own(r)
      BY <1>8, CheckEffect, MintTHBEffect, RecordEffect, ApproveEffect, PayEffect, FindEffect,
         RowEffect, CountEffect, CloseEffect DEF Buying
    <3> QED
      BY <1>8, <3>1, OwnEffect
  <2>6. CodesOwned(m, v)' = CodesOwned(m, v)
    <3>1. ASSUME NEW q \in Requests, Own(q), pc'[q] = "count" PROVE FALSE
      <4>1. pc[q] = "own"
        BY <3>1, OwnEffect
      <4>2. q = r
        BY <2>2, <3>1, <4>1 DEF Others
      <4> QED
        BY <1>8, <3>1, <4>2
    <3> QED
      BY <3>1, OwnedSteps
  <2>7. CASE pc[r] \notin Paid
    <3>1. pc'[r] \notin Paid
      BY <2>2, <2>4, <2>7 DEF BuyerGoes, Ended, Paid, BuyPlaces
    <3> QED
      BY <1>1, <1>3, <2>2, <2>3, <2>6, <2>7, <3>1
  <2>8. CASE pc[r] \in Paid
    <3>1. Keeps(r) /\ (pc'[r] \in Paid \/ pc'[r] = "unrecorded")
      BY <2>2, <2>5, <2>8 DEF BuyerGoes, Ended, Paid
    <3>2. Has(r, m, v)' <=> Has(r, m, v)
      BY <2>2, <3>1, HasStays
    <3>3. CASE pc'[r] \in Paid
      <4>1. req'[r].amount = req[r].amount /\ req[r].amount \in Nat
        BY <1>0, <3>1 DEF Keeps
      <4>2. /\ F' \in Nat
            /\ F' + (IF pc[r] \in Paid /\ Has(r, m, v) THEN req[r].amount ELSE 0)
                 = F + (IF pc'[r] \in Paid /\ Has(r, m, v)' THEN req'[r].amount ELSE 0)
        BY <2>2, ForMoves DEF F
      <4>3. F' = F
        BY <1>f, <2>8, <3>2, <3>3, <4>1, <4>2
      <4> QED
        BY <1>1, <2>3, <2>6, <4>3
    <3>4. CASE pc'[r] = "unrecorded"
      <4>1. pc'[r] \notin Paid
        BY <3>4 DEF Paid
      <4>2. F' + (IF Has(r, m, v) THEN req[r].amount ELSE 0) = F /\ F' \in Nat
        BY <1>0, <1>f, <2>2, <2>8, <4>1, ForMoves DEF F
      <4>3. Has(r, m, v) => For(m, v, {"unrecorded"})' # {}
        BY <3>2, <3>4 DEF For, Running, Has
      <4> QED
        BY <1>0, <1>f, <1>o, <2>3, <2>6, <4>2, <4>3
    <3> QED
      BY <3>1, <3>3, <3>4
  <2> QED
    BY <2>7, <2>8
<1>9. ASSUME UNCHANGED vars \/ (\E u \in Vouchers : CreateType(u) \/ PersistVoucher(u))
               \/ (\E w \in Merchants : Whitelist(w))
               \/ (\E W \in SUBSET Missing(Merchants) : WhitelistBatch(W))
      PROVE  Goal
  BY <1>2, <1>9, QuietEffect DEF Quiet
<1>10. ASSUME NEW w \in Merchants, MintTHBToMerchant(w) PROVE Goal
  BY <1>2, <1>10, TreasuryEffect
<1> HIDE DEF Goal
<1>11. ASSUME NEW r \in Requests, Buying(r) PROVE Goal
  BY <1>5, <1>6, <1>7, <1>8, <1>11
<1>12. Goal
  BY <1>4, <1>9, <1>10, <1>11 DEF Next
<1> QED
  BY <1>12 DEF Goal

\* No merchant gets a code without a coupon.
LEMMA NoCodeStep ==
  ASSUME TypeOK, TypeOK', SellerShape, BuyerShape, Fresh, Held, Alone,
         NoCodeWithoutCoupon, [Next]_vars
  PROVE  NoCodeWithoutCoupon'
<1> SUFFICES ASSUME NEW m \in Merchants, NEW v \in Vouchers
    PROVE (Cardinality(CodesOwned(m, v)) + AmountOf(For(m, v, Paid)) <= tokens[v][m])'
  BY DEF NoCodeWithoutCoupon
<1>1. Gap(m, v)' >= Gap(m, v)
  BY GapStep
<1>2. Cardinality(CodesOwned(m, v)) + AmountOf(For(m, v, Paid)) <= tokens[v][m]
  BY DEF NoCodeWithoutCoupon
<1>3. /\ tokens[v][m] \in Nat /\ Cardinality(CodesOwned(m, v)) \in Nat
      /\ AmountOf(For(m, v, Paid)) \in Nat
  BY GapType
<1>4. (/\ tokens[v][m] \in Nat /\ Cardinality(CodesOwned(m, v)) \in Nat
       /\ AmountOf(For(m, v, Paid)) \in Nat)'
  BY GapType, PTL
<1>5. Gap(m, v)' >= 0
  BY <1>1, <1>2, <1>3, <1>4 DEF Gap
<1> QED
  BY <1>4, <1>5 DEF Gap

\* Where polite purchases have not failed, coupons and codes are the same.
LEMMA HandsOverStep ==
  ASSUME TypeOK, TypeOK', SellerShape, BuyerShape, Fresh, Held, Alone, HandsOver,
         [Next]_vars
  PROVE  HandsOver'
<1> SUFFICES ASSUME polite, NEW m \in Merchants, NEW v \in Vouchers,
                    For(m, v, {"unrecorded"})' = {}
    PROVE (tokens[v][m] = Cardinality(CodesOwned(m, v)) + AmountOf(For(m, v, Paid)))'
  BY Writers DEF HandsOver
<1>1. Gap(m, v)' = Gap(m, v)
  BY GapStep
<1>2. tokens[v][m] = Cardinality(CodesOwned(m, v)) + AmountOf(For(m, v, Paid))
  BY UnrecordedStays DEF HandsOver
<1>3. /\ tokens[v][m] \in Nat /\ Cardinality(CodesOwned(m, v)) \in Nat
      /\ AmountOf(For(m, v, Paid)) \in Nat
  BY GapType
<1>4. (/\ tokens[v][m] \in Nat /\ Cardinality(CodesOwned(m, v)) \in Nat
       /\ AmountOf(For(m, v, Paid)) \in Nat)'
  BY GapType, PTL
<1>5. Gap(m, v)' = 0
  BY <1>1, <1>2, <1>3, <1>4 DEF Gap
<1> QED
  BY <1>4, <1>5 DEF Gap

-----------------------------------------------------------------------------
(* Full batches, and codes for those who have paid.                        *)

\* What a batch has sold, offers and was paid for stays within its total.
LEMMA LedgerWithin ==
  ASSUME TypeOK, SellerShape, Fresh, Batched, Within,
         NEW b \in Requests, batch[b] # NoBatch
  PROVE  /\ batch[b].sold \in Nat /\ batch[b].total \in Nat
         /\ LeftOf(b) \in Nat /\ AmountOf(Uncounted(b)) \in Nat
         /\ Ledger(b) = batch[b].sold + LeftOf(b) + AmountOf(Uncounted(b))
         /\ Ledger(b) <= batch[b].total
<1>1. /\ batch[b].sold \in Nat /\ batch[b].total \in Nat
      /\ LeftOf(b) \in Nat /\ AmountOf(Uncounted(b)) \in Nat
  <2>1. Uncounted(b) \subseteq Requests
    BY DEF Uncounted, Running
  <2> QED
    BY <2>1, LeftType, AmountType DEF TypeOK, Batches
<1>2. Ledger(b) = batch[b].sold + LeftOf(b) + AmountOf(Uncounted(b))
  BY DEF Ledger
<1>3. CASE pc[b] \in ListPlaces
  <2>1. ToList(b) \in Nat /\ TotalOf(req[b].items) \in Nat
    BY ToListType
  <2>2. batch[b].total = TotalOf(req[b].items)
    BY <1>3 DEF Fresh, Batched
  <2>3. Ledger(b) + ToList(b) <= TotalOf(req[b].items)
    BY <1>3 DEF Within
  <2> QED
    BY <1>1, <1>2, <2>1, <2>2, <2>3
<1>4. CASE pc[b] \notin ListPlaces
  BY <1>1, <1>2, <1>4 DEF Within
<1> QED
  BY <1>3, <1>4

\* A request that has paid and was not counted leaves room for its coupons.
LEMMA RoomToCount ==
  ASSUME TypeOK, SellerShape, BuyerShape, Fresh, Batched, Within,
         NEW r \in Requests, pc[r] = "count", batch[BatchOf(r)] # NoBatch
  PROVE  batch[BatchOf(r)].sold + req[r].amount <= batch[BatchOf(r)].total
<1>1. BatchOf(r) \in Requests /\ req[r].amount \in Nat
  BY BuyerType DEF BuyPlaces
<1>2. PICK b \in Requests : b = BatchOf(r)
  BY <1>1
<1>3. Uncounted(b) \subseteq Requests /\ r \in Uncounted(b)
  BY <1>2 DEF Uncounted, Running
<1>4. req[r].amount <= AmountOf(Uncounted(b))
  BY <1>3, AmountType
<1> QED
  BY <1>1, <1>2, <1>4, LedgerWithin

\* A batch is marked when it is full and only then.
LEMMA SoldOutStep ==
  ASSUME TypeOK, TypeOK', SellerShape, BuyerShape, Fresh, Batched, Held, Within,
         SoldOutWhenFull, [Next]_vars
  PROVE  SoldOutWhenFull'
<1> DEFINE Last(q, b)  == pc[q] \in {"close", "unclosed"} /\ BatchOf(q) = b
           Full(b)     == batch[b] # NoBatch /\ batch[b].sold = batch[b].total
           Marked(b)   == batch[b].soldOut
           Goal(b)     == /\ Marked(b)' => batch'[b].sold = batch'[b].total
                          /\ Full(b)' => \/ Marked(b)'
                                         \/ \E q \in Requests : Last(q, b)'
<1> SUFFICES ASSUME NEW b \in Requests PROVE Goal(b)
  BY DEF SoldOutWhenFull, Running
<1>0. /\ batch \in [Requests -> Batches]
      /\ batch[b].sold \in Nat /\ batch[b].total \in Nat /\ batch[b].soldOut \in BOOLEAN
  BY DEF TypeOK, Batches
<1>1. /\ Marked(b) => batch[b].sold = batch[b].total
      /\ Full(b) => Marked(b) \/ \E q \in Requests : Last(q, b)
  BY DEF SoldOutWhenFull, Running
<1>2. ASSUME NEW q \in Requests, Last(q, b), ~Close(q) PROVE Last(q, b)'
  <2>1. ASSUME req'[q] = req[q], pc'[q] = pc[q] PROVE Last(q, b)'
    BY <1>2, <2>1 DEF BatchOf
  <2> HIDE DEF Last
  <2>2. pc[q] \in {"close", "unclosed"}
    BY <1>2 DEF Last
  <2>3. ASSUME NEW r \in Requests, Others(r), pc[r] # pc[q] PROVE Last(q, b)'
    BY <2>1, <2>3 DEF Others
  <2>4. ASSUME NEW r \in Requests, List(r) \/ ListBatch(r) \/ Buy(r) PROVE Last(q, b)'
    BY <2>2, <2>3, <2>4, ArriveEffect, BuyEffect
  <2>5. ASSUME NEW r \in Requests, Selling(r), ~List(r), ~ListBatch(r) PROVE Last(q, b)'
    BY <2>2, <2>3, <2>5, SellerMoves DEF ListPlaces
  <2>6. ASSUME NEW r \in Requests, Buying(r), ~Buy(r) PROVE Last(q, b)'
    <3>1. CASE r = q
      BY <1>2, <2>2, <2>6, <3>1, CheckEffect, MintTHBEffect, RecordEffect, ApproveEffect,
         PayEffect, FindEffect, RowEffect, OwnEffect, CountEffect DEF Buying
    <3>2. CASE r # q
      BY <2>1, <2>6, <3>2, BuyerMoves DEF Others
    <3> QED
      BY <3>1, <3>2
  <2> QED
    BY <2>1, <2>4, <2>5, <2>6, WhoSteps
<1>3. ASSUME NEW r \in Requests, Close(r), BatchOf(r) = b PROVE Goal(b)
  <2>1. Others(r) /\ req'[r] = req[r]
    BY <1>3, CloseEffect DEF Stays
  <2>2. CASE pc'[r] = "unclosed" /\ batch' = batch
    <3>1. Last(r, b)'
      BY <1>3, <2>1, <2>2 DEF BatchOf
    <3> QED
      BY <1>1, <2>2, <3>1
  <2>3. CASE batch' = [batch EXCEPT ![BatchOf(r)] =
                         [total |-> @.total, sold |-> @.sold,
                          soldOut |-> @.soldOut \/ SoldOut(@)]]
    <3>1. /\ batch'[b].sold = batch[b].sold /\ batch'[b].total = batch[b].total
          /\ batch'[b].soldOut = (batch[b].soldOut \/ batch[b].sold >= batch[b].total)
      BY <1>0, <1>3, <2>3 DEF SoldOut
    <3>2. batch[b].sold <= batch[b].total
      <4>1. CASE batch[b] = NoBatch
        BY <4>1 DEF NoBatch, NewBatch
      <4>2. CASE batch[b] # NoBatch
        BY <4>2, LedgerWithin
      <4> QED
        BY <4>1, <4>2
    <3>3. batch[b].soldOut => batch[b].sold = batch[b].total
      BY <1>1
    <3>4. batch'[b].soldOut => batch'[b].sold = batch'[b].total
      BY <1>0, <3>1, <3>2, <3>3
    <3>5. batch[b].sold >= batch[b].total => batch'[b].soldOut
      BY <3>1
    <3>6. batch'[b].sold = batch'[b].total => batch[b].sold >= batch[b].total
      BY <1>0, <3>1
    <3> QED
      BY <3>4, <3>5, <3>6
  <2> QED
    BY <1>3, <2>2, <2>3, CloseEffect
<1>4. ASSUME NEW r \in Requests, Count(r), BatchOf(r) = b, batch' # batch PROVE Goal(b)
  <2>1. /\ req'[r] = req[r] /\ pc[r] = "count" /\ pc'[r] = "close"
        /\ batch' = [batch EXCEPT ![BatchOf(r)] =
                       [total |-> @.total, sold |-> @.sold + req[r].amount,
                        soldOut |-> @.soldOut]]
    BY <1>4, CountEffect DEF Stays
  <2>2. Last(r, b)'
    BY <1>4, <2>1 DEF BatchOf
  <2>3. batch'[b].soldOut = batch[b].soldOut
    BY <1>0, <1>4, <2>1
  <2>4. ~batch[b].soldOut
    <3>1. req[r].amount \in Nat /\ req[r].amount >= 1
      BY <2>1, BuyerType DEF BuyPlaces
    <3>2. batch[b] # NoBatch => batch[b].sold + req[r].amount <= batch[b].total
      BY <1>4, <2>1, RoomToCount
    <3>3. batch[b] = NoBatch => ~batch[b].soldOut
      BY DEF NoBatch, NewBatch
    <3> QED
      BY <1>0, <1>1, <3>1, <3>2, <3>3
  <2> QED
    BY <2>2, <2>3, <2>4
<1>5. ASSUME CreateBatch(b), batch' # batch PROVE Goal(b)
  <2>1. pc[b] = "batch" /\ batch' = [batch EXCEPT ![b] = NewBatch(TotalOf(req[b].items))]
    BY <1>5, BatchEffect
  <2>2. TotalOf(req[b].items) \in Nat /\ TotalOf(req[b].items) >= 1
    BY <2>1, TotalPositive DEF ListPlaces
  <2>3. batch'[b] = NewBatch(TotalOf(req[b].items))
    BY <1>0, <2>1
  <2>4. /\ batch'[b].sold = 0 /\ batch'[b].total = TotalOf(req[b].items)
        /\ batch'[b].soldOut = FALSE
    BY <2>3 DEF NewBatch
  <2> QED
    BY <2>2, <2>4
<1>6. ASSUME batch'[b] = batch[b],
             \A r \in Requests : ~(Close(r) /\ BatchOf(r) = b)
      PROVE  Goal(b)
  <2>1. \A q \in Requests : Last(q, b) => Last(q, b)'
    BY <1>2, <1>6
  <2>2. (Full(b)' <=> Full(b)) /\ (Marked(b)' <=> Marked(b))
    BY <1>6
  <2> QED
    BY <1>1, <1>6, <2>1, <2>2
<1>7. ASSUME \A r \in Requests : ~(Close(r) /\ BatchOf(r) = b), batch'[b] # batch[b]
      PROVE  \/ CreateBatch(b) \/ \E r \in Requests : Count(r) /\ BatchOf(r) = b
  <2>1. ASSUME NEW r \in Requests, CreateBatch(r) PROVE r = b
    BY <1>0, <1>7, <2>1, BatchEffect
  <2>2. ASSUME NEW r \in Requests, Count(r) PROVE BatchOf(r) = b
    BY <1>0, <1>7, <2>2, CountEffect
  <2>3. ASSUME NEW r \in Requests, Close(r) PROVE BatchOf(r) = b
    BY <1>0, <1>7, <2>3, CloseEffect
  <2> QED
    BY <1>7, <2>1, <2>2, <2>3, Writers
<1> HIDE DEF Goal
<1> QED
  BY <1>3, <1>4, <1>5, <1>6, <1>7

\* A polite merchant who has paid finds his codes.
LEMMA CodesAreFound ==
  ASSUME TypeOK, BuyerShape, Supply, Alone
  PROVE  PaidFindsCodes
<1> SUFFICES ASSUME polite, NEW r \in Running({"find"})
    PROVE Cardinality(Unsold(req[r].listing)) >= req[r].amount
  BY DEF PaidFindsCodes
<1>1. r \in Requests /\ pc[r] = "find" /\ pc[r] \in BuyPlaces
  BY DEF Running, BuyPlaces
<1>2. req[r].listing \in Listings /\ req[r].amount \in Nat
  BY <1>1, BuyerType
<1>3. PICK l \in Listings : l = req[r].listing
  BY <1>2
<1>4. Shown(l)
  BY <1>1, <1>3 DEF Alone, Running
<1>5. listing[l].left + AmountOf(PaidFor(l)) <= Cardinality(Unsold(l))
  BY <1>4 DEF Supply
<1>6. r \in PaidFor(l) /\ PaidFor(l) \subseteq Requests
  BY <1>1, <1>3 DEF PaidFor, Running, Paid
<1>7. AmountOf(PaidFor(l)) \in Nat /\ req[r].amount <= AmountOf(PaidFor(l))
  BY <1>6, AmountType
<1>8. listing[l].left \in Nat /\ Cardinality(Unsold(l)) \in Nat
  BY CodesFinite, FS_CardinalityType DEF TypeOK, OnChain
<1> QED
  BY <1>2, <1>3, <1>5, <1>7, <1>8

\* What the books of a batch say.
LEMMA TotalsHold ==
  ASSUME TypeOK, SellerShape, Fresh, Batched, Within
  PROVE  SoldWithinTotal
<1> SUFFICES ASSUME NEW b \in Requests, batch[b] # NoBatch
    PROVE batch[b].sold + LeftOf(b) + AmountOf(Uncounted(b)) <= batch[b].total
  BY DEF SoldWithinTotal, Uncounted
<1> QED
  BY LedgerWithin

-----------------------------------------------------------------------------
(* The theorems.                                                           *)

\* The invariant holds at first, when nothing is there.
LEMMA InitInvariant ==
  Init => IInv
<1> SUFFICES ASSUME Init PROVE IInv
  OBVIOUS
<1>1. NoReq \in Reqs /\ NoListing \in OnChain /\ NoBatch \in Batches
  BY Bounds DEF NoReq, Reqs, NoListing, OnChain, NoBatch, NewBatch, Batches
<1>m. [rows |-> 0, thb |-> 0] \in Minted
  BY DEF Minted
<1>2. TypeOK
  BY <1>1, <1>m DEF Init, TypeOK, Places
<1>3. SellerShape /\ BuyerShape
  BY DEF Init, SellerShape, SellerShapeOf, BuyerShape, BuyerShapeOf, ListPlaces, BuyPlaces,
         BuyEnds
<1>4. Fresh
  BY <1>2 DEF Init, Fresh, NoListing, TypeOK, Uncoded, Codes, Absent
<1>5. Batched
  <2>1. \A r \in Requests : batch[r] = NoBatch /\ pc[r] \notin ListPlaces
    BY DEF Init, ListPlaces
  <2>2. \A c \in Codes : owner[c] = Absent
    BY DEF Init
  <2> QED
    BY <2>1, <2>2 DEF Batched
<1>6. Held /\ Recorded
  BY DEF Init, Held, Recorded, Running, Picked
<1>7. Running(Paid \cup {"count"}) = {} /\ Running(Paid) = {} /\ Running(BuyPlaces) = {}
  BY DEF Init, Running, Paid, BuyPlaces
<1>8. Supply
  <2>1. \A l \in Listings : ~Shown(l)
    BY DEF Init, Shown, CodesOf, Codes
  <2>2. \A r \in Requests : ~Coding(r)
    BY DEF Init, Coding, Listed
  <2> QED
    BY <2>1, <2>2 DEF Supply
<1>9. Within
  <2>1. \A b \in Requests : pc[b] \notin ListPlaces /\ batch[b] = NoBatch
    BY DEF Init, ListPlaces
  <2> QED
    BY <2>1 DEF Within
<1>10. Alone /\ ApprovalSuffices
  BY <1>7 DEF Init, Alone, ApprovalSuffices, Running
<1>11. \A m \in Merchants, v \in Vouchers :
         /\ tokens[v][m] = 0 /\ CodesOwned(m, v) = {} /\ For(m, v, Paid) = {}
  <2>1. \A m \in Merchants, v \in Vouchers : tokens[v][m] = 0
    BY DEF Init, Wallets
  <2>2. \A m \in Merchants, v \in Vouchers : CodesOwned(m, v) = {}
    BY Different DEF Init, CodesOwned, Absent
  <2>3. \A m \in Merchants, v \in Vouchers : For(m, v, Paid) = {}
    BY <1>7 DEF For
  <2> QED
    BY <2>1, <2>2, <2>3
<1>12. NoCodeWithoutCoupon /\ HandsOver
  <2>1. Cardinality({}) = 0 /\ AmountOf({}) = 0
    BY FS_EmptySet, AmountNone
  <2>2. \A m \in Merchants, v \in Vouchers :
          /\ tokens[v][m] = 0 /\ Cardinality(CodesOwned(m, v)) = 0
          /\ AmountOf(For(m, v, Paid)) = 0
    BY <1>11, <2>1
  <2> QED
    BY <2>2 DEF NoCodeWithoutCoupon, HandsOver
<1>13. MintedIsAccounted
  <2> SUFFICES ASSUME NEW m \in Merchants
      PROVE Balanced(thb[m] + Cost(TokensOf(m)),
                Unit * mintRows[m].thb + granted[m]
                  + ShortOf({r \in Running({"mintRow", "unrecorded"}) : req[r].by = m}),
                (Unit - 1) * mintRows[m].rows)
    BY DEF MintedIsAccounted, Balanced
  <2>1. /\ thb[m] = 0 /\ mintRows[m].thb = 0 /\ mintRows[m].rows = 0 /\ granted[m] = 0
        /\ Unit \in Nat /\ Cost(0) = 0
    BY Bounds DEF Init, Cost
  <2>2. TokensOf(m) = 0
    <3> DEFINE f == [v \in Vouchers |-> tokens[v][m]]
    <3>1. \A v \in Vouchers : f[v] = 0
      BY DEF Init, Wallets
    <3>2. Tallied(f)
      BY <3>1, Finite DEF Tallied
    <3>3. Tally(f) = 0
      BY <3>1, <3>2, TallyZero
    <3> QED
      BY <3>3 DEF TokensOf
  <2>3. ShortOf({r \in Running({"mintRow", "unrecorded"}) : req[r].by = m}) = 0
    <3> DEFINE R == {r \in Running({"mintRow", "unrecorded"}) : req[r].by = m}
               f == [r \in R |-> req[r].short]
    <3>1. R = {}
      BY DEF Init, Running
    <3>2. Tallied(f)
      BY <3>1, FS_EmptySet DEF Tallied
    <3>3. Tally(f) = 0
      BY <3>1, <3>2, TallyZero
    <3> QED
      BY <3>3 DEF ShortOf
  <2>4. Unit * 0 = 0 /\ (Unit - 1) * 0 = 0
    BY <2>1
  <2> QED
    BY <2>1, <2>2, <2>3, <2>4 DEF Balanced
<1>14. SoldOutWhenFull
  <2>1. \A b \in Requests : batch[b] = NoBatch /\ ~batch[b].soldOut
    BY DEF Init, NoBatch, NewBatch
  <2> QED
    BY <2>1 DEF SoldOutWhenFull
<1> QED
  BY <1>2, <1>3, <1>4, <1>5, <1>6, <1>8, <1>9, <1>10, <1>12, <1>13, <1>14 DEF IInv

\* Every step keeps the invariant.
LEMMA StepInvariant ==
  IInv /\ [Next]_vars => IInv'
<1> SUFFICES ASSUME IInv, [Next]_vars PROVE IInv'
  OBVIOUS
<1>1. /\ TypeOK /\ SellerShape /\ BuyerShape /\ Fresh /\ Batched /\ Held /\ Recorded
      /\ Supply /\ Within /\ Alone
      /\ MintedIsAccounted /\ NoCodeWithoutCoupon /\ SoldOutWhenFull
      /\ ApprovalSuffices /\ HandsOver
  BY DEF IInv
<1>2. TypeOK'
  BY <1>1, TypeStep
<1>3. SellerShape' /\ BuyerShape'
  BY <1>1, SellerShapeStep, BuyerShapeStep
<1>4. Fresh' /\ Batched' /\ Held' /\ Recorded'
  BY <1>1, <1>2, FreshStep, BatchedStep, HeldStep, RecordedStep
<1>5. Supply' /\ Within' /\ Alone'
  BY <1>1, <1>2, <1>3, SupplyStep, WithinStep, AloneStep
<1>6. MintedIsAccounted' /\ NoCodeWithoutCoupon' /\ HandsOver'
  BY <1>1, <1>2, MintedStep, NoCodeStep, HandsOverStep
<1>7. SoldOutWhenFull' /\ ApprovalSuffices'
  BY <1>1, <1>2, SoldOutStep, ApprovalStep
<1> QED
  BY <1>2, <1>3, <1>4, <1>5, <1>6, <1>7 DEF IInv

\* The stage before the marketplace stays in the states of the invariant.
THEOREM Invariant == Spec => []IInv
BY InitInvariant, StepInvariant, PTL DEF Spec

\* Every variable keeps its type: no balance, allowance or offer on chain ever
\* becomes negative, because every handler of the contract checks before it
\* takes.
THEOREM TypesHold == Spec => []TypeOK
<1>1. IInv => TypeOK
  BY DEF IInv
<1> QED
  BY <1>1, Invariant, PTL

\* Merchants who overlap, and codes that are picked without a lock after the
\* payment (merchantBuyCouponFromSeller), never leave a merchant with more
\* codes than he has paid coupons for.
THEOREM NoCodeIsFree == Spec => []NoCodeWithoutCoupon
<1>1. IInv => NoCodeWithoutCoupon
  BY DEF IInv
<1> QED
  BY <1>1, Invariant, PTL

\* The books of THB and of the listing batches balance for any number of
\* merchants, requests and failures (autoMintIfNeeded,
\* updateListingBatchStats, batchListOnMarketplace): the rows of THB up to
\* the fraction that each of them cuts off.
THEOREM BooksHold == Spec => []BooksBalance
<1>1. IInv => BooksBalance
  BY TotalsHold DEF IInv, BooksBalance
<1> QED
  BY <1>1, Invariant, PTL

\* Merchants who wait for each other and for the codes of a listing are never
\* refused after they have paid, and hand over what VoucherMarketplace starts
\* from.
THEOREM PoliteTradeHolds == Spec => []PoliteTrade
<1>1. IInv => PoliteTrade
  BY CodesAreFound DEF IInv, PoliteTrade
<1> QED
  BY <1>1, Invariant, PTL

-----------------------------------------------------------------------------
(* Rounded rows: each is less than one THB away from what it stands for,   *)
(* and so their sums are less than that times their number.                *)

\* Values of k rows whose THB are v.
Near(k, v) == /\ Cost(k) <= Unit * v + (Unit - 1) * k
              /\ Unit * v <= Cost(k) + (Unit - 1) * k

\* A product grows with its factors.
LEMMA ProductGrows ==
  \A c, a, b \in Nat : a <= b => c * a <= c * b
<1> SUFFICES ASSUME NEW c \in Nat, NEW a \in Nat, NEW b \in Nat, a <= b
             PROVE  c * a <= c * b
  OBVIOUS
<1>1. PICK d \in Nat : b = a + d
  <2>1. b - a \in Nat /\ b = a + (b - a)
    OBVIOUS
  <2> QED
    BY <2>1
<1>2. c * (a + d) = c * a + c * d
  OBVIOUS
<1>3. c * d \in Nat /\ c * a \in Nat
  OBVIOUS
<1> QED
  BY <1>1, <1>2, <1>3

\* What is near stays near when it is added.
LEMMA NearSum ==
  ASSUME NEW a \in Nat, NEW b \in Nat, NEW c \in Nat, NEW d \in Nat,
         Near(a, b), Near(c, d)
  PROVE  Near(a + c, b + d)
<1>1. Unit \in Nat /\ Unit - 1 \in Nat
  BY Bounds
<1>2. Cost(a + c) = Cost(a) + Cost(c) /\ Cost(a) \in Nat /\ Cost(c) \in Nat
  BY CostType
<1>3. Unit * (b + d) = Unit * b + Unit * d
  BY <1>1
<1>4. PICK u \in Nat : u = Unit - 1
  BY <1>1
<1>5. u * (a + c) = u * a + u * c
  OBVIOUS
<1>6. Unit * b \in Nat /\ Unit * d \in Nat /\ u * a \in Nat /\ u * c \in Nat
  BY <1>1
<1>7. /\ Cost(a) <= Unit * b + u * a /\ Unit * b <= Cost(a) + u * a
      /\ Cost(c) <= Unit * d + u * c /\ Unit * d <= Cost(c) + u * c
  BY <1>4 DEF Near
<1>8. /\ Cost(a) + Cost(c) <= (Unit * b + Unit * d) + (u * a + u * c)
      /\ Unit * b + Unit * d <= (Cost(a) + Cost(c)) + (u * a + u * c)
  BY <1>2, <1>6, <1>7
<1> QED
  BY <1>2, <1>3, <1>4, <1>5, <1>8 DEF Near

\* Rows of the same THB are near when one is.
LEMMA NearRows ==
  ASSUME NEW p \in Nat, Near(1, p)
  PROVE  \A k \in Nat : Near(k, k * p)
<1> DEFINE Far == {k \in Nat : ~Near(k, k * p)}
<1>1. Near(0, 0 * p)
  BY Bounds DEF Near, Cost
<1>2. ASSUME NEW k \in Nat, Near(k, k * p) PROVE Near(k + 1, (k + 1) * p)
  <2>1. k * p \in Nat /\ (k + 1) * p = k * p + p
    OBVIOUS
  <2> QED
    BY <1>2, <2>1, NearSum
<1>3. ASSUME Far # {} PROVE FALSE
  <2>1. Far \subseteq Nat
    OBVIOUS
  <2>2. PICK n \in Far : \A k \in Far : n <= k
    BY <1>3, <2>1, LeastNumber
  <2>3. n # 0
    BY <1>1, <2>2
  <2>4. n - 1 \in Nat /\ (n - 1) + 1 = n /\ n - 1 \notin Far
    BY <2>2, <2>3
  <2>5. Near(n - 1, (n - 1) * p)
    BY <2>4
  <2>6. Near((n - 1) + 1, ((n - 1) + 1) * p)
    BY <1>2, <2>4, <2>5
  <2> QED
    BY <2>2, <2>4, <2>6
<1> QED
  BY <1>3

\* The THB of a row are near the price of a coupon: the quotient of what the
\* purchase is in whole THB is rounded to the nearest.
LEMMA RowIsNear ==
  ASSUME NEW n \in Nat, n >= 1
  PROVE  PricePerUnitTHB(n) \in Nat /\ Near(1, PricePerUnitTHB(n))
<1>1. PICK w \in Nat : /\ w = WholeTHB(Cost(n)) /\ Unit * w <= Cost(n)
                       /\ Cost(n) <= Unit * w + (Unit - 1)
  BY CostType, WholeType
<1>2. PICK q \in Nat : /\ q = PricePerUnitTHB(n) /\ (2 * n) * q <= 2 * w + n
                       /\ 2 * w + n < (2 * n) * (q + 1)
  <2>1. ASSUME NEW a \in Nat, NEW b \in Nat, b > 0
        PROVE  a \div b \in Nat /\ b * (a \div b) <= a /\ a < b * ((a \div b) + 1)
    <3>1. a \div b \in Nat
      BY <2>1
    <3>2. b * (a \div b) <= a /\ a < b * ((a \div b) + 1)
      BY <2>1
    <3> QED
      BY <3>1, <3>2
  <2>2. 2 * w + n \in Nat /\ 2 * n \in Nat /\ 2 * n > 0
    OBVIOUS
  <2>3. PricePerUnitTHB(n) = (2 * w + n) \div (2 * n)
    BY <1>1 DEF PricePerUnitTHB, Rounded
  <2> QED
    BY <2>1, <2>2, <2>3
<1>3. Unit \in Nat /\ Unit >= 1 /\ Price \in Nat /\ Cost(n) = n * Price /\ Cost(1) = Price
  BY Bounds DEF Cost
<1>4. (2 * n) * q = 2 * (n * q) /\ (2 * n) * (q + 1) = 2 * (n * q) + 2 * n /\ n * q \in Nat
  OBVIOUS
<1>5. 2 * (n * q) <= 2 * w + n /\ 2 * w < 2 * (n * q) + n
  BY <1>2, <1>4
<1>6. ASSUME Price > Unit * q + (Unit - 1) PROVE FALSE
  <2>1. Unit * q \in Nat /\ Unit * (q + 1) = Unit * q + Unit
    BY <1>3
  <2>2. Unit * (q + 1) <= Price /\ Unit * (q + 1) \in Nat
    BY <1>3, <1>6, <2>1
  <2>3. n * (Unit * (q + 1)) <= n * Price
    BY <1>3, <2>2, ProductGrows
  <2>4. n * (Unit * (q + 1)) = Unit * (n * q + n)
    BY <1>3
  <2>5. w <= n * q + n - 1
    BY <1>4, <1>5
  <2>6. n * q + n - 1 \in Nat /\ Unit * w <= Unit * (n * q + n - 1)
    BY <1>3, <1>4, <2>5, ProductGrows
  <2>7. Unit * (n * q + n - 1) = Unit * (n * q + n) - Unit
    BY <1>3, <1>4
  <2>8. Unit * w \in Nat /\ Unit * (n * q + n) \in Nat /\ n * Price \in Nat
    BY <1>3, <1>4
  <2> QED
    BY <1>1, <1>3, <2>3, <2>4, <2>6, <2>7, <2>8
<1>7. ASSUME Unit * q > Price + (Unit - 1) PROVE FALSE
  <2>1. q >= 1
    BY <1>3, <1>7
  <2>2. PICK p \in Nat : q = p + 1
    <3>1. q - 1 \in Nat /\ q = (q - 1) + 1
      BY <2>1
    <3> QED
      BY <3>1
  <2>3. Unit * q = Unit * p + Unit /\ Unit * p \in Nat
    BY <1>3, <2>2
  <2>4. Price <= Unit * p
    BY <1>3, <1>7, <2>3
  <2>5. n * Price <= n * (Unit * p) /\ n * (Unit * p) = Unit * (n * p)
    BY <1>3, <2>3, <2>4, ProductGrows
  <2>6. n * q = n * p + n /\ n * p \in Nat
    BY <2>2
  <2>7. w >= n * p + 1
    BY <1>5, <2>6
  <2>8. Unit * (n * p + 1) <= Unit * w
    BY <1>3, <2>6, <2>7, ProductGrows
  <2>9. Unit * (n * p + 1) = Unit * (n * p) + Unit
    BY <1>3, <2>6
  <2>10. Unit * w \in Nat /\ Unit * (n * p) \in Nat /\ n * Price \in Nat
    BY <1>3, <2>6
  <2> QED
    BY <1>1, <1>3, <2>5, <2>8, <2>9, <2>10
<1>8. Unit * q \in Nat /\ (Unit - 1) * 1 = Unit - 1
  BY <1>3
<1> QED
  BY <1>2, <1>3, <1>6, <1>7, <1>8 DEF Near

\* Sums of near values are near.
LEMMA NearTallies ==
  ASSUME NEW R, IsFiniteSet(R), NEW k, NEW v,
         \A r \in R : k[r] \in Nat /\ v[r] \in Nat /\ Near(k[r], v[r])
  PROVE  Near(Tally([r \in R |-> k[r]]), Tally([r \in R |-> v[r]]))
<1> DEFINE K(S) == [r \in S |-> k[r]]
           V(S) == [r \in S |-> v[r]]
           Far == {n \in Nat : \E S \in SUBSET R :
                     Cardinality(S) = n /\ ~Near(Tally(K(S)), Tally(V(S)))}
<1>1. ASSUME NEW S \in SUBSET R
      PROVE  /\ Tallied(K(S)) /\ Tallied(V(S)) /\ IsFiniteSet(S)
             /\ Tally(K(S)) \in Nat /\ Tally(V(S)) \in Nat
  <2>1. Tallied(K(S)) /\ Tallied(V(S)) /\ IsFiniteSet(S)
    BY FS_Subset DEF Tallied
  <2> QED
    BY <2>1, TallyType
<1>2. ASSUME NEW S \in SUBSET R, NEW x \in S, Near(Tally(K(S \ {x})), Tally(V(S \ {x})))
      PROVE  Near(Tally(K(S)), Tally(V(S)))
  <2> DEFINE T == S \ {x}
  <2>1. /\ ValueAt(K(T), x) = 0 /\ ValueAt(V(T), x) = 0
        /\ ValueAt(K(S), x) = k[x] /\ ValueAt(V(S), x) = v[x]
    BY DEF ValueAt
  <2>2. \A y : y # x => ValueAt(K(T), y) = ValueAt(K(S), y)
                        /\ ValueAt(V(T), y) = ValueAt(V(S), y)
    BY DEF ValueAt
  <2>3. Tallied(K(T)) /\ Tallied(V(T)) /\ Tallied(K(S)) /\ Tallied(V(S))
    BY <1>1
  <2>4. /\ Tally(K(T)) \in Nat /\ Tally(V(T)) \in Nat
        /\ Tally(K(S)) \in Nat /\ Tally(V(S)) \in Nat
        /\ k[x] \in Nat /\ v[x] \in Nat /\ Near(k[x], v[x])
    BY <1>1
  <2>5. Near(Tally(K(T)) + k[x], Tally(V(T)) + v[x])
    BY <1>2, <2>4, NearSum
  <2> HIDE DEF K, V, T
  <2>6. Tally(K(S)) + 0 = Tally(K(T)) + k[x]
    <3>1. Tally(K(S)) + ValueAt(K(T), x) = Tally(K(T)) + ValueAt(K(S), x)
      BY <2>2, <2>3, TallyChange
    <3> QED
      BY <2>1, <3>1
  <2>7. Tally(V(S)) + 0 = Tally(V(T)) + v[x]
    <3>1. Tally(V(S)) + ValueAt(V(T), x) = Tally(V(T)) + ValueAt(V(S), x)
      BY <2>2, <2>3, TallyChange
    <3> QED
      BY <2>1, <3>1
  <2>8. Tally(K(S)) = Tally(K(T)) + k[x] /\ Tally(V(S)) = Tally(V(T)) + v[x]
    BY <2>6, <2>7, <2>4
  <2> QED
    BY <2>5, <2>8
<1>3. Near(Tally(K({})), Tally(V({})))
  <2>1. Tally(K({})) = 0 /\ Tally(V({})) = 0
    BY <1>1, TallyZero
  <2>2. Near(0, 0)
    BY Bounds DEF Near, Cost
  <2> QED
    BY <2>1, <2>2
<1>4. ASSUME Far # {} PROVE FALSE
  <2>1. PICK n \in Far : \A i \in Far : n <= i
    BY <1>4, LeastNumber
  <2>2. PICK S \in SUBSET R : Cardinality(S) = n /\ ~Near(Tally(K(S)), Tally(V(S)))
    BY <2>1
  <2>3. PICK x \in S : TRUE
    BY <1>3, <2>2
  <2>4. IsFiniteSet(S) /\ IsFiniteSet(S \ {x})
    BY <1>1
  <2>5. Cardinality(S \ {x}) = n - 1 /\ Cardinality(S \ {x}) \in Nat /\ n \in Nat
    BY <2>2, <2>3, <2>4, FS_RemoveElement, FS_CardinalityType
  <2>6. Near(Tally(K(S \ {x})), Tally(V(S \ {x})))
    BY <2>1, <2>5
  <2> QED
    BY <1>2, <2>2, <2>3, <2>6
<1>5. Cardinality(R) \in Nat
  BY FS_CardinalityType
<1> QED
  BY <1>4, <1>5

-----------------------------------------------------------------------------
(* What sellers and marketers are shown (SellerDashboard).                 *)

\* Purchases that have handed over their codes, those that have paid and of
\* which nothing was lost, and those of which something was.
Done      == Picked \ {"rows", "own"}
Spending  == {"find"} \cup Picked
Spends(m) == {r \in Running(Spending) : req[r].by = m}
Lost(m)   == {r \in Running({"unrecorded"}) : req[r].by = m}

\* A merchant's coupons are those of the purchases that have paid.
SpentInv == \A m \in Merchants : Lost(m) = {} => TokensOf(m) = AmountOf(Spends(m))

\* A code that is owned was picked by a purchase of its owner; polite
\* purchases keep what they have picked.
OwnerInv ==
  /\ \A c \in Codes : owner[c] \in Merchants =>
       \E r \in Running(Done) : c \in req[r].held /\ req[r].by = owner[c]
  /\ polite => \A r \in Running(Done) : \A c \in req[r].held : owner[c] = req[r].by

\* What is listed has a row.
ItemRows(r) == \A i \in DOMAIN req[r].items : voucher[req[r].items[i].voucher] = "row"
RowInv ==
  /\ \A r \in Requests : pc[r] \in ListPlaces => ItemRows(r)
  /\ \A l \in Listings :
       listing[l].voucher \in Vouchers => voucher[listing[l].voucher] = "row"

DashInv == SpentInv /\ OwnerInv /\ RowInv

\* A purchase that has handed over its codes stays, and was there or has just
\* handed them over.
LEMMA DoneStays ==
  ASSUME TypeOK, BuyerShape, [Next]_vars, NEW q \in Requests
  PROVE  /\ pc[q] \in Done => pc'[q] \in Done /\ req'[q] = req[q]
         /\ pc'[q] \in Done => \/ pc[q] \in Done /\ req'[q] = req[q]
                               \/ Own(q) /\ pc'[q] = "count"
         /\ pc[q] = "unrecorded" => pc'[q] = "unrecorded" /\ req'[q] = req[q]
<1> DEFINE Goal == /\ pc[q] \in Done => pc'[q] \in Done /\ req'[q] = req[q]
                   /\ pc'[q] \in Done => \/ pc[q] \in Done /\ req'[q] = req[q]
                                         \/ Own(q) /\ pc'[q] = "count"
                   /\ pc[q] = "unrecorded" => pc'[q] = "unrecorded" /\ req'[q] = req[q]
<1>1. ASSUME pc'[q] = pc[q], req'[q] = req[q] PROVE Goal
  BY <1>1
<1>2. ASSUME NEW r \in Requests, List(r) \/ ListBatch(r) PROVE Goal
  BY <1>1, <1>2, ArriveEffect DEF Others, Done, Picked
<1>3. ASSUME NEW r \in Requests, Buy(r) PROVE Goal
  BY <1>1, <1>3, BuyEffect DEF Others, Done, Picked
<1>4. ASSUME NEW r \in Requests, Selling(r), ~List(r), ~ListBatch(r) PROVE Goal
  <2>1. CASE r = q
    BY <1>4, <2>1, SellerMoves DEF SellerGoes, Ended, ListPlaces, Done, Picked
  <2> QED
    BY <1>1, <1>4, <2>1, SellerMoves DEF Others
<1>5. ASSUME NEW r \in Requests, Buying(r), ~Buy(r) PROVE Goal
  <2>1. CASE r = q
    <3>1. pc[q] = "own" => Own(q)
      BY <1>5, <2>1, CheckEffect, MintTHBEffect, RecordEffect, ApproveEffect, PayEffect,
         FindEffect, RowEffect, CountEffect, CloseEffect DEF Buying
    <3> QED
      BY <1>5, <2>1, <3>1, BuyerMoves DEF BuyerGoes, Ended, BuyPlaces, Done, Picked
  <2> QED
    BY <1>1, <1>5, <2>1, BuyerMoves DEF Others
<1> HIDE DEF Goal
<1>6. ASSUME req' = req, pc' = pc PROVE Goal
  BY <1>1, <1>6
<1>7. Goal
  BY <1>2, <1>3, <1>4, <1>5, <1>6, WhoSteps
<1> QED
  BY <1>7 DEF Goal

\* Codes stay with their buyers as OwnerInv says.
LEMMA OwnerInvStep ==
  ASSUME TypeOK, SellerShape, BuyerShape, Fresh, Held, Alone, OwnerInv, [Next]_vars
  PROVE  OwnerInv'
<1>a. Absent \notin Merchants /\ None \notin Merchants /\ Absent # None
  BY Different DEF Absent
<1>1. ASSUME NEW c \in Codes, owner'[c] \in Merchants
      PROVE  \E r \in Requests : pc'[r] \in Done /\ c \in req'[r].held /\ req'[r].by = owner'[c]
  <2>1. CASE owner'[c] = owner[c]
    <3>1. PICK r \in Requests : pc[r] \in Done /\ c \in req[r].held /\ req[r].by = owner[c]
      BY <1>1, <2>1 DEF OwnerInv, Running
    <3> QED
      BY <2>1, <3>1, DoneStays
  <2>2. CASE owner'[c] # owner[c]
    <3>1. owner[c] # Absent
      BY <1>1, <1>a, <2>2, OwnerSteps
    <3>2. PICK r \in Requests : Own(r)
      BY <2>2, <3>1, OwnerSteps
    <3>3. /\ req[r].held \subseteq CodesOf(req[r].listing) /\ pc'[r] = "count" /\ req'[r] = req[r]
          /\ owner' = [d \in Codes |-> IF d \in req[r].held THEN req[r].by ELSE owner[d]]
      BY <2>2, <3>2, OwnTakes
    <3>4. c \in req[r].held /\ owner'[c] = req[r].by
      BY <2>2, <3>3
    <3> QED
      BY <3>3, <3>4 DEF Done, Picked
  <2> QED
    BY <2>1, <2>2
<1>2. ASSUME polite, NEW q \in Requests, pc'[q] \in Done, NEW c \in req'[q].held
      PROVE  owner'[c] = req'[q].by
  <2>1. CASE Own(q) /\ pc'[q] = "count"
    <3>1. /\ req'[q] = req[q] /\ req[q].held \subseteq Codes
          /\ owner' = [d \in Codes |-> IF d \in req[q].held THEN req[q].by ELSE owner[d]]
      BY <2>1, OwnTakes DEF TypeOK, Reqs
    <3> QED
      BY <1>2, <3>1
  <2>2. CASE pc[q] \in Done /\ req'[q] = req[q]
    <3>1. owner[c] = req[q].by /\ req[q].by \in Merchants /\ c \in Codes
      <4>1. owner[c] = req[q].by
        BY <1>2, <2>2 DEF OwnerInv, Running
      <4>2. req[q].by \in Merchants
        BY <2>2, BuyerType DEF Done, Picked, BuyPlaces, BuyEnds
      <4>3. req[q].held \subseteq Codes
        BY DEF TypeOK, Reqs
      <4> QED
        BY <1>2, <2>2, <4>1, <4>2, <4>3
    <3>2. owner'[c] = owner[c]
      <4>1. CASE \A r \in Requests : ~Own(r)
        BY <1>a, <3>1, <4>1, OwnerSteps
      <4>2. ASSUME NEW r \in Requests, Own(r), owner' # owner PROVE owner'[c] = owner[c]
        <5>1. /\ pc[r] = "own"
              /\ owner' = [d \in Codes |-> IF d \in req[r].held THEN req[r].by ELSE owner[d]]
          BY <4>2, OwnTakes
        <5>2. req[r].held \subseteq Unsold(req[r].listing)
          BY <1>2, <5>1 DEF Alone, Running
        <5>3. c \notin req[r].held
          BY <1>a, <3>1, <5>2 DEF Unsold
        <5> QED
          BY <3>1, <5>1, <5>3
      <4> QED
        BY <4>1, <4>2
    <3> QED
      BY <2>2, <3>1, <3>2
  <2> QED
    BY <1>2, <2>1, <2>2, DoneStays
<1>3. polite' = polite
  BY Writers
<1> QED
  BY <1>1, <1>2, <1>3 DEF OwnerInv, Running

\* What a merchant has spent changes only by the request that moves.
LEMMA SpendsMove ==
  ASSUME TypeOK, TypeOK', NEW r \in Requests, Others(r), NEW m
  PROVE  /\ AmountOf(Spends(m)) \in Nat /\ AmountOf(Spends(m))' \in Nat
         /\ AmountOf(Spends(m))'
              + (IF pc[r] \in Spending /\ req[r].by = m THEN req[r].amount ELSE 0)
            = AmountOf(Spends(m))
              + (IF pc'[r] \in Spending /\ req'[r].by = m THEN req'[r].amount ELSE 0)
<1>1. Spends(m) \subseteq Requests /\ Spends(m)' \subseteq Requests
  BY DEF Spends, Running
<1>2. \A q \in Requests : q # r => (q \in Spends(m) <=> q \in Spends(m)')
  BY DEF Spends, Running, Others
<1>3. /\ r \in Spends(m) <=> pc[r] \in Spending /\ req[r].by = m
      /\ r \in Spends(m)' <=> pc'[r] \in Spending /\ req'[r].by = m
  BY DEF Spends, Running
<1>4. AmountOf(Spends(m))' = Tally([q \in Spends(m)' |-> req'[q].amount])
  BY DEF AmountOf
<1> DEFINE R == Spends(m)  S == Spends(m)'
<1> HIDE DEF R, S
<1>5. /\ R \subseteq Requests /\ S \subseteq Requests
      /\ \A q \in Requests : q # r => (q \in R <=> q \in S)
  BY <1>1, <1>2 DEF R, S
<1>6. /\ AmountOf(R) \in Nat /\ Tally([q \in S |-> req'[q].amount]) \in Nat
      /\ Tally([q \in S |-> req'[q].amount]) + (IF r \in R THEN req[r].amount ELSE 0)
           = AmountOf(R) + (IF r \in S THEN req'[r].amount ELSE 0)
  BY <1>5, AmountMoves
<1> QED
  BY <1>3, <1>4, <1>6 DEF R, S

\* A merchant's coupons stay those that were paid for.
LEMMA SpentInvStep ==
  ASSUME TypeOK, TypeOK', BuyerShape, SpentInv, [Next]_vars
  PROVE  SpentInv'
<1> SUFFICES ASSUME NEW m \in Merchants, Lost(m)' = {}
    PROVE TokensOf(m)' = AmountOf(Spends(m))'
  BY DEF SpentInv
<1> DEFINE Goal == TokensOf(m)' = AmountOf(Spends(m))'
<1>a. Lost(m) = {}
  <2> SUFFICES ASSUME NEW q \in Requests, pc[q] = "unrecorded", req[q].by = m PROVE FALSE
    BY DEF Lost, Running
  <2>1. pc'[q] = "unrecorded" /\ req'[q] = req[q]
    BY DoneStays
  <2> QED
    BY <2>1 DEF Lost, Running
<1>b. TokensOf(m) = AmountOf(Spends(m)) /\ TokensOf(m) \in Nat
  BY <1>a, TokensType DEF SpentInv
<1>c. ASSUME \A v \in Vouchers : tokens'[v][m] = tokens[v][m] PROVE TokensOf(m)' = TokensOf(m)
  BY <1>c DEF TokensOf
<1>d. ASSUME NEW r \in Requests, Others(r),
             \/ pc[r] \notin Spending /\ pc'[r] \notin Spending
             \/ pc[r] \in Spending /\ pc'[r] \in Spending /\ Keeps(r)
             \/ req[r].by # m /\ req'[r].by # m
      PROVE  AmountOf(Spends(m))' = AmountOf(Spends(m))
  <2>1. req[r].amount \in Nat /\ req'[r].amount \in Nat
    BY DEF TypeOK, Reqs
  <2> QED
    BY <1>d, <2>1, SpendsMove DEF Keeps
<1>e. \A r \in Requests : req'[r].by = m => pc'[r] # "unrecorded"
  BY DEF Lost, Running
<1>1. ASSUME UNCHANGED <<req, pc, tokens>> PROVE Goal
  <2>1. AmountOf(Spends(m))' = AmountOf(Spends(m))
    BY <1>1 DEF Spends, Running, AmountOf
  <2> QED
    BY <1>1, <1>b, <1>c, <2>1
<1>2. ASSUME UNCHANGED vars \/ (\E v \in Vouchers : CreateType(v) \/ PersistVoucher(v))
               \/ (\E w \in Merchants : Whitelist(w))
               \/ (\E W \in SUBSET Missing(Merchants) : WhitelistBatch(W))
      PROVE  Goal
  BY <1>1, <1>2, QuietEffect DEF Quiet
<1>3. ASSUME NEW w \in Merchants, MintTHBToMerchant(w) PROVE Goal
  BY <1>1, <1>3, TreasuryEffect
<1>4. ASSUME NEW r \in Requests, Selling(r) PROVE Goal
  <2>1. \A v \in Vouchers : tokens'[v][m] = tokens[v][m]
    BY <1>4, SellerTokens
  <2>2. Others(r) /\ pc[r] \notin Spending /\ pc'[r] \notin Spending
    BY <1>4, ArriveEffect, SellerMoves DEF SellerGoes, Ended, ListPlaces, Spending, Picked
  <2> QED
    BY <1>b, <1>c, <1>d, <2>1, <2>2
<1>5. ASSUME NEW r \in Requests, Buy(r) PROVE Goal
  <2>1. Others(r) /\ pc[r] \notin Spending /\ pc'[r] \notin Spending /\ tokens' = tokens
    BY <1>5, BuyEffect DEF Spending, Picked
  <2> QED
    BY <1>b, <1>c, <1>d, <2>1
<1>6. ASSUME NEW r \in Requests, Pay(r), ~Ended(r) PROVE Goal
  <2>1. /\ Others(r) /\ pc[r] = "pay" /\ req'[r] = req[r] /\ pc'[r] \in {"find", "unrecorded"}
    BY <1>6, PayEffect DEF Stays
  <2>2. TokensOf(m)' = TokensOf(m) + (IF m = req[r].by THEN req[r].amount ELSE 0)
    BY <1>6, TokensMove
  <2>3. req[r].amount \in Nat
    BY DEF TypeOK, Reqs
  <2>4. CASE req[r].by = m
    <3>1. pc'[r] \in Spending /\ pc[r] \notin Spending
      BY <1>e, <2>1, <2>4 DEF Spending, Picked
    <3>2. AmountOf(Spends(m))' = AmountOf(Spends(m)) + req[r].amount
      BY <2>1, <2>3, <2>4, <3>1, SpendsMove
    <3> QED
      BY <1>b, <2>2, <2>4, <3>2
  <2>5. CASE req[r].by # m
    <3>1. AmountOf(Spends(m))' = AmountOf(Spends(m))
      BY <1>d, <2>1, <2>5
    <3> QED
      BY <1>b, <2>2, <2>5, <3>1
  <2> QED
    BY <2>4, <2>5
<1>7. ASSUME NEW r \in Requests, Buying(r), ~Buy(r), ~(Pay(r) /\ ~Ended(r)) PROVE Goal
  <2>1. tokens' = tokens
    BY <1>7, CheckEffect, MintTHBEffect, RecordEffect, ApproveEffect, PayEffect, FindEffect,
       RowEffect, OwnEffect, CountEffect, CloseEffect DEF Buying, Ended
  <2>2. Others(r) /\ BuyerGoes(r) /\ pc[r] \in BuyPlaces
    BY <1>7, BuyerMoves
  <2>3. pc[r] = "pay" => Ended(r)
    BY <1>7, CheckEffect, MintTHBEffect, RecordEffect, ApproveEffect, FindEffect,
       RowEffect, OwnEffect, CountEffect, CloseEffect DEF Buying
  <2>4. AmountOf(Spends(m))' = AmountOf(Spends(m))
    <3>1. CASE Ended(r)
      <4>1. pc[r] \notin Spending /\ pc'[r] \notin Spending
        BY <2>2, <3>1 DEF BuyerGoes, Ended, Spending, Picked
      <4> QED
        BY <1>d, <2>2, <4>1
    <3>2. CASE pc'[r] = "unrecorded" /\ ~Ended(r)
      <4>1. req'[r].by # m /\ req[r].by # m
        BY <1>e, <2>2, <3>2 DEF BuyerGoes, Keeps
      <4> QED
        BY <1>d, <2>2, <4>1
    <3>3. CASE pc'[r] # "unrecorded" /\ ~Ended(r)
      <4>1. \/ pc[r] \notin Spending /\ pc'[r] \notin Spending
            \/ pc[r] \in Spending /\ pc'[r] \in Spending /\ Keeps(r)
        BY <2>2, <2>3, <3>3 DEF BuyerGoes, Spending, Picked
      <4> QED
        BY <1>d, <2>2, <4>1
    <3> QED
      BY <3>1, <3>2, <3>3
  <2> QED
    BY <1>b, <1>c, <2>1, <2>4
<1> HIDE DEF Goal
<1>8. ASSUME NEW r \in Requests, Buying(r) PROVE Goal
  <2>1. Pay(r) => Buying(r) /\ ~Buy(r)
    BY PayEffect, BuyEffect DEF Buying
  <2> QED
    BY <1>5, <1>6, <1>7, <1>8
<1>9. Goal
  BY <1>2, <1>3, <1>4, <1>8 DEF Next
<1> QED
  BY <1>9 DEF Goal

\* The row of a voucher stays.
LEMMA VoucherStays ==
  ASSUME TypeOK, [Next]_vars, NEW v \in Vouchers, voucher[v] = "row"
  PROVE  voucher'[v] = "row"
<1>1. ASSUME NEW u \in Vouchers, CreateType(u) \/ PersistVoucher(u) PROVE voucher'[v] = "row"
  BY <1>1 DEF CreateType, PersistVoucher, TypeOK
<1>2. ASSUME NEW r \in Requests, Selling(r) PROVE voucher' = voucher
  <2>1. List(r) \/ ListBatch(r) => voucher' = voucher
    BY DEF List, ListBatch, Begin
  <2>2. Admit(r) \/ CreateBatch(r) \/ Mint(r) \/ ListOnChain(r) => voucher' = voucher
    BY DEF Admit, CreateBatch, Mint, ListOnChain
  <2>3. CreateCodes(r) \/ SyncCurrency(r) => voucher' = voucher
    BY DEF CreateCodes, SyncCurrency
  <2> QED
    BY <1>2, <2>1, <2>2, <2>3 DEF Selling
<1>3. ASSUME NEW r \in Requests, Buying(r) PROVE voucher' = voucher
  <2>1. Buy(r) \/ CheckTHB(r) \/ MintTHB(r) \/ RecordMint(r) => voucher' = voucher
    BY DEF Buy, CheckTHB, MintTHB, RecordMint
  <2>2. Approve(r) \/ Pay(r) \/ FindCodes(r) \/ BuyRow(r) => voucher' = voucher
    BY DEF Approve, Pay, FindCodes, BuyRow
  <2>3. Own(r) \/ Count(r) \/ Close(r) => voucher' = voucher
    BY DEF Own, Count, Close
  <2> QED
    BY <1>3, <2>1, <2>2, <2>3 DEF Buying
<1>4. ASSUME UNCHANGED vars \/ (\E w \in Merchants : Whitelist(w) \/ MintTHBToMerchant(w))
               \/ (\E W \in SUBSET Missing(Merchants) : WhitelistBatch(W))
      PROVE  voucher' = voucher
  BY <1>4 DEF vars, Whitelist, WhitelistBatch, MintTHBToMerchant
<1> QED
  BY <1>1, <1>2, <1>3, <1>4 DEF Next

\* What is listed keeps its row.
LEMMA RowInvStep ==
  ASSUME TypeOK, SellerShape, BuyerShape, Fresh, RowInv, [Next]_vars
  PROVE  RowInv'
<1>1. ASSUME NEW q \in Requests, pc'[q] \in ListPlaces PROVE ItemRows(q)'
  <2>1. ASSUME req'[q].items = req[q].items, pc[q] \in ListPlaces PROVE ItemRows(q)'
    <3>1. \A i \in DOMAIN req[q].items :
            req[q].items[i].voucher \in Vouchers /\ voucher[req[q].items[i].voucher] = "row"
      <4>1. ItemRows(q)
        BY <2>1 DEF RowInv
      <4>2. req[q].items \in Seq(Items)
        BY DEF TypeOK, Reqs
      <4>3. \A i \in DOMAIN req[q].items : req[q].items[i] \in Items
        BY <4>2
      <4> QED
        BY <4>1, <4>3 DEF ItemRows, Items
    <3> QED
      BY <2>1, <3>1, VoucherStays DEF ItemRows
  <2>2. ASSUME NEW r \in Requests, List(r) \/ ListBatch(r) PROVE ItemRows(q)'
    <3>1. CASE r = q
      <4>1. PICK items \in Seq(Items), e \in BOOLEAN :
              /\ req'[q] = SellReq(items, e)
              /\ \A i \in DOMAIN items : voucher[items[i].voucher] = "row"
        BY <2>2, <3>1, ArriveEffect
      <4>2. req'[q].items = items
        BY <4>1 DEF SellReq
      <4>3. \A i \in DOMAIN items : items[i].voucher \in Vouchers
        <5>1. \A i \in DOMAIN items : items[i] \in Items
          BY <4>1
        <5> QED
          BY <5>1 DEF Items
      <4> QED
        BY <4>1, <4>2, <4>3, VoucherStays DEF ItemRows
    <3> QED
      BY <1>1, <2>1, <2>2, <3>1, ArriveEffect DEF Others
  <2>3. ASSUME NEW r \in Requests, Buy(r) PROVE ItemRows(q)'
    BY <1>1, <2>1, <2>3, BuyEffect DEF Others, ListPlaces
  <2>4. ASSUME NEW r \in Requests, Selling(r), ~List(r), ~ListBatch(r) PROVE ItemRows(q)'
    BY <1>1, <2>1, <2>4, SellerMoves DEF Others, SellerGoes, Ended, ListPlaces
  <2>5. ASSUME NEW r \in Requests, Buying(r), ~Buy(r) PROVE ItemRows(q)'
    BY <1>1, <2>1, <2>5, BuyerMoves DEF Others, BuyerGoes, Ended, ListPlaces
  <2>6. ASSUME req' = req, pc' = pc PROVE ItemRows(q)'
    BY <1>1, <2>1, <2>6
  <2> QED
    BY <2>2, <2>3, <2>4, <2>5, <2>6, WhoSteps
<1>2. ASSUME NEW l \in Listings, listing'[l].voucher \in Vouchers
      PROVE  voucher'[listing'[l].voucher] = "row"
  <2>1. CASE listing'[l].voucher = listing[l].voucher
    BY <1>2, <2>1, VoucherStays DEF RowInv
  <2>2. CASE listing[l].voucher \notin Vouchers /\ listing' # listing
    <3>1. listing \in [Listings -> OnChain]
      BY DEF TypeOK
    <3>2. CASE \E r \in Requests : Pay(r)
      <4>1. PICK r \in Requests : Pay(r)
        BY <3>2
      <4>2. /\ req[r].listing \in Listings /\ listing[req[r].listing].voucher \in Vouchers
            /\ listing' = [listing EXCEPT ![req[r].listing] =
                             [voucher |-> @.voucher, left |-> @.left - req[r].amount]]
        BY <2>2, <4>1, PayEffect, BuyerType DEF Sell, BuyPlaces
      <4>3. listing'[l] = listing[l]
        BY <2>2, <3>1, <4>2
      <4> QED
        BY <1>2, <2>2, <4>3
    <3>3. CASE \E r \in Requests : ListOnChain(r)
      <4>1. PICK r \in Requests : ListOnChain(r)
        BY <3>3
      <4>2. /\ Here(r) \in Listings /\ pc[r] = "list" /\ Item(r).voucher \in Vouchers
            /\ listing' = [listing EXCEPT ![Here(r)] =
                             [voucher |-> Item(r).voucher, left |-> Item(r).amount]]
        BY <2>2, <4>1, ListEffect, ItemType DEF ListPlaces
      <4>3. l = Here(r) /\ listing'[l].voucher = Item(r).voucher
        BY <1>2, <2>2, <3>1, <4>2
      <4>4. voucher[Item(r).voucher] = "row"
        <5>1. ItemRows(r) /\ req[r].at \in 1 .. Len(req[r].items) /\ req[r].items \in Seq(Items)
          BY <4>2 DEF RowInv, SellerShape, SellerShapeOf, ListPlaces, TypeOK, Reqs
        <5>2. req[r].at \in DOMAIN req[r].items
          BY <5>1
        <5> QED
          BY <5>1, <5>2 DEF ItemRows, Item
      <4> QED
        BY <4>2, <4>3, <4>4, VoucherStays
    <3> QED
      BY <2>2, <3>2, <3>3, Writers
  <2> QED
    BY <2>1, <2>2, ListingSteps
<1> QED
  BY <1>1, <1>2 DEF RowInv

\* A merchant's rows are the coupons that were paid for, but for those of
\* purchases that are about to write them or failed.
LEMMA RowsAreSpent ==
  ASSUME TypeOK, BuyerShape, Held, Recorded, SpentInv, NEW m \in Merchants,
         {r \in Running({"find", "rows", "unrecorded"}) : req[r].by = m} = {}
  PROVE  BuyRowsOf(m) = TokensOf(m)
<1> DEFINE R == Purchases(m)
           f == [r \in R |-> Cardinality(buyRows[r])]
           g == [r \in Spends(m) |-> req[r].amount]
<1>1. TokensOf(m) = Tally(g) /\ BuyRowsOf(m) = Tally(f)
  <2>1. Lost(m) = {}
    BY DEF Lost, Running
  <2> QED
    BY <2>1 DEF SpentInv, AmountOf, BuyRowsOf
<1>2. \A r \in Requests : req[r].by = m => pc[r] \notin {"find", "rows", "unrecorded"}
  BY DEF Running
<1>3. \A r \in Requests : req[r].amount \in Nat /\ buyRows[r] \in SUBSET Codes
  BY DEF TypeOK, Reqs
<1>4. R = Spends(m) /\ \A r \in R : Cardinality(buyRows[r]) = req[r].amount
  <2>1. ASSUME NEW r \in Spends(m)
        PROVE  r \in R /\ Cardinality(buyRows[r]) = req[r].amount
    <3>1. r \in Requests /\ req[r].by = m /\ pc[r] \in Picked \ {"rows"}
      BY <1>2, <2>1 DEF Spends, Running, Spending
    <3>2. Cardinality(buyRows[r]) = req[r].amount
      BY <3>1 DEF Recorded, Held, Running
    <3>3. req[r].amount >= 1
      BY <3>1, BuyerType DEF Picked, BuyPlaces, BuyEnds
    <3>4. buyRows[r] # {}
      <4>1. Cardinality({}) = 0
        BY FS_EmptySet
      <4> QED
        BY <3>2, <3>3, <4>1
    <3> QED
      BY <3>1, <3>2, <3>4 DEF Purchases
  <2>2. ASSUME NEW r \in R PROVE r \in Spends(m)
    <3>1. r \in Requests /\ req[r].by = m /\ buyRows[r] # {}
      BY <2>2 DEF Purchases
    <3>2. pc[r] \in Picked
      BY <1>2, <3>1 DEF Recorded
    <3> QED
      BY <3>1, <3>2 DEF Spends, Running, Spending
  <2> QED
    BY <2>1, <2>2
<1>5. R \subseteq Requests
  BY DEF Purchases
<1>6. f = g
  BY <1>4
<1> QED
  BY <1>1, <1>6

\* The THB of a merchant's rows are near what the coupons cost.
LEMMA RowsAreNear ==
  ASSUME TypeOK, BuyerShape, Recorded, NEW m \in Merchants
  PROVE  /\ BuyRowsOf(m) \in Nat /\ Bought(m) \in Nat
         /\ Near(BuyRowsOf(m), Bought(m))
<1> DEFINE k == [r \in Purchases(m) |-> Cardinality(buyRows[r])]
           v == [r \in Purchases(m) |->
                   Cardinality(buyRows[r]) * PricePerUnitTHB(req[r].amount)]
<1>1. Purchases(m) \subseteq Requests /\ IsFiniteSet(Purchases(m))
  <2>1. Purchases(m) \subseteq Requests
    BY DEF Purchases
  <2> QED
    BY <2>1, Finite, FS_Subset
<1>2. ASSUME NEW r \in Purchases(m)
      PROVE  k[r] \in Nat /\ v[r] \in Nat /\ Near(k[r], v[r])
  <2>1. r \in Requests /\ buyRows[r] # {}
    BY <1>2 DEF Purchases
  <2>2. pc[r] \in Picked \cup {"unrecorded"}
    BY <2>1 DEF Recorded
  <2>3. req[r].amount \in Nat /\ req[r].amount >= 1
    BY <2>1, <2>2, BuyerType DEF Picked, BuyPlaces, BuyEnds
  <2>4. Cardinality(buyRows[r]) \in Nat
    BY <2>1, CodesFinite, FS_Subset, FS_CardinalityType DEF TypeOK
  <2>5. /\ PricePerUnitTHB(req[r].amount) \in Nat
        /\ Near(1, PricePerUnitTHB(req[r].amount))
    BY <2>3, RowIsNear
  <2>6. Near(Cardinality(buyRows[r]),
             Cardinality(buyRows[r]) * PricePerUnitTHB(req[r].amount))
    BY <2>4, <2>5, NearRows
  <2> QED
    BY <2>4, <2>5, <2>6
<1>3. Near(Tally([r \in Purchases(m) |-> k[r]]), Tally([r \in Purchases(m) |-> v[r]]))
  <2> HIDE DEF k, v
  <2> QED
    BY <1>1, <1>2, NearTallies
<1>4. Tallied(k) /\ Tallied(v)
  BY <1>1, <1>2 DEF Tallied
<1>5. BuyRowsOf(m) = Tally(k) /\ Bought(m) = Tally(v)
  BY DEF BuyRowsOf, Bought
<1>6. k = [r \in Purchases(m) |-> k[r]] /\ v = [r \in Purchases(m) |-> v[r]]
  OBVIOUS
<1> HIDE DEF k, v
<1> QED
  BY <1>3, <1>4, <1>5, <1>6, TallyType

\* The THB that a marketer is shown is in the wallet, to less than one for each
\* row.
LEMMA BalancesShown ==
  ASSUME TypeOK, BuyerShape, Held, Recorded, SpentInv, MintedIsAccounted
  PROVE  ShownBalance
<1> SUFFICES ASSUME NEW m \in Merchants,
        {r \in Running({"mintRow", "find", "rows", "unrecorded"}) : req[r].by = m} = {}
    PROVE /\ thb[m] - (Unit * GetTransactionAndThbStats(m).balance + granted[m])
                <= (Unit - 1) * (mintRows[m].rows + BuyRowsOf(m))
          /\ (Unit * GetTransactionAndThbStats(m).balance + granted[m]) - thb[m]
                <= (Unit - 1) * BuyRowsOf(m)
  BY DEF ShownBalance
<1>1. /\ {r \in Running({"find", "rows", "unrecorded"}) : req[r].by = m} = {}
      /\ Owing(m) = {}
  BY DEF Running, Owing
<1>2. /\ BuyRowsOf(m) = TokensOf(m) /\ TokensOf(m) \in Nat /\ Bought(m) \in Nat
      /\ Near(TokensOf(m), Bought(m))
  BY <1>1, RowsAreSpent, RowsAreNear, TokensType
<1>3. ShortOf(Owing(m)) = 0
  <2> DEFINE f == [r \in Owing(m) |-> req[r].short]
  <2>1. Tallied(f) /\ \A x \in DOMAIN f : f[x] = 0
    BY <1>1, FS_EmptySet DEF Tallied
  <2>2. Tally(f) = 0
    BY <2>1, TallyZero
  <2> QED
    BY <2>2 DEF ShortOf
<1>4. PICK u \in Nat : u = Unit - 1 /\ Unit \in Nat
  BY Bounds
<1>5. PICK M, k, t, g, n, B \in Nat :
        /\ M = mintRows[m].thb /\ k = mintRows[m].rows /\ t = thb[m]
        /\ g = granted[m] /\ n = TokensOf(m) /\ B = Bought(m)
  BY <1>2 DEF TypeOK, Minted
<1>6. /\ Unit * M + g <= t + Cost(n) /\ t + Cost(n) <= Unit * M + g + u * k
  <2>1. /\ Unit * M + g + ShortOf(Owing(m)) <= t + Cost(n)
        /\ t + Cost(n) <= Unit * M + g + ShortOf(Owing(m)) + u * k
    BY <1>4, <1>5 DEF MintedIsAccounted, Owing
  <2>2. Unit * M \in Nat /\ u * k \in Nat
    BY <1>4
  <2> QED
    BY <1>3, <2>1, <2>2
<1>7. Cost(n) <= Unit * B + u * n /\ Unit * B <= Cost(n) + u * n
  BY <1>2, <1>4, <1>5 DEF Near
<1>8. /\ Unit * (M - B) = Unit * M - Unit * B
      /\ u * (k + n) = u * k + u * n
  BY <1>4
<1>9. /\ Unit * M \in Nat /\ Unit * B \in Nat /\ u * k \in Nat /\ u * n \in Nat
      /\ Cost(n) \in Nat
  BY <1>4, CostType
<1>10. /\ t - ((Unit * M - Unit * B) + g) <= u * k + u * n
       /\ ((Unit * M - Unit * B) + g) - t <= u * n
  BY <1>6, <1>7, <1>9
<1>11. GetTransactionAndThbStats(m).balance = M - B
  BY <1>5 DEF GetTransactionAndThbStats
<1> QED
  BY <1>2, <1>4, <1>5, <1>8, <1>10, <1>11

\* What is on sale has no owner yet.
LEMMA OnSaleShown ==
  ASSUME TypeOK, Supply
  PROVE  OnSaleIsUnreserved
<1> SUFFICES ASSUME NEW l \in Listings, \E c \in CodesOf(l) : owner[c] # Absent
    PROVE Cardinality(Unsold(l)) >= listing[l].left
  BY DEF OnSaleIsUnreserved
<1>1. listing[l].left + AmountOf(PaidFor(l)) <= Cardinality(Unsold(l))
  BY DEF Supply, Shown
<1>2. AmountOf(PaidFor(l)) \in Nat
  BY AmountType DEF PaidFor, Running
<1>3. listing[l].left \in Nat /\ Cardinality(Unsold(l)) \in Nat
  BY CodesFinite, FS_CardinalityType DEF TypeOK, OnChain
<1> QED
  BY <1>1, <1>2, <1>3

\* The sold codes are the reserved and the unreserved ones.
LEMMA HierarchyShown ==
  ASSUME TypeOK, Recorded, OwnerInv
  PROVE  SellerHierarchy
<1> DEFINE S == AllVoucherCodes(owner)
           O == {c \in S : owner[c] # None}
           R == {c \in O : BuyersOf(buyRows, c) # {}}
<1>1. /\ CalculateOverallSummary(owner, buyRows).sold = Cardinality(S)
      /\ CalculateOverallSummary(owner, buyRows).reserved = Cardinality(R)
      /\ CalculateOverallSummary(owner, buyRows).unreserved = Cardinality(S \ O)
  BY DEF CalculateOverallSummary
<1>2. S \subseteq Codes
  BY DEF AllVoucherCodes
<1>3. ASSUME NEW c \in O PROVE BuyersOf(buyRows, c) # {}
  <2>1. owner[c] \in Merchants
    BY <1>2, <1>3 DEF AllVoucherCodes, TypeOK
  <2>2. PICK r \in Requests : pc[r] \in Done /\ c \in req[r].held
    BY <1>2, <1>3, <2>1 DEF OwnerInv, Running
  <2>3. c \in buyRows[r]
    BY <2>2 DEF Recorded, Done
  <2> QED
    BY <2>3 DEF BuyersOf
<1>4. O = R
  BY <1>3
<1> DEFINE U == S \ O
<1>5. /\ O \subseteq S /\ U \subseteq S /\ IsFiniteSet(S)
      /\ O \cup U = S /\ O \cap U = {}
  BY <1>2, CodesFinite, FS_Subset
<1> HIDE DEF O, R, S, U
<1>6. IsFiniteSet(O) /\ IsFiniteSet(U)
  BY <1>5, FS_Subset
<1>7. Cardinality(O \cup U) = Cardinality(O) + Cardinality(U) - Cardinality(O \cap U)
  BY <1>6, FS_Union
<1>8. Cardinality(S) = Cardinality(O) + Cardinality(S \ O)
  <2>1. Cardinality(O) \in Nat /\ Cardinality(U) \in Nat /\ Cardinality({}) = 0
    BY <1>6, FS_CardinalityType, FS_EmptySet
  <2>2. Cardinality(S) = Cardinality(O) + Cardinality(U) - Cardinality({})
    BY ONLY <1>5, <1>7, Zenon
  <2>3. Cardinality(S) = Cardinality(O) + Cardinality(U)
    BY ONLY <2>1, <2>2, SMT
  <2> QED
    BY <2>3 DEF U
<1> QED
  BY <1>1, <1>4, <1>8 DEF SellerHierarchy

\* A polite merchant whose purchases have ended has bought the codes he owns.
LEMMA BoughtAreOwned ==
  ASSUME TypeOK, BuyerShape, Held, Recorded, OwnerInv, polite, NEW m \in Merchants,
         {r \in Running(Paid \cup {"unrecorded"}) : req[r].by = m} = {}
  PROVE  /\ CodesBought(m) = {c \in Codes : owner[c] = m}
         /\ \A c \in CodesBought(m) : VoucherOf(c) \in Vouchers
<1>1. \A r \in Requests : req[r].by = m => pc[r] \notin Paid \cup {"unrecorded"}
  BY DEF Running
<1>2. ASSUME NEW c \in CodesBought(m) PROVE c \in Codes /\ owner[c] = m
  <2>1. PICK r \in Requests : req[r].by = m /\ c \in buyRows[r]
    BY <1>2 DEF CodesBought
  <2>2. pc[r] \in Done
    BY <1>1, <2>1 DEF Recorded, Done, Picked, Paid
  <2>3. buyRows[r] = req[r].held /\ buyRows[r] \subseteq Codes
    BY <2>2 DEF Recorded, Done, TypeOK
  <2> QED
    BY <2>1, <2>2, <2>3 DEF OwnerInv, Running
<1>3. ASSUME NEW c \in Codes, owner[c] = m
      PROVE  c \in CodesBought(m) /\ VoucherOf(c) \in Vouchers
  <2>1. PICK r \in Requests : pc[r] \in Done /\ c \in req[r].held /\ req[r].by = m
    BY <1>3 DEF OwnerInv, Running
  <2>2. buyRows[r] = req[r].held
    BY <2>1 DEF Recorded, Done
  <2>3. /\ req[r].held \subseteq CodesOf(req[r].listing)
        /\ listing[req[r].listing].voucher \in Vouchers
    BY <2>1 DEF Held, Running, Done, Picked, BuyerShape, BuyerShapeOf, BuyEnds, BuyPlaces
  <2>4. c[1] = req[r].listing
    BY <2>1, <2>3 DEF CodesOf
  <2> QED
    BY <2>1, <2>2, <2>3, <2>4 DEF CodesBought, VoucherOf
<1> QED
  BY <1>2, <1>3

\* Where polite merchants have paid and nothing was lost, all books agree.
LEMMA BooksShown ==
  ASSUME TypeOK, BuyerShape, Held, Recorded, HandsOver, SpentInv, OwnerInv, RowInv
  PROVE  BooksAgree
<1> SUFFICES ASSUME polite, NEW m \in Merchants,
        {r \in Running(Paid \cup {"unrecorded"}) : req[r].by = m} = {}
    PROVE /\ Near(TokensOf(m), GetThbStats(m).purchasedFromSeller)
          /\ Cost(TokensOf(m)) \in Nat /\ BuyRowsOf(m) = TokensOf(m)
          /\ Unit * GetThbStats(m).purchasedFromSeller \in Nat
          /\ (Unit - 1) * TokensOf(m) \in Nat
          /\ GetTransactionAndThbStats(m).bought = GetThbStats(m).purchasedFromSeller
          /\ Cardinality(FetchUniqueCouponCodes(m)) = TokensOf(m)
          /\ TokensOf(m) > 0 => [merchant |-> m, total |-> TokensOf(m)] \in GetMerchants
          /\ \A v \in Vouchers : v \in MarketerDropdown(m) <=> tokens[v][m] > 0
          /\ MarketerDropdown(m) = SellerDropdown(m)
  <2>1. ASSUME NEW a \in Nat, NEW b \in Nat, NEW c \in Nat, a <= b + c, b <= a + c
        PROVE  a - b <= c /\ b - a <= c
    BY <2>1
  <2> QED
    BY <2>1 DEF BooksAgree, Near
<1> DEFINE O == {c \in Codes : owner[c] = m}
           S == [v \in Vouchers |-> CodesOwned(m, v)]
<1>1. BuyRowsOf(m) = TokensOf(m)
  <2>1. {r \in Running({"find", "rows", "unrecorded"}) : req[r].by = m} = {}
    BY DEF Running, Paid
  <2> QED
    BY <2>1, RowsAreSpent
<1>b. /\ Near(TokensOf(m), Bought(m)) /\ Cost(TokensOf(m)) \in Nat
      /\ Unit * Bought(m) \in Nat /\ (Unit - 1) * TokensOf(m) \in Nat
  <2>1. Bought(m) \in Nat /\ TokensOf(m) \in Nat /\ Near(TokensOf(m), Bought(m))
    BY <1>1, RowsAreNear
  <2>2. Unit \in Nat /\ Unit - 1 \in Nat
    BY Bounds
  <2>3. Cost(TokensOf(m)) \in Nat
    BY <2>1, CostType
  <2>4. PICK B, n, u \in Nat : B = Bought(m) /\ n = TokensOf(m) /\ u = Unit - 1
    BY <2>1, <2>2
  <2>5. Unit * B \in Nat /\ u * n \in Nat
    BY <2>2
  <2> QED
    BY <2>1, <2>3, <2>4, <2>5
<1>2. CodesBought(m) = O /\ \A c \in O : VoucherOf(c) \in Vouchers
  BY BoughtAreOwned
<1>3. \A v \in Vouchers : tokens[v][m] = Cardinality(CodesOwned(m, v))
  <2> SUFFICES ASSUME NEW v \in Vouchers PROVE tokens[v][m] = Cardinality(CodesOwned(m, v))
    OBVIOUS
  <2>1. For(m, v, Paid) = {} /\ For(m, v, {"unrecorded"}) = {}
    BY DEF For, Running
  <2>2. tokens[v][m] = Cardinality(CodesOwned(m, v)) + AmountOf({})
    BY <2>1 DEF HandsOver
  <2> QED
    BY <2>2, AmountNone, OwnedType
<1>4. O = UNION {S[v] : v \in Vouchers}
  BY <1>2 DEF CodesOwned, VoucherOf
<1>5. TokensOf(m) = Cardinality(O)
  <2>1. \A v \in Vouchers : IsFiniteSet(S[v])
    BY OwnedType
  <2>2. \A v, w \in Vouchers : v # w => S[v] \cap S[w] = {}
    BY DEF CodesOwned
  <2>3. [v \in Vouchers |-> Cardinality(S[v])] = [v \in Vouchers |-> tokens[v][m]]
    BY <1>3
  <2> HIDE DEF S
  <2>4. Cardinality(UNION {S[v] : v \in Vouchers}) = Tally([v \in Vouchers |-> Cardinality(S[v])])
    BY <2>1, <2>2, Finite, TallyUnion
  <2> QED
    BY <1>4, <2>3, <2>4 DEF TokensOf
<1>6. Cardinality(FetchUniqueCouponCodes(m)) = TokensOf(m)
  BY <1>2, <1>5 DEF FetchUniqueCouponCodes
<1>7. TokensOf(m) > 0 => [merchant |-> m, total |-> TokensOf(m)] \in GetMerchants
  <2>1. CalculateMerchantBreakdown(m) = O
    BY <1>2, Different DEF CalculateMerchantBreakdown, AllVoucherCodes, Absent
  <2>2. TokensOf(m) > 0 => O # {}
    BY <1>5, FS_EmptySet
  <2> HIDE DEF O
  <2> QED
    BY <1>5, <2>1, <2>2 DEF GetMerchants
<1>8. \A v \in Vouchers : v \in MarketerDropdown(m) <=> tokens[v][m] > 0
  <2> SUFFICES ASSUME NEW v \in Vouchers PROVE v \in MarketerDropdown(m) <=> tokens[v][m] > 0
    OBVIOUS
  <2>1. v \in MarketerDropdown(m) <=> CodesOwned(m, v) # {}
    BY <1>2 DEF MarketerDropdown, CodesOwned, VoucherOf
  <2>2. /\ Cardinality(CodesOwned(m, v)) \in Nat
        /\ Cardinality(CodesOwned(m, v)) = 0 <=> CodesOwned(m, v) = {}
    BY OwnedType, FS_EmptySet
  <2> QED
    BY <1>3, <2>1, <2>2
<1>9. MarketerDropdown(m) = SellerDropdown(m)
  <2>1. m # None
    BY Different
  <2>2. \A c \in O : VoucherOf(c) \in SellersVouchers
    BY <1>2 DEF RowInv, SellersVouchers, VoucherOf, Codes
  <2> QED
    BY <1>2, <2>1, <2>2 DEF MarketerDropdown, SellerDropdown
<1> QED
  BY <1>1, <1>b, <1>6, <1>7, <1>8, <1>9 DEF GetTransactionAndThbStats, GetThbStats

\* The strengthening for the dashboards holds at first and is kept.
LEMMA DashInductive ==
  /\ Init => DashInv
  /\ IInv /\ DashInv /\ [Next]_vars => DashInv'
<1>1. ASSUME Init PROVE DashInv
  <2>0. TypeOK
    BY <1>1, InitInvariant DEF IInv
  <2>1. SpentInv
    <3> SUFFICES ASSUME NEW m \in Merchants PROVE TokensOf(m) = AmountOf(Spends(m))
      BY DEF SpentInv
    <3> DEFINE f == [v \in Vouchers |-> tokens[v][m]]
    <3>1. Tallied(f) /\ \A v \in DOMAIN f : f[v] = 0
      BY <1>1, Finite DEF Init, Wallets, Tallied
    <3>2. Tally(f) = 0
      BY <3>1, TallyZero
    <3>3. Spends(m) = {}
      BY <1>1 DEF Init, Spends, Running, Spending, Picked
    <3> QED
      BY <2>0, <3>2, <3>3, AmountNone DEF TokensOf
  <2>2. OwnerInv
    BY <1>1, Different DEF Init, OwnerInv, Running, Done, Picked, Absent
  <2>3. RowInv
    BY <1>1, Different DEF Init, RowInv, ListPlaces, NoListing
  <2> QED
    BY <2>1, <2>2, <2>3 DEF DashInv
<1>2. ASSUME IInv, DashInv, [Next]_vars PROVE DashInv'
  <2>1. TypeOK'
    BY <1>2, TypeStep DEF IInv
  <2>2. SpentInv'
    BY <1>2, <2>1, SpentInvStep DEF IInv, DashInv
  <2>3. OwnerInv'
    BY <1>2, OwnerInvStep DEF IInv, DashInv
  <2>4. RowInv'
    BY <1>2, RowInvStep DEF IInv, DashInv
  <2> QED
    BY <2>2, <2>3, <2>4 DEF DashInv
<1> QED
  BY <1>1, <1>2

\* What sellers and marketers are shown fits together and fits the chain
\* (get-seller-dashboard, get-marketer-dashboard), for any number of
\* merchants, requests and failures and for any price, whole or not: THB to
\* less than one for each row.
THEOREM DashboardsHold == Spec => []DashboardsAreTrue
<1>1. IInv /\ DashInv => DashboardsAreTrue
  BY BalancesShown, OnSaleShown, HierarchyShown, BooksShown
     DEF IInv, DashInv, DashboardsAreTrue
<1> QED
  BY <1>1, DashInductive, InitInvariant, StepInvariant, PTL DEF Spec
=============================================================================
