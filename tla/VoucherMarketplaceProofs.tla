---------------------- MODULE VoucherMarketplaceProofs ----------------------
(***************************************************************************)
(* Proofs about the marketplace: first about the requests of               *)
(* VoucherMarketplace that change it, then about what MarketplaceView      *)
(* shows of it.  The two specifications share no name.                     *)
(***************************************************************************)
EXTENDS VoucherMarketplace, MarketplaceView, TallyProofs

Places == \A r \in Requests : PlaceInv(r)

-----------------------------------------------------------------------------
(* Typing.                                                                 *)

\* The initial state has its types.
LEMMA InitTypes == Init => TypeOK
<1> SUFFICES ASSUME Init PROVE TypeOK
  OBVIOUS
<1>1. \A w \in Merchants \cup Customers :
        Cardinality({c \in Codes : owner[c] = w}) \in Nat
  <2> SUFFICES ASSUME NEW w \in Merchants \cup Customers
               PROVE  Cardinality({c \in Codes : owner[c] = w}) \in Nat
    OBVIOUS
  <2>1. IsFiniteSet({c \in Codes : owner[c] = w})
    BY FS_Subset, FinitelyMany
  <2> QED
    BY <2>1, FS_CardinalityType
<1> QED
  BY <1>1, Bounds, SMTT(20) DEF Init, TypeOK, NoBatch, Batches, NoListing, OnChain,
     NoReq, Reqs, NoSweep, Sweeps, Running, Answered, Failed

\* Buyers keep the types.
LEMMA BuyTypes ==
  ASSUME TypeOK, Places, NEW r \in Requests,
         FindCode(r) \/ CheckBalance(r) \/ Pay(r) \/ Record(r) \/ Count(r)
           \/ Close(r)
  PROVE  TypeOK'
<1> USE DEF TypeOK, Running, Buying, Answered, Failed, codes, chain, cron
<1>1. CASE FindCode(r)
  BY <1>1 DEF FindCode, Begin, Goto, Reqs, OnSale
<1>2. CASE CheckBalance(r)
  BY <1>2 DEF CheckBalance, Goto, Raises
<1>3. CASE Pay(r)
  <2>1. req[r].by \in Customers /\ req[r].listing \in Requests
    BY <1>3 DEF Places, PlaceInv, Bought, Pay
  <2> DEFINE l == req[r].listing
  <2>2. listing[l].left \in Nat /\ listing[l].seller \in Merchants \cup {None}
    BY <2>1 DEF OnChain
  <2>3. ASSUME Sell(l, req[r].by)
        PROVE  /\ listing' \in [Requests -> OnChain]
               /\ tokens' \in [Merchants \cup Customers -> Nat]
               /\ points' \in [Customers -> Nat]
    <3>1. listing[l].left >= 1 /\ listing[l].left - 1 \in Nat
      BY <2>2, <2>3 DEF Sell
    <3>2. [seller |-> listing[l].seller, left |-> listing[l].left - 1,
           open |-> listing[l].left > 1] \in OnChain
      BY <2>1, <2>2, <3>1 DEF OnChain
    <3>3. listing' \in [Requests -> OnChain]
      BY <2>1, <2>3, <3>2 DEF Sell
    <3> QED
      BY <2>1, <2>3, <3>3 DEF Sell
  <2>4. /\ listing' \in [Requests -> OnChain]
        /\ tokens' \in [Merchants \cup Customers -> Nat]
        /\ points' \in [Customers -> Nat]
    BY <1>3, <2>3 DEF Pay
  <2> QED
    BY <1>3, <2>4 DEF Pay, Goto, Raises
<1>4. CASE Record(r)
  <2>1. req[r].by \in Customers
    BY <1>4 DEF Places, PlaceInv, Bought, Record
  <2> QED
    BY <1>4, <2>1 DEF Record, Goto, Raises
<1>5. CASE Count(r)
  <2>1. req[r].listing \in Requests
    BY <1>5 DEF Places, PlaceInv, Bought, Count
  <2> DEFINE l == req[r].listing
  <2>2. [batch[l] EXCEPT !.sold = @ + 1] \in Batches
    BY <2>1 DEF Batches
  <2>3. batch' \in [Requests -> Batches]
    BY <1>5, <2>1, <2>2 DEF Count
  <2> QED
    BY <1>5, <2>3 DEF Count, Goto, Raises
<1>6. CASE Close(r)
  <2>1. req[r].listing \in Requests
    BY <1>6 DEF Places, PlaceInv, Bought, Close
  <2> DEFINE l == req[r].listing
  <2>2. [batch[l] EXCEPT !.soldOut = @ \/ SoldOut(batch[l])] \in Batches
    BY <2>1 DEF SoldOut, Batches
  <2>3. batch' \in [Requests -> Batches]
    BY <1>6, <2>1, <2>2 DEF Close
  <2> QED
    BY <1>6, <2>3, SMTT(20) DEF Close, Goto, Raises
<1> QED
  BY <1>1, <1>2, <1>3, <1>4, <1>5, <1>6

\* What a merchant withdraws goes back to his wallet.
LEMMA WithdrawTypes ==
  ASSUME TypeOK, Places, NEW l \in Requests, NEW m, Withdraw(l, m)
  PROVE  /\ m \in Merchants
         /\ listing' \in [Requests -> OnChain]
         /\ tokens' \in [Merchants \cup Customers -> Nat]
         /\ points' \in [Customers -> Nat]
<1>1. listing[l].seller = m /\ listing[l].open
  BY DEF Withdraw, Withdrawable
<1>2. m \in Merchants
  BY <1>1 DEF Places, PlaceInv
<1>3. listing[l].left \in Nat
  BY DEF TypeOK, OnChain
<1> QED
  BY <1>2, <1>3 DEF TypeOK, Withdraw, OnChain

\* So do sellers.
LEMMA SellTypes ==
  ASSUME TypeOK, Places, NEW r \in Requests,
         Activate(r) \/ FetchStock(r) \/ ListOnChain(r) \/ Persist(r)
           \/ Delist(r) \/ DelistOnChain(r) \/ ClearGroup(r)
  PROVE  TypeOK'
<1> USE DEF TypeOK, Running, Selling, Answered, Failed, codes, chain, cron
<1>1. CASE Activate(r)
  BY <1>1 DEF Activate, Begin, Goto, Reqs
<1>2. CASE FetchStock(r)
  <2>1. \A S \in SUBSET Stock(req[r].by) :
          [req[r] EXCEPT !.held = S] \in Reqs
    BY DEF Reqs, Stock
  <2>2. req' \in [Requests -> Reqs]
    BY <1>2, <2>1 DEF FetchStock
  <2> QED
    BY <1>2, <2>2 DEF FetchStock, Goto
<1>3. CASE ListOnChain(r)
  <2> DEFINE m == req[r].by  n == req[r].amount
  <2>1. m \in Merchants /\ n \in Nat
    BY <1>3 DEF ListOnChain, Places, PlaceInv, Reqs
  <2>2. ASSUME Escrow(r, m, n)
        PROVE  /\ listing' \in [Requests -> OnChain]
               /\ tokens' \in [Merchants \cup Customers -> Nat]
               /\ points' \in [Customers -> Nat]
    <3>1. tokens[m] - n \in Nat
      BY <2>1, <2>2 DEF Escrow
    <3> QED
      BY <2>1, <2>2, <3>1 DEF Escrow, OnChain
  <2> QED
    BY <1>3, <2>2 DEF ListOnChain, Goto, Raises
<1>4. CASE Persist(r)
  <2>1. [NoBatch EXCEPT !.total = req[r].amount] \in Batches
    BY DEF NoBatch, Batches, Reqs
  <2>2. req[r].held \subseteq Codes
    BY DEF Reqs
  <2>3. batch' \in [Requests -> Batches]
    BY <1>4, <2>1 DEF Persist
  <2> QED
    BY <1>4, <2>2, <2>3 DEF Persist, Goto, Raises
<1>5. CASE Delist(r)
  <2>1. Listed(req[r].listing) \subseteq Codes
    BY DEF Listed
  <2> QED
    BY <1>5 DEF Delist, Begin, Goto, Reqs, Listed
<1>6. CASE DelistOnChain(r)
  <2>1. req[r].listing \in Requests
    BY <1>6 DEF DelistOnChain, Places, PlaceInv
  <2>2. /\ listing' \in [Requests -> OnChain]
        /\ tokens' \in [Merchants \cup Customers -> Nat]
        /\ points' \in [Customers -> Nat]
    BY <1>6, <2>1, WithdrawTypes DEF DelistOnChain
  <2> QED
    BY <1>6, <2>2 DEF DelistOnChain, Goto, Raises
<1>7. CASE ClearGroup(r)
  BY <1>7 DEF ClearGroup, Unlist, Goto, Raises
<1> QED
  BY <1>1, <1>2, <1>3, <1>4, <1>5, <1>6, <1>7

\* So do transfers and the cron.
LEMMA OtherTypes ==
  ASSUME TypeOK, Places, End \/ CronStep \/ \E c \in Codes : Transfer(c)
  PROVE  TypeOK'
<1> USE DEF TypeOK, codes, chain, cron
<1>1. CASE End
  BY <1>1 DEF End
<1>2. CASE StartSweep
  <2>1. sweep' \in Sweeps
    BY <1>2 DEF StartSweep, Sweeps
  <2> QED
    BY <1>2, <2>1 DEF StartSweep
<1>3. CASE Mark
  BY <1>3 DEF Mark, NoSweep, Sweeps, Raises
<1>4. ASSUME NEW l \in Requests, SweepOnChain(l) PROVE TypeOK'
  <2>1. [sweep EXCEPT !.clearing = l] \in Sweeps
    BY DEF Sweeps
  <2>2. /\ listing' \in [Requests -> OnChain]
        /\ tokens' \in [Merchants \cup Customers -> Nat]
        /\ points' \in [Customers -> Nat]
    BY <1>4, WithdrawTypes DEF SweepOnChain
  <2> QED
    BY <1>4, <2>1, <2>2 DEF SweepOnChain, Raises
<1>5. ASSUME NEW l \in Requests, SweepClear(l) PROVE TypeOK'
  <2>1. [sweep EXCEPT !.clearing = None, !.todo = sweep.todo \ {l}] \in Sweeps
    BY DEF Sweeps
  <2> QED
    BY <1>5, <2>1 DEF SweepClear, Unlist, Raises
<1>6. ASSUME NEW c \in Codes, Transfer(c) PROVE TypeOK'
  <2>1. CASE Reserve(c) \/ Release(c)
    BY <2>1 DEF Reserve, Release
  <2>2. ASSUME NEW k \in Customers, Deliver(c, k) PROVE TypeOK'
    <3>1. owner[c] \in Merchants /\ owner[c] # k /\ tokens[owner[c]] - 1 \in Nat
      BY <2>2, TwoSides DEF Deliver, Reserved
    <3> QED
      BY <2>2, <3>1 DEF Deliver
  <2> QED
    BY <1>6, <2>1, <2>2 DEF Transfer
<1> QED
  BY <1>1, <1>2, <1>3, <1>4, <1>5, <1>6 DEF CronStep

\* So does every step.
LEMMA TypeStep == TypeOK /\ Places /\ [Next]_vars => TypeOK'
<1> SUFFICES ASSUME TypeOK, Places, [Next]_vars PROVE TypeOK'
  OBVIOUS
<1>1. CASE UNCHANGED vars
  BY <1>1 DEF TypeOK, vars
<1>2. ASSUME NEW r \in Requests,
             FindCode(r) \/ Activate(r) \/ Delist(r) \/ RequestStep(r)
      PROVE  TypeOK'
  BY <1>2, BuyTypes, SellTypes DEF RequestStep
<1> QED
  BY <1>1, <1>2, OtherTypes DEF Next

-----------------------------------------------------------------------------
(* Requests and listings.                                                  *)

\* A request moves alone, from a place that is not an answer.
LEMMA OneMoves ==
  ASSUME TypeOK, NEW r \in Requests,
         FindCode(r) \/ Activate(r) \/ Delist(r) \/ RequestStep(r)
  PROVE  /\ pc[r] \in {"idle"} \cup Running
         /\ \A q \in Requests \ {r} : pc'[q] = pc[q] /\ req'[q] = req[q]
<1> USE DEF Goto, Begin, TypeOK, Running, Buying, Selling
<1>1. CASE FindCode(r) \/ Activate(r) \/ Delist(r) \/ FetchStock(r)
  BY <1>1 DEF FindCode, Activate, Delist, FetchStock
<1>2. CASE CheckBalance(r) \/ Pay(r) \/ Record(r) \/ Count(r) \/ Close(r)
  BY <1>2 DEF CheckBalance, Pay, Record, Count, Close
<1>3. CASE ListOnChain(r) \/ Persist(r) \/ DelistOnChain(r) \/ ClearGroup(r)
  BY <1>3 DEF ListOnChain, Persist, DelistOnChain, ClearGroup
<1> QED
  BY <1>1, <1>2, <1>3 DEF RequestStep

\* Steps that are no request's leave the requests and the batches alone.
LEMMA OthersStay ==
  ASSUME TypeOK, End \/ CronStep \/ \E c \in Codes : Transfer(c)
  PROVE  pc' = pc /\ req' = req /\ batch' = batch /\ balance' = balance
           /\ points' = points
  BY DEF End, CronStep, StartSweep, Mark, SweepOnChain, SweepClear, Withdraw,
     Transfer, Reserve, Release, Deliver, codes, chain, cron

\* An activation that was made stays made.
LEMMA ActivatedStays ==
  ASSUME TypeOK, [Next]_vars, NEW l \in Requests, Activated(l)
  PROVE  Activated(l)'
<1>1. CASE UNCHANGED vars
  BY <1>1 DEF vars, Activated
<1>2. ASSUME NEW r \in Requests,
             FindCode(r) \/ Activate(r) \/ Delist(r) \/ RequestStep(r)
      PROVE  Activated(l)'
  BY <1>2, OneMoves DEF Activated, Running, Buying, Selling
<1> QED
  BY <1>1, <1>2, OthersStay DEF Next, Activated

\* Sales and withdrawals only take from a listing that is on chain.
LEMMA ListingShrinks ==
  ASSUME TypeOK, Places, NEW l \in Requests, NEW k,
         (k \in Customers /\ Sell(l, k)) \/ Withdraw(l, k)
  PROVE  /\ \A q \in Requests \ {l} : listing'[q] = listing[q]
         /\ listing[l] # NoListing
         /\ listing'[l].left <= listing[l].left
         /\ listing'[l].open => listing'[l].seller \in Merchants
<1>1. listing[l].left \in Nat
  BY DEF TypeOK, OnChain
<1>2. listing[l].open => listing[l].seller \in Merchants
  BY DEF Places, PlaceInv
<1> QED
  BY <1>1, <1>2 DEF Sell, Withdraw, Withdrawable, TypeOK, NoListing

\* A listing that becomes smaller stays where its seller left it.
LEMMA ShrinkKeepsPlaces ==
  ASSUME TypeOK, Places, NEW l \in Requests, NEW k,
         (k \in Customers /\ Sell(l, k)) \/ Withdraw(l, k)
  PROVE  \A q \in Requests :
           /\ pc[q] \notin {"persist", "activated", "stranded"} =>
                listing'[q] = NoListing
           /\ pc[q] = "persist" => listing'[q].left <= req[q].amount
           /\ listing'[q].open => listing'[q].seller \in Merchants
<1> SUFFICES ASSUME NEW q \in Requests
             PROVE  /\ pc[q] \notin {"persist", "activated", "stranded"} =>
                         listing'[q] = NoListing
                    /\ pc[q] = "persist" => listing'[q].left <= req[q].amount
                    /\ listing'[q].open => listing'[q].seller \in Merchants
  OBVIOUS
<1>1. PlaceInv(q)
  BY DEF Places
<1>2. listing[q].left \in Nat /\ req[q].amount \in Nat
  BY DEF TypeOK, OnChain, Reqs
<1>3. CASE q # l
  BY <1>1, <1>3, ListingShrinks DEF PlaceInv
<1>4. CASE q = l
  <2>1. listing'[l].left \in Nat
    <3>1. CASE k \in Customers /\ Sell(l, k)
      BY <3>1, <1>2, <1>4 DEF Sell, TypeOK
    <3>2. CASE Withdraw(l, k)
      BY <3>2 DEF Withdraw, TypeOK
    <3> QED
      BY <3>1, <3>2
  <2> QED
    BY <2>1, <1>1, <1>2, <1>4, ListingShrinks DEF PlaceInv
<1> QED
  BY <1>3, <1>4

\* Buyers keep the places of sellers.
LEMMA BuyPlaces ==
  ASSUME TypeOK, Places, [Next]_vars, NEW r \in Requests,
         FindCode(r) \/ CheckBalance(r) \/ Pay(r) \/ Record(r) \/ Count(r)
           \/ Close(r),
         GroupInv
  PROVE  Places'
<1> SUFFICES ASSUME NEW q \in Requests PROVE PlaceInv(q)'
  BY DEF Places
<1> DEFINE l == req[r].listing
<1>a. PlaceInv(q) /\ PlaceInv(r)
  BY DEF Places
<1>b. \A a \in Requests : Activated(a) => Activated(a)'
  BY ActivatedStays
<1>c. pc[r] # "idle" => req[r].by \in Customers /\ l \in Requests /\ Activated(l)
  BY <1>a DEF PlaceInv, FindCode, CheckBalance, Pay, Record, Count, Close,
     Bought, Buying
<1>d. q # r => pc'[q] = pc[q] /\ req'[q] = req[q]
  BY OneMoves DEF RequestStep
<1>e. pc'[r] \in Bought \cup {"refused"} /\ pc[r] \notin Bought \ Buying
  BY DEF FindCode, CheckBalance, Pay, Record, Count, Close, Goto, TypeOK,
     Bought, Buying
<1>f. pc[r] \in Buying \cup {"idle"}
  BY DEF FindCode, CheckBalance, Pay, Record, Count, Close, Buying
<1>1. /\ pc'[q] \notin {"persist", "activated", "stranded"} =>
           listing'[q] = NoListing
      /\ pc'[q] = "persist" => listing'[q].left <= req'[q].amount
      /\ listing'[q].open => listing'[q].seller \in Merchants
  <2>1. CASE listing' = listing
    BY <2>1, <1>a, <1>d, <1>e, <1>f DEF PlaceInv, Bought, Buying
  <2>2. CASE Pay(r) /\ Sell(l, req[r].by)
    BY <2>2, <1>c, <1>d, <1>e, <1>f, ShrinkKeepsPlaces DEF Pay, Bought, Buying
  <2> QED
    BY <2>1, <2>2 DEF FindCode, CheckBalance, Pay, Record, Count, Close, chain
<1>2. (Activated(q) <=> batch[q] # NoBatch)'
  <2>1. Activated(q)' <=> Activated(q)
    BY <1>b, <1>d, <1>e DEF Activated, Bought, Buying
  <2>2. batch'[q] # NoBatch <=> batch[q] # NoBatch
    <3>1. CASE Count(r) /\ batch' # batch
      <4>1. l \in Requests /\ Activated(l)
        BY <1>c, <3>1 DEF Count
      <4>2. batch[l] \in Batches /\ batch[l].sold \in Nat
        BY <4>1 DEF TypeOK, Batches
      <4>3. batch' = [batch EXCEPT ![l] = [batch[l] EXCEPT !.sold = @ + 1]]
        BY <3>1 DEF Count
      <4>4. [batch[l] EXCEPT !.sold = @ + 1].sold # 0
        BY <4>2 DEF Batches
      <4>5. [batch[l] EXCEPT !.sold = @ + 1] # NoBatch
        BY <4>4 DEF NoBatch
      <4>6. batch[l] # NoBatch
        BY <4>1 DEF Places, PlaceInv
      <4> QED
        BY <4>1, <4>3, <4>5, <4>6 DEF TypeOK
    <3>2. CASE Close(r) /\ batch' # batch
      <4>1. l \in Requests /\ Activated(l)
        BY <1>c, <3>2 DEF Close
      <4>2. batch[l] \in Batches
        BY <4>1 DEF TypeOK
      <4>3. batch' = [batch EXCEPT ![l] = [batch[l] EXCEPT
                                             !.soldOut = @ \/ SoldOut(batch[l])]]
        BY <3>2 DEF Close
      <4>4. batch[l] # NoBatch
        BY <4>1 DEF Places, PlaceInv
      <4>5. [batch[l] EXCEPT !.soldOut = @ \/ SoldOut(batch[l])] # NoBatch
        BY <4>2, <4>4 DEF Batches, NoBatch, SoldOut
      <4> QED
        BY <4>1, <4>3, <4>4, <4>5 DEF TypeOK
    <3>3. CASE batch' = batch
      BY <3>3
    <3> QED
      BY <3>1, <3>2, <3>3 DEF FindCode, CheckBalance, Pay, Record, Count, Close
  <2> QED
    BY <2>1, <2>2, <1>a DEF PlaceInv
<1>3. (pc[q] \in Bought =>
         /\ req[q].by \in Customers
         /\ req[q].listing \in Requests /\ Activated(req[q].listing))'
  <2>1. CASE q # r
    BY <2>1, <1>a, <1>b, <1>d DEF PlaceInv
  <2>2. CASE q = r /\ FindCode(r)
    <3>1. PICK k \in Customers, a \in Requests :
            \E c \in OnSale(a) : Begin(r, k, a, 1, {c})
      BY <2>2 DEF FindCode
    <3>2. Activated(a)
      BY <3>1, NoneIsNobody DEF OnSale, GroupInv, TypeOK
    <3>3. req'[r].by = k /\ req'[r].listing = a
      BY <3>1 DEF Begin, TypeOK
    <3> QED
      BY <1>b, <2>2, <3>2, <3>3
  <2>3. CASE q = r /\ ~FindCode(r)
    <3>1. req' = req /\ pc[r] # "idle"
      BY <2>3 DEF CheckBalance, Pay, Record, Count, Close
    <3> QED
      BY <1>b, <1>c, <2>3, <3>1
  <2> QED
    BY <2>1, <2>2, <2>3
<1>4. (pc[q] \in {"fetch", "list", "persist", "activated"} =>
         req[q].by \in Merchants /\ req[q].amount >= 1)'
  BY <1>a, <1>d, <1>e DEF PlaceInv, Bought, Buying
<1>5. (pc[q] \in {"delist", "clear"} =>
         req[q].by \in Merchants /\ req[q].listing \in Requests)'
  BY <1>a, <1>d, <1>e DEF PlaceInv, Bought, Buying
<1> QED
  BY <1>1, <1>2, <1>3, <1>4, <1>5 DEF PlaceInv

\* Sellers keep them.
LEMMA SellPlaces ==
  ASSUME TypeOK, Places, [Next]_vars, NEW r \in Requests,
         Activate(r) \/ FetchStock(r) \/ ListOnChain(r) \/ Persist(r)
           \/ Delist(r) \/ DelistOnChain(r) \/ ClearGroup(r)
  PROVE  Places'
<1> SUFFICES ASSUME NEW q \in Requests PROVE PlaceInv(q)'
  BY DEF Places
<1> DEFINE l == req[r].listing
<1>a. PlaceInv(q) /\ PlaceInv(r)
  BY DEF Places
<1>b. \A a \in Requests : Activated(a) => Activated(a)'
  BY ActivatedStays
<1>c. q # r => pc'[q] = pc[q] /\ req'[q] = req[q]
  BY OneMoves DEF RequestStep
<1>1. CASE q # r
  <2>1. batch'[q] = batch[q]
    BY <1>1 DEF Activate, FetchStock, ListOnChain, Persist, Delist,
       DelistOnChain, ClearGroup, TypeOK
  <2>2. /\ pc[q] \notin {"persist", "activated", "stranded"} =>
             listing'[q] = NoListing
        /\ pc[q] = "persist" => listing'[q].left <= req[q].amount
        /\ listing'[q].open => listing'[q].seller \in Merchants
    <3>1. CASE listing'[q] = listing[q]
      BY <3>1, <1>a DEF PlaceInv
    <3>2. CASE DelistOnChain(r) /\ Withdraw(l, req[r].by)
      <4>1. l \in Requests
        BY <1>a, <3>2 DEF DelistOnChain, PlaceInv
      <4> QED
        BY <4>1, <3>2, ShrinkKeepsPlaces
    <3>3. listing'[q] = listing[q] \/ (DelistOnChain(r) /\ Withdraw(l, req[r].by))
      BY <1>1 DEF Activate, FetchStock, ListOnChain, Escrow, Persist, Delist,
         DelistOnChain, ClearGroup, TypeOK, chain
    <3> QED
      BY <3>1, <3>2, <3>3
  <2> QED
    BY <1>a, <1>b, <1>c, <1>1, <2>1, <2>2 DEF PlaceInv, Activated
<1>2. CASE q = r
  <2> USE DEF PlaceInv, Activated, Bought, Buying, Goto, TypeOK
  <2>1. CASE Activate(r)
    <3>1. PICK m \in Merchants :
            \E n \in 1 .. Cardinality(Stock(m)) : Begin(r, m, r, n, {})
      BY <2>1 DEF Activate
    <3> QED
      BY <1>2, <1>a, <2>1, <3>1 DEF Activate, Begin, chain
  <2>2. CASE FetchStock(r)
    BY <1>2, <1>a, <2>2 DEF FetchStock, chain
  <2>3. CASE ListOnChain(r)
    <3>1. req[r].by \in Merchants /\ req[r].amount \in Nat /\ req[r].amount >= 1
      BY <1>a, <2>3 DEF ListOnChain, Reqs
    <3>2. listing[r] = NoListing /\ batch[r] = NoBatch
      BY <1>a, <2>3 DEF ListOnChain
    <3>3. batch' = batch /\ req' = req
      BY <2>3 DEF ListOnChain
    <3>4. CASE Escrow(r, req[r].by, req[r].amount)
      <4>1. listing'[r] = [seller |-> req[r].by, left |-> req[r].amount,
                           open |-> TRUE]
        BY <3>4 DEF Escrow
      <4>2. pc'[r] \in {"persist", "stranded"}
        BY <2>3, <3>1, <3>4 DEF ListOnChain, Escrow, chain
      <4> QED
        BY <1>2, <3>1, <3>2, <3>3, <4>1, <4>2
    <3>5. CASE ~Escrow(r, req[r].by, req[r].amount)
      <4>1. pc'[r] = "refused" /\ listing' = listing
        BY <2>3, <3>5 DEF ListOnChain, chain
      <4> QED
        BY <1>2, <3>2, <3>3, <4>1 DEF NoListing
    <3> QED
      BY <3>4, <3>5
  <2>4. CASE Persist(r)
    <3>1. [NoBatch EXCEPT !.total = req[r].amount] # NoBatch
      BY <1>a, <2>4 DEF NoBatch, Persist, Reqs
    <3> QED
      BY <1>2, <1>a, <2>4, <3>1 DEF Persist, chain
  <2>5. CASE Delist(r)
    BY <1>2, <1>a, <2>5 DEF Delist, Begin, chain
  <2>6. CASE DelistOnChain(r)
    <3>1. l \in Requests
      BY <1>a, <2>6 DEF DelistOnChain
    <3>2. /\ listing'[r] = NoListing
          /\ listing'[r].open => listing'[r].seller \in Merchants
      <4>1. CASE Withdraw(l, req[r].by)
        BY <2>6, <3>1, <4>1, ShrinkKeepsPlaces DEF DelistOnChain
      <4>2. CASE UNCHANGED chain
        BY <1>a, <2>6, <4>2 DEF DelistOnChain, chain
      <4> QED
        BY <2>6, <4>1, <4>2 DEF DelistOnChain
    <3> QED
      BY <1>2, <1>a, <2>6, <3>1, <3>2 DEF DelistOnChain
  <2>7. CASE ClearGroup(r)
    BY <1>2, <1>a, <2>7 DEF ClearGroup, chain
  <2> QED
    BY <2>1, <2>2, <2>3, <2>4, <2>5, <2>6, <2>7
<1> QED
  BY <1>1, <1>2

\* Transfers and the cron keep them.
LEMMA OtherPlaces ==
  ASSUME TypeOK, Places, End \/ CronStep \/ \E c \in Codes : Transfer(c)
  PROVE  Places'
<1> SUFFICES ASSUME NEW q \in Requests PROVE PlaceInv(q)'
  BY DEF Places
<1>1. PlaceInv(q)
  BY DEF Places
<1>2. pc' = pc /\ req' = req /\ batch' = batch
  BY OthersStay
<1>3. CASE listing' = listing
  BY <1>1, <1>2, <1>3 DEF PlaceInv, Activated
<1>4. ASSUME NEW l \in Requests, Withdraw(l, sweep.signer[l])
      PROVE  PlaceInv(q)'
  BY <1>1, <1>2, <1>4, ShrinkKeepsPlaces DEF PlaceInv, Activated
<1> QED
  BY <1>3, <1>4 DEF End, CronStep, StartSweep, Mark, SweepOnChain, SweepClear,
     Transfer, Reserve, Release, Deliver, chain

\* Every step keeps them.
LEMMA PlaceStep ==
  TypeOK /\ Places /\ GroupInv /\ [Next]_vars => Places' /\ GroupInv'
<1> SUFFICES ASSUME TypeOK, Places, GroupInv, [Next]_vars
             PROVE  Places' /\ GroupInv'
  OBVIOUS
<1>1. Places'
  <2>1. CASE UNCHANGED vars
    BY <2>1 DEF Places, PlaceInv, Activated, vars
  <2>2. ASSUME NEW r \in Requests,
               FindCode(r) \/ Activate(r) \/ Delist(r) \/ RequestStep(r)
        PROVE  Places'
    BY <2>2, BuyPlaces, SellPlaces DEF RequestStep
  <2> QED
    BY <2>1, <2>2, OtherPlaces DEF Next
<1>2. GroupInv'
  <2> SUFFICES ASSUME NEW c \in Codes, group'[c] # None
               PROVE  pc'[group'[c]] = "activated"
    BY DEF GroupInv, Activated
  <2>1. CASE group'[c] = group[c]
    <3>1. Activated(group[c]) /\ group[c] \in Requests
      BY <2>1 DEF GroupInv, TypeOK
    <3>2. pc'[group[c]] = "activated"
      BY <3>1, ActivatedStays DEF Activated
    <3> QED
      BY <2>1, <3>2
  <2>2. ASSUME NEW r \in Requests, Persist(r), group'[c] # group[c]
        PROVE  pc'[group'[c]] = "activated"
    BY <2>2 DEF Persist, Goto, TypeOK
  <2>3. group'[c] = group[c] \/ \E r \in Requests : Persist(r)
    BY DEF Next, vars, RequestStep, FindCode, CheckBalance, Pay, Record, Count,
       Close, Activate, FetchStock, ListOnChain, Delist, DelistOnChain,
       ClearGroup, Unlist, End, CronStep, StartSweep, Mark, SweepOnChain,
       SweepClear, Transfer, Reserve, Release, Deliver, TypeOK, codes
  <2> QED
    BY <2>1, <2>2, <2>3
<1> QED
  BY <1>1, <1>2

-----------------------------------------------------------------------------
(* Counting requests.                                                      *)

\* The tallies are finite.
LEMMA FiniteTallies ==
  ASSUME NEW x, NEW P
  PROVE  /\ IsFiniteSet(By(x, P)) /\ Cardinality(By(x, P)) \in Nat
         /\ IsFiniteSet(At(x, P)) /\ Cardinality(At(x, P)) \in Nat
<1>1. IsFiniteSet(By(x, P)) /\ IsFiniteSet(At(x, P))
  BY FS_Subset, FinitelyMany DEF By, At
<1> QED
  BY <1>1, FS_CardinalityType

\* A tally with one request more.
LEMMA OneMore ==
  ASSUME NEW S, IsFiniteSet(S), NEW r, r \notin S
  PROVE  Cardinality(S \cup {r}) = Cardinality(S) + 1
  BY FS_AddElement

\* A tally with one request less.
LEMMA OneLess ==
  ASSUME NEW S, IsFiniteSet(S), NEW r \in S
  PROVE  Cardinality(S \ {r}) = Cardinality(S) - 1
  BY FS_RemoveElement

\* Sellers, transfers and the cron are in none of the tallies.
LEMMA SellersDoNotBuy ==
  ASSUME TypeOK, NEW r \in Requests,
         Activate(r) \/ FetchStock(r) \/ ListOnChain(r) \/ Persist(r)
           \/ Delist(r) \/ DelistOnChain(r) \/ ClearGroup(r)
  PROVE  /\ pc[r] \notin Bought /\ pc'[r] \notin Bought
         /\ balance' = balance /\ points' = points
<1> USE DEF Goto, TypeOK, Bought, Buying, chain
<1>1. CASE Activate(r) \/ FetchStock(r) \/ Delist(r)
  BY <1>1 DEF Activate, FetchStock, Delist
<1>2. CASE ListOnChain(r)
  BY <1>2 DEF ListOnChain, Escrow
<1>3. CASE DelistOnChain(r)
  BY <1>3 DEF DelistOnChain, Withdraw
<1>4. CASE Persist(r) \/ ClearGroup(r)
  BY <1>4 DEF Persist, ClearGroup
<1> QED
  BY <1>1, <1>2, <1>3, <1>4

\* A request that paid goes on to record it or has lost the answer.
LEMMA SoldOnChain ==
  ASSUME TypeOK, NEW r \in Requests, Pay(r), req[r].by \in Customers,
         req[r].listing \in Requests,
         Sell(req[r].listing, req[r].by)
  PROVE  pc'[r] \in {"record", "unrecorded"}
<1> DEFINE l == req[r].listing  by == req[r].by
<1>1. points[by] \in Nat
  BY DEF TypeOK
<1>2. points'[by] # points[by]
  BY <1>1 DEF Sell, TypeOK
<1>3. ~CannotSell(l, by)
  <2>1. listing[l].open /\ listing[l].left >= 1 /\ points[by] >= 1
    BY DEF Sell
  <2>2. listing[l].left \in Nat
    BY DEF TypeOK, OnChain
  <2> QED
    BY <1>1, <2>1, <2>2 DEF CannotSell
<1> QED
  BY <1>2, <1>3 DEF Pay, Goto, TypeOK, chain

\* The balance is the chain's plus what waits to be recorded.
LEMMA BalanceStep ==
  TypeOK /\ Places /\ BalanceFollowsChain /\ [Next]_vars => BalanceFollowsChain'
<1> DEFINE P == {"record", "unrecorded"}
           StillWaiting(k) == By(k, P)
<1> SUFFICES ASSUME TypeOK, Places, BalanceFollowsChain, [Next]_vars,
                    NEW k \in Customers
             PROVE  balance'[k] = points'[k] + Cardinality(StillWaiting(k)')
  BY DEF BalanceFollowsChain
<1>a. /\ IsFiniteSet(StillWaiting(k)) /\ Cardinality(StillWaiting(k)) \in Nat
      /\ balance[k] = points[k] + Cardinality(StillWaiting(k))
      /\ balance[k] \in Int /\ points[k] \in Nat
  BY FiniteTallies DEF BalanceFollowsChain, TypeOK
<1>1. CASE UNCHANGED <<balance, points>> /\ StillWaiting(k)' = StillWaiting(k)
  BY <1>1, <1>a
<1>2. ASSUME NEW r \in Requests, Pay(r)
      PROVE  balance'[k] = points'[k] + Cardinality(StillWaiting(k)')
  <2> DEFINE by == req[r].by
  <2>1. by \in Customers /\ req[r].listing \in Requests
    BY <1>2 DEF Places, PlaceInv, Pay, Bought, Buying
  <2>2. req' = req /\ balance' = balance /\ pc[r] = "pay"
    BY <1>2 DEF Pay
  <2>3. \A q \in Requests \ {r} : pc'[q] = pc[q]
    BY <1>2, OneMoves DEF RequestStep
  <2>4. CASE Sell(req[r].listing, by)
    <3>1. pc'[r] \in P
      BY <1>2, <2>1, <2>4, SoldOnChain
    <3>2. points' = [points EXCEPT ![by] = @ - 1]
      BY <2>4 DEF Sell
    <3>3. CASE k = by
      <4>1. StillWaiting(k)' = StillWaiting(k) \cup {r} /\ r \notin StillWaiting(k)
        BY <2>2, <2>3, <3>1, <3>3 DEF By
      <4>2. Cardinality(StillWaiting(k)') = Cardinality(StillWaiting(k)) + 1
        BY <4>1, <1>a, OneMore
      <4>3. points'[k] = points[k] - 1
        BY <3>2, <3>3 DEF TypeOK
      <4> QED
        BY <4>2, <4>3, <1>a, <2>2
    <3>4. CASE k # by
      <4>1. StillWaiting(k)' = StillWaiting(k)
        BY <2>2, <2>3, <3>4 DEF By
      <4> QED
        BY <4>1, <1>a, <2>2, <3>2, <3>4 DEF TypeOK
    <3> QED
      BY <3>3, <3>4
  <2>5. CASE ~Sell(req[r].listing, by)
    <3>1. pc'[r] = "refused" /\ points' = points
      BY <1>2, <2>5 DEF Pay, Goto, TypeOK, chain
    <3>2. StillWaiting(k)' = StillWaiting(k)
      BY <2>2, <2>3, <3>1 DEF By
    <3> QED
      BY <1>1, <2>2, <3>1, <3>2
  <2> QED
    BY <2>4, <2>5
<1>3. ASSUME NEW r \in Requests, Record(r)
      PROVE  balance'[k] = points'[k] + Cardinality(StillWaiting(k)')
  <2> DEFINE by == req[r].by
  <2>1. by \in Customers
    BY <1>3 DEF Places, PlaceInv, Record, Bought, Buying
  <2>2. req' = req /\ points' = points /\ pc[r] = "record"
    BY <1>3 DEF Record, chain
  <2>3. \A q \in Requests \ {r} : pc'[q] = pc[q]
    BY <1>3, OneMoves DEF RequestStep
  <2>4. CASE pc'[r] = "count" /\ balance' = [balance EXCEPT ![by] = @ - 1]
    <3>1. CASE k = by
      <4>1. StillWaiting(k)' = StillWaiting(k) \ {r} /\ r \in StillWaiting(k)
        BY <2>2, <2>3, <2>4, <3>1 DEF By
      <4>2. Cardinality(StillWaiting(k)') = Cardinality(StillWaiting(k)) - 1
        BY <4>1, <1>a, OneLess
      <4>3. balance'[k] = balance[k] - 1
        BY <2>4, <3>1 DEF TypeOK
      <4> QED
        BY <4>2, <4>3, <1>a, <2>2
    <3>2. CASE k # by
      <4>1. StillWaiting(k)' = StillWaiting(k)
        BY <2>2, <2>3, <2>4, <3>2 DEF By
      <4> QED
        BY <4>1, <1>a, <2>2, <2>4, <3>2 DEF TypeOK
    <3> QED
      BY <3>1, <3>2
  <2>5. CASE pc'[r] = "unrecorded" /\ balance' = balance
    <3>1. StillWaiting(k)' = StillWaiting(k)
      BY <2>2, <2>3, <2>5 DEF By
    <3> QED
      BY <1>1, <2>2, <2>5, <3>1
  <2> QED
    BY <1>3, <2>4, <2>5 DEF Record, Goto, TypeOK
<1>4. ASSUME NEW r \in Requests,
             FindCode(r) \/ CheckBalance(r) \/ Count(r) \/ Close(r)
      PROVE  balance'[k] = points'[k] + Cardinality(StillWaiting(k)')
  <2>1. pc[r] \notin P /\ pc'[r] \notin P /\ UNCHANGED <<balance, points>>
    BY <1>4 DEF FindCode, CheckBalance, Count, Close, Goto, TypeOK, chain
  <2>2. StillWaiting(k)' = StillWaiting(k)
    BY <1>4, <2>1, OneMoves DEF By, RequestStep
  <2> QED
    BY <1>1, <2>1, <2>2
<1>5. ASSUME NEW r \in Requests,
             Activate(r) \/ FetchStock(r) \/ ListOnChain(r) \/ Persist(r)
               \/ Delist(r) \/ DelistOnChain(r) \/ ClearGroup(r)
      PROVE  balance'[k] = points'[k] + Cardinality(StillWaiting(k)')
  <2>1. pc[r] \notin P /\ pc'[r] \notin P /\ UNCHANGED <<balance, points>>
    BY <1>5, SellersDoNotBuy DEF Bought, Buying
  <2>2. StillWaiting(k)' = StillWaiting(k)
    BY <1>5, <2>1, OneMoves DEF By, RequestStep
  <2> QED
    BY <1>1, <2>1, <2>2
<1>6. CASE End \/ CronStep \/ \E c \in Codes : Transfer(c)
  BY <1>1, <1>6, OthersStay DEF By
<1>7. CASE UNCHANGED vars
  BY <1>1, <1>7 DEF vars, By
<1> QED
  BY <1>2, <1>3, <1>4, <1>5, <1>6, <1>7 DEF Next, RequestStep

-----------------------------------------------------------------------------
(* Batches.                                                                *)

Unsold == {"record", "unrecorded", "count", "uncounted"}

Within(l) ==
  batch[l].sold + Cardinality(At(l, Unsold)) + listing[l].left
    <= batch[l].total \/ batch[l] = NoBatch

\* With nothing new counted, a batch stays within its total when no more is
\* waiting and no more is on chain.
LEMMA WithinStays ==
  ASSUME TypeOK, SoldWithinTotal, NEW l \in Requests,
         At(l, Unsold)' = At(l, Unsold),
         batch'[l] = batch[l], listing'[l] = listing[l]
  PROVE  Within(l)'
  BY DEF SoldWithinTotal, Within, Unsold

\* A purchase keeps what was sold within the total.
LEMMA BuyTotals ==
  ASSUME TypeOK, Places, SoldWithinTotal, NEW r \in Requests,
         FindCode(r) \/ CheckBalance(r) \/ Pay(r) \/ Record(r) \/ Count(r)
           \/ Close(r),
         NEW l \in Requests
  PROVE  Within(l)'
<1> DEFINE mine == req[r].listing
<1>a. /\ IsFiniteSet(At(l, Unsold)) /\ Cardinality(At(l, Unsold)) \in Nat
      /\ batch[l].sold \in Nat /\ batch[l].total \in Nat
      /\ listing[l].left \in Nat
  BY FiniteTallies DEF TypeOK, Batches, OnChain
<1>b. batch[l].sold + Cardinality(At(l, Unsold)) + listing[l].left
        <= batch[l].total \/ batch[l] = NoBatch
  BY DEF SoldWithinTotal, Unsold
<1>c. \A q \in Requests \ {r} : pc'[q] = pc[q] /\ req'[q] = req[q]
  BY OneMoves DEF RequestStep
<1>d. pc[r] # "idle" =>
        req[r].by \in Customers /\ mine \in Requests /\ batch[mine] # NoBatch
  BY DEF Places, PlaceInv, FindCode, CheckBalance, Pay, Record, Count, Close,
     Bought, Buying
<1>1. CASE FindCode(r) \/ CheckBalance(r)
  <2>1. pc[r] \notin Unsold /\ pc'[r] \notin Unsold
    BY <1>1 DEF FindCode, CheckBalance, Goto, TypeOK, Unsold
  <2>2. At(l, Unsold)' = At(l, Unsold)
    BY <1>c, <2>1 DEF At
  <2> QED
    BY <1>1, <2>2, WithinStays DEF FindCode, CheckBalance, chain
<1>2. CASE Pay(r)
  <2>1. req' = req /\ batch' = batch /\ pc[r] = "pay"
    BY <1>2 DEF Pay
  <2>2. CASE Sell(mine, req[r].by)
    <3>1. pc'[r] \in Unsold
      BY <1>2, <1>d, <2>1, <2>2, SoldOnChain DEF Unsold
    <3>2. CASE l = mine
      <4>1. At(l, Unsold)' = At(l, Unsold) \cup {r} /\ r \notin At(l, Unsold)
        BY <1>c, <2>1, <3>1, <3>2 DEF At, Unsold
      <4>2. Cardinality(At(l, Unsold)') = Cardinality(At(l, Unsold)) + 1
        BY <4>1, <1>a, OneMore
      <4>3. listing'[l].left = listing[l].left - 1
        BY <2>2, <3>2 DEF Sell, TypeOK
      <4> QED
        BY <4>2, <4>3, <1>a, <1>b, <2>1 DEF Within
    <3>3. CASE l # mine
      <4>1. At(l, Unsold)' = At(l, Unsold)
        BY <1>c, <2>1, <3>3 DEF At
      <4>2. listing'[l] = listing[l]
        BY <2>2, <3>3 DEF Sell, TypeOK
      <4> QED
        BY <4>1, <4>2, <2>1, WithinStays
    <3> QED
      BY <3>2, <3>3
  <2>3. CASE ~Sell(mine, req[r].by)
    <3>1. pc'[r] = "refused" /\ listing' = listing
      BY <1>2, <2>3 DEF Pay, Goto, TypeOK, chain
    <3>2. At(l, Unsold)' = At(l, Unsold)
      BY <1>c, <2>1, <3>1 DEF At, Unsold
    <3> QED
      BY <2>1, <3>1, <3>2, WithinStays
  <2> QED
    BY <2>2, <2>3
<1>3. CASE Record(r)
  <2>1. pc[r] \in Unsold /\ pc'[r] \in Unsold /\ req' = req
    BY <1>3 DEF Record, Goto, TypeOK, Unsold
  <2>2. At(l, Unsold)' = At(l, Unsold)
    BY <1>c, <2>1 DEF At
  <2> QED
    BY <1>3, <2>2, WithinStays DEF Record, chain
<1>4. CASE Count(r)
  <2>1. req' = req /\ listing' = listing /\ pc[r] = "count" /\ mine \in Requests
    BY <1>4, <1>d DEF Count, chain
  <2>2. CASE batch' = [batch EXCEPT ![mine] = [batch[mine] EXCEPT !.sold = @ + 1]]
               /\ pc'[r] = "close"
    <3>1. CASE l = mine
      <4>1. At(l, Unsold)' = At(l, Unsold) \ {r} /\ r \in At(l, Unsold)
        BY <1>c, <2>1, <2>2, <3>1 DEF At, Unsold
      <4>2. Cardinality(At(l, Unsold)') = Cardinality(At(l, Unsold)) - 1
        BY <4>1, <1>a, OneLess
      <4>3. batch[l] \in Batches /\ batch[l] # NoBatch
        BY <1>d, <2>1, <3>1 DEF TypeOK
      <4>4. batch'[l] = [batch[l] EXCEPT !.sold = @ + 1]
        BY <2>2, <3>1 DEF TypeOK
      <4>5. batch'[l].sold = batch[l].sold + 1 /\ batch'[l].total = batch[l].total
        BY <4>3, <4>4 DEF Batches
      <4> QED
        BY <4>2, <4>3, <4>5, <1>a, <1>b, <2>1 DEF Within
    <3>2. CASE l # mine
      <4>1. At(l, Unsold)' = At(l, Unsold)
        BY <1>c, <2>1, <2>2, <3>2 DEF At
      <4> QED
        BY <4>1, <2>1, <2>2, <3>2, WithinStays DEF TypeOK
    <3> QED
      BY <3>1, <3>2
  <2>3. CASE batch' = batch /\ pc'[r] = "uncounted"
    <3>1. At(l, Unsold)' = At(l, Unsold)
      BY <1>c, <2>1, <2>3 DEF At, Unsold
    <3> QED
      BY <3>1, <2>1, <2>3, WithinStays
  <2> QED
    BY <1>4, <2>2, <2>3 DEF Count, Goto, TypeOK
<1>5. CASE Close(r)
  <2>1. pc[r] \notin Unsold /\ pc'[r] \notin Unsold /\ listing' = listing
    BY <1>5 DEF Close, Goto, TypeOK, Unsold, chain
  <2>2. At(l, Unsold)' = At(l, Unsold)
    BY <1>c, <2>1 DEF At
  <2>3. CASE batch'[l] = batch[l]
    BY <2>1, <2>2, <2>3, WithinStays
  <2>4. CASE batch'[l] # batch[l]
    <3>1. l = mine /\ batch[l] # NoBatch /\ batch[l] \in Batches
      BY <1>5, <1>d, <2>4 DEF Close, TypeOK
    <3>2. batch'[l] = [batch[l] EXCEPT !.soldOut = @ \/ SoldOut(batch[l])]
      BY <1>5, <2>4, <3>1 DEF Close, TypeOK
    <3>3. batch'[l].sold = batch[l].sold /\ batch'[l].total = batch[l].total
      BY <3>1, <3>2 DEF Batches
    <3> QED
      BY <3>1, <3>3, <1>b, <2>1, <2>2 DEF Within
  <2> QED
    BY <2>3, <2>4
<1> QED
  BY <1>1, <1>2, <1>3, <1>4, <1>5

\* So does a seller.
LEMMA SellTotals ==
  ASSUME TypeOK, Places, SoldWithinTotal, NEW r \in Requests,
         Activate(r) \/ FetchStock(r) \/ ListOnChain(r) \/ Persist(r)
           \/ Delist(r) \/ DelistOnChain(r) \/ ClearGroup(r),
         NEW l \in Requests
  PROVE  Within(l)'
<1>a. /\ Cardinality(At(l, Unsold)) \in Nat
      /\ batch[l].sold \in Nat /\ batch[l].total \in Nat
      /\ listing[l].left \in Nat
  BY FiniteTallies DEF TypeOK, Batches, OnChain
<1>b. batch[l].sold + Cardinality(At(l, Unsold)) + listing[l].left
        <= batch[l].total \/ batch[l] = NoBatch
  BY DEF SoldWithinTotal, Unsold
<1>c. At(l, Unsold)' = At(l, Unsold)
  <2>1. pc[r] \notin Unsold /\ pc'[r] \notin Unsold
    BY SellersDoNotBuy DEF Bought, Buying, Unsold
  <2>2. \A q \in Requests \ {r} : pc'[q] = pc[q] /\ req'[q] = req[q]
    BY OneMoves DEF RequestStep
  <2> QED
    BY <2>1, <2>2 DEF At
<1>1. CASE Activate(r) \/ FetchStock(r) \/ Delist(r) \/ ClearGroup(r)
  BY <1>1, <1>c, WithinStays DEF Activate, FetchStock, Delist, ClearGroup, chain
<1>2. CASE ListOnChain(r)
  <2>1. batch' = batch
    BY <1>2 DEF ListOnChain
  <2>2. CASE l = r
    <3>1. batch[r] = NoBatch
      BY <1>2 DEF Places, PlaceInv, ListOnChain, Activated
    <3> QED
      BY <2>1, <2>2, <3>1 DEF Within, NoBatch
  <2>3. CASE l # r
    <3>1. listing'[l] = listing[l]
      BY <1>2, <2>3 DEF ListOnChain, Escrow, TypeOK, chain
    <3> QED
      BY <1>c, <2>1, <3>1, WithinStays
  <2> QED
    BY <2>2, <2>3
<1>3. CASE Persist(r)
  <2>1. listing' = listing
    BY <1>3 DEF Persist, chain
  <2>2. CASE batch'[l] = batch[l]
    BY <1>c, <2>1, <2>2, WithinStays
  <2>3. CASE batch'[l] # batch[l]
    <3>1. l = r /\ batch'[l] = [NoBatch EXCEPT !.total = req[l].amount]
      BY <1>3, <2>3 DEF Persist, TypeOK
    <3>2. batch'[l].sold = 0 /\ batch'[l].total = req[l].amount
      BY <3>1 DEF NoBatch
    <3>3. listing[l].left <= req[l].amount /\ ~Activated(l)
      BY <1>3, <3>1 DEF Places, PlaceInv, Persist, Activated
    <3>4. At(l, Unsold) = {}
      BY <3>3 DEF At, Places, PlaceInv, Unsold, Bought, Buying
    <3>5. Cardinality(At(l, Unsold)') = 0
      BY <1>c, <3>4, FS_EmptySet
    <3>6. req[l].amount \in Nat
      BY DEF TypeOK, Reqs
    <3> QED
      BY <1>a, <2>1, <3>2, <3>3, <3>5, <3>6 DEF Within
  <2> QED
    BY <2>2, <2>3
<1>4. CASE DelistOnChain(r)
  <2>1. batch' = batch
    BY <1>4 DEF DelistOnChain
  <2>2. CASE listing'[l] = listing[l]
    BY <1>c, <2>1, <2>2, WithinStays
  <2>3. CASE listing'[l] # listing[l]
    <3>1. listing'[l].left = 0
      BY <1>4, <2>3 DEF DelistOnChain, Withdraw, TypeOK, chain
    <3> QED
      BY <1>a, <1>b, <1>c, <2>1, <3>1 DEF Within
  <2> QED
    BY <2>2, <2>3
<1> QED
  BY <1>1, <1>2, <1>3, <1>4

\* So do transfers and the cron.
LEMMA OtherTotals ==
  ASSUME TypeOK, SoldWithinTotal, End \/ CronStep \/ \E c \in Codes : Transfer(c),
         NEW l \in Requests
  PROVE  Within(l)'
<1>a. /\ Cardinality(At(l, Unsold)) \in Nat
      /\ batch[l].sold \in Nat /\ batch[l].total \in Nat
      /\ listing[l].left \in Nat
  BY FiniteTallies DEF TypeOK, Batches, OnChain
<1>b. batch[l].sold + Cardinality(At(l, Unsold)) + listing[l].left
        <= batch[l].total \/ batch[l] = NoBatch
  BY DEF SoldWithinTotal, Unsold
<1>c. At(l, Unsold)' = At(l, Unsold) /\ batch' = batch
  BY OthersStay DEF At
<1>1. CASE listing'[l] = listing[l]
  BY <1>1, <1>c, WithinStays
<1>2. CASE listing'[l] # listing[l]
  <2>1. PICK q \in Requests : Withdraw(q, sweep.signer[q])
    BY <1>2 DEF End, CronStep, StartSweep, Mark, SweepOnChain, SweepClear,
       Transfer, Reserve, Release, Deliver, chain
  <2>2. listing'[l].left = 0
    BY <1>2, <2>1 DEF Withdraw, TypeOK
  <2> QED
    BY <1>a, <1>b, <1>c, <2>2 DEF Within
<1> QED
  BY <1>1, <1>2

\* So does every step.
LEMMA TotalStep ==
  TypeOK /\ Places /\ SoldWithinTotal /\ [Next]_vars => SoldWithinTotal'
<1> SUFFICES ASSUME TypeOK, Places, SoldWithinTotal, [Next]_vars,
                    NEW l \in Requests
             PROVE  Within(l)'
  BY DEF SoldWithinTotal, Within, Unsold
<1>1. CASE UNCHANGED vars
  BY <1>1, WithinStays DEF vars, At
<1>2. ASSUME NEW r \in Requests,
             FindCode(r) \/ Activate(r) \/ Delist(r) \/ RequestStep(r)
      PROVE  Within(l)'
  BY <1>2, BuyTotals, SellTotals DEF RequestStep
<1> QED
  BY <1>1, <1>2, OtherTotals DEF Next

-----------------------------------------------------------------------------
(* Sold out.                                                               *)

Closed(l) ==
  /\ batch[l].soldOut => batch[l].sold = batch[l].total
  /\ batch[l] # NoBatch /\ batch[l].sold = batch[l].total =>
       batch[l].soldOut \/ At(l, {"close", "unclosed"}) # {}

\* A batch that is closed, or about to be, stays so.
LEMMA ClosedStays ==
  ASSUME SoldOutWhenFull, NEW l \in Requests, batch'[l] = batch[l],
         At(l, {"close", "unclosed"}) \subseteq At(l, {"close", "unclosed"})'
  PROVE  Closed(l)'
  BY DEF SoldOutWhenFull, Closed

\* Every step keeps full batches sold out.
LEMMA SoldOutStep ==
  TypeOK /\ Places /\ SoldWithinTotal /\ SoldOutWhenFull /\ [Next]_vars
    => SoldOutWhenFull'
<1> DEFINE P == {"close", "unclosed"}
<1> SUFFICES ASSUME TypeOK, Places, SoldWithinTotal, SoldOutWhenFull,
                    [Next]_vars, NEW l \in Requests
             PROVE  Closed(l)'
  BY DEF SoldOutWhenFull, Closed
<1>a. batch[l] \in Batches /\ batch[l].sold \in Nat /\ batch[l].total \in Nat
  BY DEF TypeOK, Batches
<1>b. Closed(l)
  BY DEF SoldOutWhenFull, Closed
<1>c. /\ batch[l].sold + Cardinality(At(l, Unsold)) + listing[l].left
           <= batch[l].total \/ batch[l] = NoBatch
      /\ IsFiniteSet(At(l, Unsold)) /\ Cardinality(At(l, Unsold)) \in Nat
      /\ listing[l].left \in Nat
  BY FiniteTallies DEF SoldWithinTotal, Unsold, TypeOK, OnChain
<1>1. CASE UNCHANGED vars
  BY <1>1, ClosedStays DEF vars, At
<1>2. CASE End \/ CronStep \/ \E c \in Codes : Transfer(c)
  BY <1>2, OthersStay, ClosedStays DEF At
<1>3. ASSUME NEW r \in Requests,
             FindCode(r) \/ Activate(r) \/ Delist(r) \/ RequestStep(r)
      PROVE  Closed(l)'
  <2>a. \A q \in Requests \ {r} : pc'[q] = pc[q] /\ req'[q] = req[q]
    BY <1>3, OneMoves
  <2>b. pc[r] \notin P => At(l, P) \subseteq At(l, P)'
    BY <2>a DEF At
  <2>1. CASE batch' = batch /\ ~Close(r)
    <3>1. pc[r] \notin P
      BY <1>3, <2>1 DEF RequestStep, FindCode, Activate, Delist, CheckBalance,
         Pay, Record, Count, FetchStock, ListOnChain, Persist, DelistOnChain,
         ClearGroup
    <3> QED
      BY <2>1, <2>b, <3>1, ClosedStays
  <2>2. CASE Close(r)
    <3>1. req' = req /\ req[r].listing \in Requests
      BY <2>2 DEF Close, Places, PlaceInv, Bought, Buying
    <3>2. CASE batch' = batch /\ pc'[r] = "unclosed"
      <4>1. At(l, P) \subseteq At(l, P)'
        BY <2>a, <3>1, <3>2 DEF At
      <4> QED
        BY <3>2, <4>1, ClosedStays
    <3>3. CASE l # req[r].listing
      <4>1. batch'[l] = batch[l]
        BY <2>2, <3>3 DEF Close, TypeOK
      <4>2. At(l, P) \subseteq At(l, P)'
        BY <2>a, <3>1, <3>3 DEF At
      <4> QED
        BY <4>1, <4>2, ClosedStays
    <3>4. CASE l = req[r].listing /\ pc'[r] = "bought"
      <4>1. batch[l] # NoBatch
        BY <2>2, <3>4 DEF Close, Places, PlaceInv, Bought, Buying
      <4>2. batch'[l] = [batch[l] EXCEPT !.soldOut = @ \/ SoldOut(batch[l])]
        BY <2>2, <3>4 DEF Close, Goto, TypeOK
      <4>3. /\ batch'[l].sold = batch[l].sold /\ batch'[l].total = batch[l].total
            /\ batch'[l].soldOut <=> (batch[l].soldOut \/ SoldOut(batch[l]))
        BY <1>a, <4>2 DEF Batches, SoldOut
      <4>4. batch[l].sold <= batch[l].total
        BY <1>a, <1>c, <4>1
      <4> QED
        BY <1>a, <1>b, <4>3, <4>4 DEF Closed, SoldOut
    <3> QED
      BY <2>2, <3>2, <3>3, <3>4 DEF Close, Goto, TypeOK
  <2>3. CASE Count(r) /\ batch' # batch
    <3>1. req' = req /\ req[r].listing \in Requests /\ pc[r] = "count"
      BY <2>3 DEF Count, Places, PlaceInv, Bought, Buying
    <3>2. CASE l # req[r].listing
      <4>1. batch'[l] = batch[l]
        BY <2>3, <3>2 DEF Count, TypeOK
      <4> QED
        BY <2>b, <3>1, <4>1, ClosedStays
    <3>3. CASE l = req[r].listing
      <4>1. batch[l] # NoBatch
        BY <2>3, <3>3 DEF Count, Places, PlaceInv, Bought, Buying
      <4>2. batch'[l] = [batch[l] EXCEPT !.sold = @ + 1] /\ pc'[r] = "close"
        BY <2>3, <3>3 DEF Count, Goto, TypeOK
      <4>3. batch'[l].soldOut = batch[l].soldOut
        BY <1>a, <4>2 DEF Batches
      <4>4. r \in At(l, Unsold) /\ r \in At(l, P)'
        BY <3>1, <3>3, <4>2 DEF At, Unsold
      <4>5. Cardinality(At(l, Unsold)) >= 1
        BY <1>c, <4>4, FS_EmptySet
      <4>6. batch[l].sold < batch[l].total
        BY <1>a, <1>c, <4>1, <4>5
      <4> QED
        BY <1>b, <1>a, <4>3, <4>4, <4>6 DEF Closed
    <3> QED
      BY <3>2, <3>3
  <2>4. CASE Persist(r) /\ batch' # batch
    <3>1. pc[r] = "persist" /\ req[r].amount \in Nat /\ req[r].amount >= 1
      BY <2>4 DEF Persist, Places, PlaceInv, TypeOK, Reqs
    <3>2. CASE l # r
      <4>1. batch'[l] = batch[l]
        BY <2>4, <3>2 DEF Persist, TypeOK
      <4> QED
        BY <2>b, <3>1, <4>1, ClosedStays
    <3>3. CASE l = r
      <4>1. batch'[l] = [NoBatch EXCEPT !.total = req[r].amount]
        BY <2>4, <3>3 DEF Persist, TypeOK
      <4> QED
        BY <3>1, <4>1 DEF Closed, NoBatch
    <3> QED
      BY <3>2, <3>3
  <2>5. Count(r) \/ Persist(r) \/ Close(r) \/ batch' = batch
    BY <1>3 DEF RequestStep, FindCode, Activate, Delist, CheckBalance, Pay,
       Record, FetchStock, ListOnChain, DelistOnChain, ClearGroup
  <2> QED
    BY <2>1, <2>2, <2>3, <2>4, <2>5
<1> QED
  BY <1>1, <1>2, <1>3 DEF Next

-----------------------------------------------------------------------------
(* The inductive invariant.                                                *)

\* The invariant holds at first.
LEMMA InitInvariant == Init => IInv
<1> SUFFICES ASSUME Init PROVE IInv
  OBVIOUS
<1>1. TypeOK
  BY InitTypes
<1>2. Places /\ GroupInv /\ SoldWithinTotal /\ SoldOutWhenFull
  BY NoneIsNobody DEF Init, Places, PlaceInv, GroupInv, SoldWithinTotal,
     SoldOutWhenFull, Activated, Bought, Buying, NoBatch, NoListing
<1>3. BalanceFollowsChain
  <2>1. \A k \in Customers : By(k, {"record", "unrecorded"}) = {}
    BY DEF Init, By
  <2> QED
    BY <2>1, FS_EmptySet, Bounds, SMTT(20) DEF Init, BalanceFollowsChain
<1> QED
  BY <1>1, <1>2, <1>3 DEF IInv, Places

\* And every step keeps it.
LEMMA StepInvariant == IInv /\ [Next]_vars => IInv'
<1> SUFFICES ASSUME IInv, [Next]_vars PROVE IInv'
  OBVIOUS
<1>1. /\ TypeOK /\ Places /\ GroupInv
      /\ BalanceFollowsChain /\ SoldWithinTotal /\ SoldOutWhenFull
  BY DEF IInv, Places
<1>2. TypeOK' /\ Places' /\ GroupInv'
  BY <1>1, TypeStep, PlaceStep
<1>3. BalanceFollowsChain' /\ SoldWithinTotal' /\ SoldOutWhenFull'
  BY <1>1, BalanceStep, TotalStep, SoldOutStep
<1> QED
  BY <1>2, <1>3 DEF IInv, Places

\* Whatever merchants, customers and the cron do at the same time, and
\* whichever calls fail or lose their answers, the invariant of the
\* marketplace holds.
THEOREM MarketplaceInductive == Spec => []IInv
  BY InitInvariant, StepInvariant, PTL DEF Spec

\* Every state the purchase, activation, withdrawal and expiry handlers reach
\* is well-typed: no wallet, no customer's points on chain and no escrow gets
\* below zero.
THEOREM MarketplaceTypes == Spec => []TypeOK
<1>1. IInv => TypeOK
  BY DEF IInv
<1> QED
  BY <1>1, MarketplaceInductive, PTL

\* The decrement of a customer's balance without a condition
\* (buyCouponFromMarketplace:474) keeps it at what the chain says plus the
\* purchases whose recording is outstanding, so it is never negative.
THEOREM BalancesFollowTheChain == Spec => []BalanceFollowsChain
<1>1. IInv => BalanceFollowsChain
  BY DEF IInv
<1> QED
  BY <1>1, MarketplaceInductive, PTL

\* No batch counts more sales than it listed (updateListingBatchStats).
THEOREM BatchesKeepTheirTotal == Spec => []SoldWithinTotal
<1>1. IInv => SoldWithinTotal
  BY DEF IInv
<1> QED
  BY <1>1, MarketplaceInductive, PTL

\* Concurrent purchases that increment and look afterwards mark exactly the
\* batches that are full.
THEOREM FullBatchesAreSoldOut == Spec => []SoldOutWhenFull
<1>1. IInv => SoldOutWhenFull
  BY DEF IInv
<1> QED
  BY <1>1, MarketplaceInductive, PTL

-----------------------------------------------------------------------------
(* Merchants who wait for an answer.                                       *)

\* Nobody has started at first.
LEMMA SerialInit == Init => OneAtATime /\ \A r \in Requests : HeldInv(r)
  BY DEF Init, OneAtATime, HeldInv, Reserved, Selling, Bought, Buying

\* A step of a request neither reserves a code nor gives one back.
LEMMA ReservedShrinks ==
  ASSUME TypeOK, Places, NEW r \in Requests,
         FindCode(r) \/ Activate(r) \/ Delist(r) \/ RequestStep(r)
  PROVE  Reserved' \subseteq Reserved
<1>1. claimed' = claimed
  BY DEF RequestStep, FindCode, Activate, Delist, CheckBalance, Pay, Record,
     Count, Close, FetchStock, ListOnChain, Persist, DelistOnChain, ClearGroup,
     codes
<1>2. CASE Record(r)
  <2>1. req[r].by \notin Merchants
    BY <1>2, TwoSides DEF Record, Places, PlaceInv, Bought, Buying
  <2> QED
    BY <1>1, <1>2, <2>1 DEF Record, Reserved, TypeOK
<1>3. CASE owner' = owner
  BY <1>1, <1>3 DEF Reserved
<1> QED
  BY <1>2, <1>3 DEF RequestStep, FindCode, Activate, Delist, CheckBalance, Pay,
     Count, Close, FetchStock, ListOnChain, Persist, DelistOnChain, ClearGroup,
     codes

\* Sellers of a voucher keep taking turns.
LEMMA OneAtATimeStep ==
  ASSUME SerialSellers, TypeOK, Places, OneAtATime, [Next]_vars
  PROVE  OneAtATime'
<1>1. CASE UNCHANGED vars
  BY <1>1 DEF vars, OneAtATime, Reserved
<1>2. ASSUME NEW r \in Requests, Activate(r) \/ Delist(r)
      PROVE  OneAtATime'
  <2>1. Reserved = {} /\ \A q \in Requests : pc[q] \notin Selling
    BY <1>2 DEF Activate, Delist, SellersIdle
  <2>2. Reserved' = {}
    BY <1>2, <2>1, ReservedShrinks
  <2>3. \A q \in Requests \ {r} : pc'[q] = pc[q]
    BY <1>2, OneMoves
  <2> QED
    BY <2>1, <2>2, <2>3 DEF OneAtATime
<1>3. ASSUME NEW r \in Requests,
             FindCode(r) \/ CheckBalance(r) \/ Pay(r) \/ Record(r) \/ Count(r)
               \/ Close(r)
      PROVE  OneAtATime'
  <2>1. Reserved' \subseteq Reserved /\ group' = group
    BY <1>3, ReservedShrinks DEF RequestStep, FindCode, CheckBalance, Pay,
       Record, Count, Close, codes
  <2>2. \A q \in Requests \ {r} : pc'[q] = pc[q]
    BY <1>3, OneMoves DEF RequestStep
  <2>3. pc'[r] \notin Selling
    BY <1>3 DEF FindCode, CheckBalance, Pay, Record, Count, Close, Goto, TypeOK,
       Selling
  <2> QED
    BY <2>1, <2>2, <2>3 DEF OneAtATime, TypeOK, Reserved
<1>4. ASSUME NEW r \in Requests,
             FetchStock(r) \/ ListOnChain(r) \/ Persist(r) \/ DelistOnChain(r)
               \/ ClearGroup(r)
      PROVE  OneAtATime'
  <2>1. pc[r] \in Selling
    BY <1>4 DEF FetchStock, ListOnChain, Persist, DelistOnChain, ClearGroup,
       Selling
  <2>2. Reserved' = {}
    BY <1>4, <2>1, ReservedShrinks DEF OneAtATime, RequestStep
  <2>3. \A q \in Requests \ {r} : pc'[q] = pc[q]
    BY <1>4, OneMoves DEF RequestStep
  <2> QED
    BY <2>1, <2>2, <2>3 DEF OneAtATime
<1>5. CASE End \/ CronStep
  <2>1. Reserved' = Reserved /\ pc' = pc
    BY <1>5, OthersStay DEF End, CronStep, StartSweep, Mark, SweepOnChain,
       SweepClear, Reserved, codes
  <2>2. \A c \in Codes : group'[c] \in {group[c], None}
    BY <1>5 DEF End, CronStep, StartSweep, Mark, SweepOnChain, SweepClear,
       Unlist, codes
  <2> QED
    BY <2>1, <2>2 DEF OneAtATime, Reserved, TypeOK
<1>6. ASSUME NEW c \in Codes, Transfer(c) PROVE OneAtATime'
  <2>1. pc' = pc
    BY <1>6, OthersStay
  <2>2. CASE Reserve(c)
    BY <2>1, <2>2 DEF Reserve, SellersIdle, OneAtATime, Reserved
  <2>3. CASE Release(c)
    BY <2>1, <2>3 DEF Release, OneAtATime, Reserved
  <2>4. ASSUME NEW k \in Customers, Deliver(c, k) PROVE OneAtATime'
    BY <2>1, <2>4, TwoSides DEF Deliver, OneAtATime, Reserved, TypeOK
  <2> QED
    BY <1>6, <2>2, <2>3, <2>4 DEF Transfer
<1> QED
  BY <1>1, <1>2, <1>3, <1>4, <1>5, <1>6 DEF Next, RequestStep

Helds == \A r \in Requests : HeldInv(r)

\* Purchases do not touch the stock: what they hold has been listed.
LEMMA StockStays ==
  ASSUME TypeOK, Places, Helds, NEW m \in Merchants, NEW r \in Requests,
         FindCode(r) \/ Activate(r) \/ Delist(r) \/ RequestStep(r), ~Persist(r)
  PROVE  Stock(m)' = Stock(m)
<1>1. priced' = priced
  BY DEF RequestStep, FindCode, Activate, Delist, CheckBalance, Pay, Record,
     Count, Close, FetchStock, ListOnChain, DelistOnChain, ClearGroup, codes
<1>2. CASE Record(r)
  <2>1. req[r].held \subseteq priced
    BY <1>2 DEF Record, Helds, HeldInv, Bought, Buying
  <2> QED
    BY <1>1, <1>2, <2>1 DEF Record, Stock
<1>3. CASE owner' = owner
  BY <1>1, <1>3 DEF Stock
<1> QED
  BY <1>2, <1>3 DEF RequestStep, FindCode, Activate, Delist, CheckBalance, Pay,
     Count, Close, FetchStock, ListOnChain, DelistOnChain, ClearGroup, codes

\* A code that was listed changes its listing only to none.
LEMMA PricedStay ==
  ASSUME TypeOK, Helds, [Next]_vars, NEW c \in priced
  PROVE  c \in priced' /\ group'[c] \in {group[c], None}
<1>1. ASSUME NEW r \in Requests, Persist(r)
      PROVE  c \in priced' /\ group'[c] \in {group[c], None}
  <2>1. c \notin req[r].held
    BY <1>1 DEF Persist, Helds, HeldInv, Stock
  <2> QED
    BY <1>1, <2>1 DEF Persist, TypeOK
<1>2. CASE priced' = priced /\ \A d \in Codes : group'[d] \in {group[d], None}
  BY <1>2 DEF TypeOK
<1> DEFINE Keeps == priced' = priced /\ \A d \in Codes : group'[d] \in {group[d], None}
<1>3. (\E r \in Requests : Persist(r)) \/ Keeps
  <2>1. ASSUME NEW r \in Requests,
               FindCode(r) \/ Activate(r) \/ Delist(r) \/ RequestStep(r), ~Persist(r)
        PROVE  Keeps
    BY <2>1 DEF RequestStep, FindCode, CheckBalance, Pay, Record, Count, Close,
       Activate, FetchStock, ListOnChain, Delist, DelistOnChain, ClearGroup,
       Unlist, TypeOK, codes
  <2>2. CASE End \/ CronStep
    BY <2>2 DEF End, CronStep, StartSweep, Mark, SweepOnChain, SweepClear,
       Unlist, TypeOK, codes
  <2>3. ASSUME NEW d \in Codes, Transfer(d) PROVE Keeps
    BY <2>3 DEF Transfer, Reserve, Release, Deliver, TypeOK, codes
  <2>4. CASE UNCHANGED vars
    BY <2>4 DEF vars, TypeOK
  <2> QED
    BY <2>1, <2>2, <2>3, <2>4 DEF Next
<1> QED
  BY <1>1, <1>2, <1>3

\* Only a new listing opens.
LEMMA ClosedForGood ==
  ASSUME TypeOK, [Next]_vars, NEW l \in Requests, ~listing[l].open,
         \A r \in Requests : ~ListOnChain(r)
  PROVE  ~listing'[l].open
<1>1. ASSUME NEW q, NEW k, Sell(q, k) PROVE ~listing'[l].open
  BY <1>1 DEF Sell, TypeOK
<1>2. ASSUME NEW q, NEW m, Withdraw(q, m) PROVE ~listing'[l].open
  BY <1>2 DEF Withdraw, TypeOK
<1>3. listing' = listing \/ (\E q, k : Sell(q, k)) \/ (\E q, m : Withdraw(q, m))
  BY DEF Next, vars, RequestStep, FindCode, CheckBalance, Pay, Record, Count,
     Close, Activate, FetchStock, Persist, Delist, DelistOnChain, ClearGroup,
     End, CronStep, StartSweep, Mark, SweepOnChain, SweepClear, Transfer,
     Reserve, Release, Deliver, chain
<1> QED
  BY <1>1, <1>2, <1>3

\* What a request holds stays as it was found while others move.
LEMMA HeldStays ==
  ASSUME SerialSellers, TypeOK, Places, OneAtATime, Helds, [Next]_vars,
         NEW q \in Requests, pc'[q] = pc[q], req'[q] = req[q],
         ~FetchStock(q), ~ListOnChain(q), ~Persist(q)
  PROVE  HeldInv(q)'
<1>a. HeldInv(q) /\ PlaceInv(q)
  BY DEF Helds, Places
<1>1. ASSUME pc[q] \in Selling, NEW m \in Merchants
      PROVE  Stock(m)' = Stock(m)
  <2>1. Reserved = {} /\ \A r \in Requests \ {q} : pc[r] \notin Selling
    BY <1>1 DEF OneAtATime
  <2>2. \A r \in Requests : ~Persist(r)
    BY <2>1 DEF Persist, Selling
  <2>3. ASSUME NEW c \in Codes, Transfer(c) PROVE Stock(m)' = Stock(m)
    BY <2>1, <2>3 DEF Transfer, Reserve, Release, Deliver, Stock
  <2>4. CASE End \/ CronStep
    BY <2>4 DEF End, CronStep, StartSweep, Mark, SweepOnChain, SweepClear,
       Stock, codes
  <2>5. CASE UNCHANGED vars
    BY <2>5 DEF vars, Stock
  <2> QED
    BY <2>2, <2>3, <2>4, <2>5, StockStays DEF Next
<1>2. (pc[q] = "fetch" => req[q].amount <= Cardinality(Stock(req[q].by)))'
  <2> SUFFICES ASSUME pc[q] = "fetch"
               PROVE  req[q].amount <= Cardinality(Stock(req[q].by)')
    OBVIOUS
  <2>1. Stock(req[q].by)' = Stock(req[q].by)
    BY <1>1, <1>a DEF PlaceInv, Selling, Stock
  <2> QED
    BY <2>1, <1>a DEF HeldInv
<1>3. (pc[q] \in {"list", "persist"} =>
         /\ req[q].held \subseteq Stock(req[q].by)
         /\ Cardinality(req[q].held) = req[q].amount)'
  <2> SUFFICES ASSUME pc[q] \in {"list", "persist"}
               PROVE  /\ req[q].held \subseteq Stock(req[q].by)'
                      /\ Cardinality(req[q].held) = req[q].amount
    OBVIOUS
  <2>1. Stock(req[q].by)' = Stock(req[q].by)
    BY <1>1, <1>a DEF PlaceInv, Selling, Stock
  <2> QED
    BY <2>1, <1>a DEF HeldInv
<1>4. (pc[q] = "clear" => ~listing[req[q].listing].open)'
  <2> SUFFICES ASSUME pc[q] = "clear" PROVE ~listing'[req[q].listing].open
    OBVIOUS
  <2>1. \A r \in Requests : ~ListOnChain(r)
    BY DEF OneAtATime, ListOnChain, Selling
  <2> QED
    BY <2>1, <1>a, ClosedForGood DEF HeldInv, PlaceInv
<1>5. (pc[q] \in Bought =>
         /\ req[q].held \subseteq priced
         /\ Cardinality(req[q].held) = 1
         /\ \A c \in req[q].held : group[c] \in {req[q].listing, None})'
  <2> SUFFICES ASSUME pc[q] \in Bought
               PROVE  /\ req[q].held \subseteq priced'
                      /\ Cardinality(req[q].held) = 1
                      /\ \A c \in req[q].held :
                           group'[c] \in {req[q].listing, None}
    OBVIOUS
  <2>1. /\ req[q].held \subseteq priced
        /\ Cardinality(req[q].held) = 1
        /\ \A c \in req[q].held : group[c] \in {req[q].listing, None}
    BY <1>a DEF HeldInv
  <2> QED
    BY <2>1, PricedStay
<1> QED
  BY <1>2, <1>3, <1>4, <1>5 DEF HeldInv

\* A buyer keeps its code.
LEMMA BuyerHolds ==
  ASSUME TypeOK, Places, Helds, [Next]_vars, NEW r \in Requests,
         FindCode(r) \/ CheckBalance(r) \/ Pay(r) \/ Record(r) \/ Count(r)
           \/ Close(r)
  PROVE  HeldInv(r)'
<1>1. pc'[r] \in Bought \cup {"refused"}
  BY DEF FindCode, CheckBalance, Pay, Record, Count, Close, Goto, TypeOK,
     Bought, Buying
<1>2. /\ req'[r].held \subseteq priced'
      /\ Cardinality(req'[r].held) = 1
      /\ \A c \in req'[r].held : group'[c] \in {req'[r].listing, None}
  <2>1. CASE FindCode(r)
    <3>1. PICK k \in Customers, l \in Requests, c \in Codes :
            c \in OnSale(l) /\ Begin(r, k, l, 1, {c})
      BY <2>1 DEF FindCode, OnSale, TypeOK
    <3>2. req'[r].held = {c} /\ req'[r].listing = l
      BY <3>1 DEF Begin, TypeOK
    <3>3. Cardinality({c}) = 1
      BY FS_Singleton
    <3> QED
      BY <2>1, <3>1, <3>2, <3>3 DEF FindCode, OnSale, codes
  <2>2. CASE ~FindCode(r)
    <3>1. pc[r] \in Bought /\ req' = req
      BY <2>2 DEF CheckBalance, Pay, Record, Count, Close, Bought, Buying
    <3>2. /\ req[r].held \subseteq priced
          /\ Cardinality(req[r].held) = 1
          /\ \A c \in req[r].held : group[c] \in {req[r].listing, None}
      BY <3>1 DEF Helds, HeldInv
    <3> QED
      BY <3>1, <3>2, PricedStay
  <2> QED
    BY <2>1, <2>2
<1> QED
  BY <1>1, <1>2 DEF HeldInv, Bought, Buying

\* A seller keeps its codes.
LEMMA SellerHolds ==
  ASSUME TypeOK, Places, Helds, NEW r \in Requests,
         Activate(r) \/ FetchStock(r) \/ ListOnChain(r) \/ Persist(r)
           \/ Delist(r) \/ DelistOnChain(r) \/ ClearGroup(r)
  PROVE  HeldInv(r)'
<1> USE DEF Goto, TypeOK, Bought, Buying
<1>1. CASE Activate(r)
  <2>1. PICK m \in Merchants, n \in Nat :
          n <= Cardinality(Stock(m)) /\ Begin(r, m, r, n, {})
    <3>1. PICK m \in Merchants : \E n \in 1 .. Cardinality(Stock(m)) :
                                   Begin(r, m, r, n, {})
      BY <1>1 DEF Activate
    <3>2. PICK n \in 1 .. Cardinality(Stock(m)) : Begin(r, m, r, n, {})
      BY <3>1
    <3>3. Cardinality(Stock(m)) \in Nat
      BY FS_Subset, FS_CardinalityType, FinitelyMany DEF Stock
    <3> QED
      BY <3>2, <3>3
  <2>2. Stock(m)' = Stock(m)
    BY <1>1, StockStays DEF Activate, Persist
  <2>3. req'[r].by = m /\ req'[r].amount = n /\ pc'[r] = "fetch"
    BY <1>1, <2>1 DEF Activate, Begin
  <2> QED
    BY <2>1, <2>2, <2>3 DEF HeldInv
<1>2. CASE FetchStock(r)
  <2>1. PICK m \in Merchants : m = req[r].by /\ req[r].amount \in Nat
    BY <1>2 DEF FetchStock, Places, PlaceInv, Reqs
  <2>2. PICK S \in SUBSET Stock(m) :
          /\ \/ Cardinality(S) = req[r].amount
             \/ S = Stock(m) /\ Cardinality(S) < req[r].amount
          /\ req' = [req EXCEPT ![r].held = S]
    BY <1>2, <2>1 DEF FetchStock
  <2>3. req[r].amount <= Cardinality(Stock(m)) /\ Cardinality(Stock(m)) \in Nat
    <3>1. req[r].amount <= Cardinality(Stock(m))
      BY <1>2, <2>1 DEF FetchStock, Helds, HeldInv
    <3> QED
      BY <3>1, FS_Subset, FS_CardinalityType, FinitelyMany DEF Stock
  <2>4. Cardinality(S) = req[r].amount
    BY <2>1, <2>2, <2>3
  <2>5. req'[r].held = S /\ req'[r].by = m /\ req'[r].amount = req[r].amount
    BY <2>1, <2>2 DEF Reqs
  <2>6. Stock(m)' = Stock(m) /\ pc'[r] = "list"
    BY <1>2, <2>1, StockStays DEF FetchStock, RequestStep, Persist
  <2> QED
    BY <2>2, <2>4, <2>5, <2>6 DEF HeldInv
<1>3. CASE ListOnChain(r)
  <2>1. req[r].by \in Merchants
    BY <1>3 DEF ListOnChain, Places, PlaceInv
  <2>2. Stock(req[r].by)' = Stock(req[r].by)
    BY <1>3, <2>1, StockStays DEF ListOnChain, RequestStep, Persist
  <2>3. /\ req[r].held \subseteq Stock(req[r].by)
        /\ Cardinality(req[r].held) = req[r].amount
    BY <1>3 DEF ListOnChain, Helds, HeldInv
  <2>4. pc'[r] \in {"persist", "stranded", "refused"} /\ req' = req
    BY <1>3 DEF ListOnChain
  <2> QED
    BY <2>2, <2>3, <2>4 DEF HeldInv
<1>4. CASE Persist(r) \/ Delist(r) \/ ClearGroup(r)
  BY <1>4 DEF Persist, Delist, ClearGroup, HeldInv
<1>5. CASE DelistOnChain(r)
  <2>1. pc'[r] \in {"delisted", "clear", "uncleared", "refused"} /\ req' = req
    BY <1>5 DEF DelistOnChain
  <2>2. pc'[r] = "clear" => ~listing'[req[r].listing].open
    BY <1>5 DEF DelistOnChain, Withdraw, Places, PlaceInv
  <2> QED
    BY <2>1, <2>2 DEF HeldInv
<1> QED
  BY <1>1, <1>2, <1>3, <1>4, <1>5

\* Every step keeps them.
LEMMA HeldStep ==
  ASSUME SerialSellers, TypeOK, Places, OneAtATime, Helds, [Next]_vars
  PROVE  Helds'
<1> SUFFICES ASSUME NEW q \in Requests PROVE HeldInv(q)'
  BY DEF Helds
<1>1. CASE UNCHANGED vars
  BY <1>1, HeldStays DEF vars, FetchStock, ListOnChain, Persist, Goto, TypeOK
<1>2. CASE End \/ CronStep \/ \E c \in Codes : Transfer(c)
  <2>1. pc' = pc /\ req' = req
    BY <1>2, OthersStay
  <2>2. ~FetchStock(q) /\ ~ListOnChain(q) /\ ~Persist(q)
    BY <2>1 DEF FetchStock, ListOnChain, Persist, Goto, TypeOK
  <2> QED
    BY <2>1, <2>2, HeldStays
<1>3. ASSUME NEW r \in Requests,
             FindCode(r) \/ Activate(r) \/ Delist(r) \/ RequestStep(r)
      PROVE  HeldInv(q)'
  <2>1. CASE q = r
    BY <1>3, <2>1, BuyerHolds, SellerHolds DEF RequestStep
  <2>2. CASE q # r
    <3>1. pc'[q] = pc[q] /\ req'[q] = req[q]
      BY <1>3, <2>2, OneMoves
    <3>2. ~FetchStock(q) /\ ~ListOnChain(q) /\ ~Persist(q)
      BY <3>1 DEF FetchStock, ListOnChain, Persist, Goto, TypeOK
    <3> QED
      BY <3>1, <3>2, HeldStays
  <2> QED
    BY <2>1, <2>2
<1> QED
  BY <1>1, <1>2, <1>3 DEF Next

\* Codes on sale can be counted.
LEMMA OnSaleTally ==
  ASSUME TypeOK, NEW l
  PROVE  IsFiniteSet(OnSale(l)) /\ Cardinality(OnSale(l)) \in Nat
<1>1. IsFiniteSet(OnSale(l))
  BY FS_Subset, FinitelyMany DEF OnSale, TypeOK
<1> QED
  BY <1>1, FS_CardinalityType

\* A listing stays backed while it is not sold from and no code leaves it.
LEMMA BackedStays ==
  ASSUME TypeOK, NEW l \in Requests, Backed(l), listing'[l] = listing[l],
         Activated(l)' => Activated(l),
         At(l, {"record"})' \subseteq At(l, {"record"}),
         OnSale(l)' = OnSale(l)
  PROVE  Backed(l)'
<1> DEFINE A == At(l, {"record"})
<1>1. IsFiniteSet(A) /\ Cardinality(A) \in Nat
  BY FiniteTallies
<1>2. Cardinality(A') <= Cardinality(A) /\ Cardinality(A') \in Nat
  BY <1>1, FS_Subset, FS_CardinalityType
<1>3. listing[l].left \in Nat
  BY DEF TypeOK, OnChain
<1>4. Cardinality(OnSale(l)) \in Nat
  BY OnSaleTally
<1> QED
  BY <1>1, <1>2, <1>3, <1>4 DEF Backed

\* Purchases: a sale takes a coupon and adds a purchase to record, which
\* takes one code of the listing, or of none that is open.
LEMMA BuyBacked ==
  ASSUME TypeOK, Places, Helds, [Next]_vars, NEW r \in Requests,
         FindCode(r) \/ CheckBalance(r) \/ Pay(r) \/ Record(r) \/ Count(r)
           \/ Close(r),
         NEW l \in Requests, Backed(l)
  PROVE  Backed(l)'
<1> DEFINE A == At(l, {"record"})  mine == req[r].listing
<1>a. /\ IsFiniteSet(A) /\ Cardinality(A) \in Nat
      /\ listing[l].left \in Nat
      /\ IsFiniteSet(OnSale(l)) /\ Cardinality(OnSale(l)) \in Nat
  BY FiniteTallies, OnSaleTally DEF TypeOK, OnChain
<1>b. \A q \in Requests \ {r} : pc'[q] = pc[q] /\ req'[q] = req[q]
  BY OneMoves DEF RequestStep
<1>c. pc[r] # "activated" /\ pc'[r] # "activated"
  BY DEF FindCode, CheckBalance, Pay, Record, Count, Close, Goto, TypeOK
<1>d. Activated(l)' => Activated(l)
  BY <1>b, <1>c DEF Activated
<1>1. CASE FindCode(r) \/ CheckBalance(r) \/ Count(r) \/ Close(r)
  <2>1. pc[r] # "record" /\ pc'[r] # "record"
    BY <1>1 DEF FindCode, CheckBalance, Count, Close, Goto, TypeOK
  <2>2. A' \subseteq A
    BY <1>b, <2>1 DEF At
  <2>3. listing' = listing /\ OnSale(l)' = OnSale(l)
    BY <1>1 DEF FindCode, CheckBalance, Count, Close, OnSale, codes, chain
  <2> QED
    BY <1>d, <2>2, <2>3, BackedStays
<1>2. CASE Pay(r)
  <2>1. req' = req /\ pc[r] = "pay" /\ OnSale(l)' = OnSale(l)
    BY <1>2 DEF Pay, OnSale, codes
  <2>2. CASE l = mine /\ Sell(l, req[r].by)
    <3>1. A' \subseteq A \cup {r} /\ r \notin A
      BY <1>b, <2>1 DEF At
    <3>2. Cardinality(A \cup {r}) = Cardinality(A) + 1 /\ IsFiniteSet(A \cup {r})
      BY <1>a, <3>1, FS_AddElement
    <3>3. Cardinality(A') <= Cardinality(A) + 1 /\ Cardinality(A') \in Nat
      BY <3>1, <3>2, FS_Subset, FS_CardinalityType
    <3>4. listing[l].open /\ listing'[l].left = listing[l].left - 1
      BY <2>2 DEF Sell, TypeOK
    <3>5. (listing[l].open /\ Activated(l))
            => listing[l].left + Cardinality(A) <= Cardinality(OnSale(l))
      BY DEF Backed
    <3> QED
      BY <1>a, <1>d, <2>1, <3>3, <3>4, <3>5 DEF Backed
  <2>3. CASE ~(l = mine /\ Sell(l, req[r].by))
    <3>1. listing'[l] = listing[l]
      BY <1>2, <2>3 DEF Pay, Sell, TypeOK, chain
    <3>2. pc'[r] = "record" => Sell(mine, req[r].by)
      BY <1>2 DEF Pay, Goto, TypeOK
    <3>3. A' \subseteq A
      BY <1>b, <2>1, <2>3, <3>2 DEF At
    <3> QED
      BY <1>d, <2>1, <3>1, <3>3, BackedStays
  <2> QED
    BY <2>2, <2>3
<1>3. CASE Record(r)
  <2>1. req' = req /\ pc[r] = "record" /\ listing' = listing
        /\ group' = group /\ priced' = priced
    BY <1>3 DEF Record, chain
  <2>2. A' \subseteq A
    BY <1>b, <1>3, <2>1 DEF At, Record, Goto, TypeOK
  <2>3. PICK c \in Codes : req[r].held = {c} /\ group[c] \in {mine, None}
    <3>1. /\ Cardinality(req[r].held) = 1 /\ req[r].held \subseteq Codes
          /\ \A c \in req[r].held : group[c] \in {mine, None}
      BY <2>1 DEF Helds, HeldInv, Bought, Buying, TypeOK, Reqs
    <3>2. IsFiniteSet(req[r].held)
      BY <3>1, FS_Subset, FinitelyMany
    <3>3. \E c : req[r].held = {c}
      BY <3>1, <3>2, FS_Singleton
    <3> QED
      BY <3>1, <3>3
  <2>4. OnSale(l) \ {c} \subseteq OnSale(l)'
    BY <1>3, <2>1, <2>3 DEF OnSale, Record, TypeOK
  <2>5. CASE l = mine
    <3>1. CASE owner' = owner
      BY <1>d, <2>1, <2>2, <3>1, BackedStays DEF OnSale
    <3>2. CASE owner' # owner
      <4>1. pc'[r] = "count"
        BY <1>3, <3>2 DEF Record, Goto, TypeOK
      <4>2. A' = A \ {r} /\ r \in A
        BY <1>b, <2>1, <2>5, <4>1 DEF At
      <4>3. Cardinality(A') = Cardinality(A) - 1
        BY <1>a, <4>2, OneLess
      <4>4. IsFiniteSet(OnSale(l)') /\ Cardinality(OnSale(l)') \in Nat
        <5>1. OnSale(l)' \subseteq Codes
          BY <2>1 DEF OnSale, TypeOK
        <5> QED
          BY <5>1, FS_Subset, FS_CardinalityType, FinitelyMany
      <4>5. Cardinality(OnSale(l)') >= Cardinality(OnSale(l)) - 1
        <5>1. CASE c \in OnSale(l)
          <6>1. Cardinality(OnSale(l) \ {c}) = Cardinality(OnSale(l)) - 1
            BY <1>a, <5>1, OneLess
          <6>2. Cardinality(OnSale(l) \ {c}) <= Cardinality(OnSale(l)')
            BY <2>4, <4>4, FS_Subset
          <6> QED
            BY <6>1, <6>2
        <5>2. CASE c \notin OnSale(l)
          <6>1. OnSale(l) \subseteq OnSale(l)'
            BY <2>4, <5>2
          <6>2. Cardinality(OnSale(l)) <= Cardinality(OnSale(l)')
            BY <6>1, <4>4, FS_Subset
          <6> QED
            BY <6>2, <1>a, <4>4
        <5> QED
          BY <5>1, <5>2
      <4>6. (listing[l].open /\ Activated(l))
              => listing[l].left + Cardinality(A) <= Cardinality(OnSale(l))
        BY DEF Backed
      <4> QED
        BY <1>a, <1>d, <2>1, <4>3, <4>4, <4>5, <4>6 DEF Backed
    <3> QED
      BY <3>1, <3>2
  <2>6. CASE l # mine
    <3>1. group[c] # l
      BY <2>3, <2>6, NoneIsNobody
    <3>2. OnSale(l)' = OnSale(l)
      BY <1>3, <2>1, <2>3, <3>1 DEF OnSale, Record, TypeOK
    <3> QED
      BY <1>d, <2>1, <2>2, <3>2, BackedStays
  <2> QED
    BY <2>5, <2>6
<1> QED
  BY <1>1, <1>2, <1>3

\* Sellers: a new listing is backed by what its request holds, a withdrawn
\* one is closed before its codes leave it.
LEMMA SellBacked ==
  ASSUME TypeOK, Places, Helds, NEW r \in Requests,
         Activate(r) \/ FetchStock(r) \/ ListOnChain(r) \/ Persist(r)
           \/ Delist(r) \/ DelistOnChain(r) \/ ClearGroup(r),
         NEW l \in Requests, Backed(l)
  PROVE  Backed(l)'
<1> DEFINE A == At(l, {"record"})
<1>a. \A q \in Requests \ {r} : pc'[q] = pc[q] /\ req'[q] = req[q]
  BY OneMoves DEF RequestStep
<1>b. A' \subseteq A
  <2>1. pc'[r] # "record"
    BY SellersDoNotBuy DEF Bought, Buying
  <2> QED
    BY <1>a, <2>1 DEF At
<1>1. CASE Activate(r) \/ FetchStock(r) \/ Delist(r)
  <2>1. listing' = listing /\ OnSale(l)' = OnSale(l)
    BY <1>1 DEF Activate, FetchStock, Delist, OnSale, codes, chain
  <2>2. Activated(l)' => Activated(l)
    BY <1>1, <1>a DEF Activated, Activate, FetchStock, Delist, Goto, TypeOK
  <2> QED
    BY <1>b, <2>1, <2>2, BackedStays
<1>2. CASE ListOnChain(r)
  <2>1. CASE l = r
    <3>1. pc'[l] # "activated"
      BY <1>2, <2>1 DEF ListOnChain, Goto, TypeOK
    <3> QED
      BY <3>1 DEF Backed, Activated
  <2>2. CASE l # r
    <3>1. listing'[l] = listing[l] /\ OnSale(l)' = OnSale(l)
      BY <1>2, <2>2 DEF ListOnChain, Escrow, OnSale, TypeOK, codes, chain
    <3>2. Activated(l)' => Activated(l)
      BY <1>a, <2>2 DEF Activated
    <3> QED
      BY <1>b, <3>1, <3>2, BackedStays
  <2> QED
    BY <2>1, <2>2
<1>3. CASE Persist(r)
  <2>1. listing' = listing /\ owner' = owner /\ req' = req
    BY <1>3 DEF Persist, chain
  <2>2. /\ req[r].held \subseteq Stock(req[r].by)
        /\ Cardinality(req[r].held) = req[r].amount
        /\ req[r].by \in Merchants /\ req[r].amount \in Nat
        /\ listing[r].left <= req[r].amount
        /\ ~Activated(r)
    BY <1>3 DEF Persist, Helds, HeldInv, Places, PlaceInv, TypeOK, Reqs, Activated
  <2>3. CASE l = r
    <3>1. CASE pc'[r] = "activated"
      <4>1. /\ group' = [c \in Codes |->
                            IF c \in req[r].held THEN r ELSE group[c]]
            /\ priced' = priced \cup req[r].held
        BY <1>3, <3>1 DEF Persist, Goto, TypeOK
      <4>2. req[r].held \subseteq OnSale(r)'
        BY <2>1, <2>2, <4>1 DEF OnSale, Stock
      <4>3. IsFiniteSet(OnSale(r)')
        <5>1. OnSale(r)' \subseteq Codes
          BY <4>1, <2>2 DEF OnSale, TypeOK, Stock
        <5> QED
          BY <5>1, FS_Subset, FinitelyMany
      <4>4. req[r].amount <= Cardinality(OnSale(r)')
        BY <2>2, <4>2, <4>3, FS_Subset
      <4>5. A = {}
        BY <2>2, <2>3 DEF At, Places, PlaceInv, Bought, Buying
      <4>6. Cardinality(A') = 0
        BY <1>b, <4>5, FS_EmptySet
      <4>7. Cardinality(OnSale(r)') \in Nat /\ listing[r].left \in Nat
        BY <4>3, FS_CardinalityType DEF TypeOK, OnChain
      <4> QED
        BY <2>1, <2>2, <2>3, <4>4, <4>6, <4>7 DEF Backed
    <3>2. CASE pc'[r] # "activated"
      BY <2>3, <3>2 DEF Backed, Activated
    <3> QED
      BY <3>1, <3>2
  <2>4. CASE l # r
    <3>1. OnSale(l)' = OnSale(l)
      BY <1>3, <2>1, <2>2, <2>4 DEF Persist, OnSale, Stock, TypeOK
    <3>2. Activated(l)' => Activated(l)
      BY <1>a, <2>4 DEF Activated
    <3> QED
      BY <1>b, <2>1, <3>1, <3>2, BackedStays
  <2> QED
    BY <2>3, <2>4
<1>4. CASE DelistOnChain(r)
  <2>1. OnSale(l)' = OnSale(l)
    BY <1>4 DEF DelistOnChain, OnSale, codes
  <2>2. Activated(l)' => Activated(l)
    BY <1>4, <1>a DEF Activated, DelistOnChain, Goto, TypeOK
  <2>3. CASE listing'[l] = listing[l]
    BY <1>b, <2>1, <2>2, <2>3, BackedStays
  <2>4. CASE listing'[l] # listing[l]
    <3>1. ~listing'[l].open
      BY <1>4, <2>4 DEF DelistOnChain, Withdraw, TypeOK, chain
    <3> QED
      BY <3>1 DEF Backed
  <2> QED
    BY <2>3, <2>4
<1>5. CASE ClearGroup(r)
  <2>1. /\ listing' = listing /\ owner' = owner /\ priced' = priced
        /\ ~listing[req[r].listing].open /\ req[r].listing \in Requests
    BY <1>5 DEF ClearGroup, chain, Helds, HeldInv, Places, PlaceInv
  <2>2. CASE l = req[r].listing
    BY <2>1, <2>2 DEF Backed
  <2>3. CASE l # req[r].listing
    <3>1. OnSale(l)' = OnSale(l)
      BY <1>5, <2>1, <2>3, NoneIsNobody DEF ClearGroup, Unlist, OnSale, TypeOK
    <3>2. Activated(l)' => Activated(l)
      BY <1>5, <1>a DEF Activated, ClearGroup, Goto, TypeOK
    <3> QED
      BY <1>b, <2>1, <3>1, <3>2, BackedStays
  <2> QED
    BY <2>2, <2>3
<1> QED
  BY <1>1, <1>2, <1>3, <1>4, <1>5

\* While the voucher is valid the cron has not come yet, and a direct
\* transfer takes no code that is listed.
LEMMA BackedStep ==
  ASSUME TypeOK, Places, OneAtATime, Helds, [Next]_vars,
         phase = "valid" => sweep.clearing = None,
         phase = "valid" => \A l \in Requests : Backed(l)
  PROVE  /\ phase' = "valid" => sweep'.clearing = None
         /\ phase' = "valid" => \A l \in Requests : Backed(l)'
<1> SUFFICES ASSUME phase' = "valid", NEW l \in Requests
             PROVE  sweep'.clearing = None /\ Backed(l)'
  <2>1. CASE Requests # {}
    BY <2>1
  <2>2. CASE Requests = {}
    BY <2>2 DEF Next, vars, End, CronStep, StartSweep, Mark, Transfer, Reserve,
       Release, Deliver, cron
  <2> QED
    BY <2>1, <2>2
<1>1. CASE UNCHANGED vars
  BY <1>1, BackedStays DEF vars, Activated, At, OnSale
<1>2. ASSUME NEW r \in Requests,
             FindCode(r) \/ Activate(r) \/ Delist(r) \/ RequestStep(r)
      PROVE  sweep'.clearing = None /\ Backed(l)'
  <2>1. phase' = phase /\ sweep' = sweep
    BY <1>2 DEF RequestStep, FindCode, CheckBalance, Pay, Record, Count, Close,
       Activate, FetchStock, ListOnChain, Persist, Delist, DelistOnChain,
       ClearGroup, cron
  <2> QED
    BY <1>2, <2>1, BuyBacked, SellBacked DEF RequestStep
<1>3. CASE End \/ CronStep
  <2>1. phase \notin {"ended", "sweeping"}
    BY <1>3 DEF End, CronStep, StartSweep, Mark, SweepOnChain, SweepClear
  <2>2. \A q \in Requests : ~SweepClear(q)
    BY <1>3, NoneIsNobody DEF SweepClear
  <2> QED
    BY <1>3, <2>1, <2>2 DEF End, CronStep, StartSweep, Mark, SweepOnChain
<1>4. ASSUME NEW c \in Codes, Transfer(c)
      PROVE  sweep'.clearing = None /\ Backed(l)'
  <2>1. pc' = pc /\ req' = req
    BY <1>4, OthersStay
  <2>2. phase' = phase /\ sweep' = sweep /\ listing' = listing
    BY <1>4 DEF Transfer, Reserve, Release, Deliver, cron, chain
  <2>3. OnSale(l)' = OnSale(l)
    <3>1. CASE Reserve(c) \/ Release(c)
      BY <3>1 DEF Reserve, Release, OnSale
    <3>2. ASSUME NEW k \in Customers, Deliver(c, k)
          PROVE  OnSale(l)' = OnSale(l)
      <4>1. group[c] = None
        BY <3>2 DEF Deliver, OneAtATime
      <4> QED
        BY <3>2, <4>1, NoneIsNobody DEF Deliver, OnSale, TypeOK
    <3> QED
      BY <1>4, <3>1, <3>2 DEF Transfer
  <2> QED
    BY <2>1, <2>2, <2>3, BackedStays DEF Activated, At
<1> QED
  BY <1>1, <1>2, <1>3, <1>4 DEF Next

\* The invariant of sellers that take turns holds at first.
LEMMA PoliteInit == Init => PoliteInv
<1> SUFFICES ASSUME Init PROVE PoliteInv
  OBVIOUS
<1>1. sweep.clearing = None /\ \A l \in Requests : Backed(l)
  BY DEF Init, NoSweep, Backed, NoListing
<1> QED
  BY <1>1, SerialInit DEF PoliteInv

\* And every step keeps it.
LEMMA PoliteStep == IInv /\ PoliteInv /\ [Next]_vars => PoliteInv'
<1> SUFFICES ASSUME IInv, PoliteInv, [Next]_vars, SerialSellers
             PROVE  PoliteInv'
  BY DEF PoliteInv
<1>1. TypeOK /\ Places /\ OneAtATime /\ Helds
  BY DEF IInv, PoliteInv, Places, Helds
<1>2. OneAtATime' /\ Helds'
  BY <1>1, OneAtATimeStep, HeldStep
<1>3. /\ phase' = "valid" => sweep'.clearing = None
      /\ phase' = "valid" => \A l \in Requests : Backed(l)'
  BY <1>1, BackedStep DEF PoliteInv
<1> QED
  BY <1>2, <1>3 DEF PoliteInv, Helds

\* The strengthening for merchants who wait for an answer: one request of a
\* merchant at a time, and a code behind every coupon in the escrow.
THEOREM MarketplacePolite == Spec => []PoliteInv
<1>1. IInv /\ IInv' /\ PoliteInv /\ [Next]_vars => PoliteInv'
  BY PoliteStep
<1> QED
  BY <1>1, PoliteInit, MarketplaceInductive, PTL DEF Spec

\* With merchants who wait for an answer, whatever two customers buy at the
\* same time, a coupon an open listing has left comes with a code that can
\* be bought.
THEOREM ListingsAreBacked == Spec => []EscrowHasCodes
<1>1. IInv /\ PoliteInv => EscrowHasCodes
  <2> SUFFICES ASSUME IInv, PoliteInv, SerialSellers, phase = "valid",
                      NEW l \in Requests, listing[l].open, batch[l] # NoBatch
               PROVE  listing[l].left <= Cardinality(OnSale(l))
    BY DEF EscrowHasCodes
  <2>1. TypeOK /\ Activated(l) /\ Backed(l)
    BY DEF IInv, PlaceInv, PoliteInv
  <2>2. Cardinality(At(l, {"record"})) \in Nat /\ listing[l].left \in Nat
        /\ Cardinality(OnSale(l)) \in Nat
    BY <2>1, FiniteTallies, OnSaleTally DEF TypeOK, OnChain
  <2> QED
    BY <2>1, <2>2 DEF Backed
<1> QED
  BY <1>1, MarketplaceInductive, MarketplacePolite, PTL

-----------------------------------------------------------------------------
(* What is shown of the marketplace: the inductive invariant.              *)

\* Requests in flight, by what they did on chain.
Sales(l)     == {w \in Writers : /\ writer[w].kind \in {"trade", "buy"}
                                 /\ writer[w].listing = l}
BuysOf(k)    == {w \in Writers : writer[w].kind = "buy" /\ writer[w].by = k}
RedeemsOf(k) == {w \in Writers : writer[w].kind = "redeem" /\ writer[w].by = k}
RedeemsDue   == {w \in Writers : writer[w].kind = "redeem"}
BuysDue      == {w \in Writers : writer[w].kind = "buy"}

Making == {"offer", "list"}

\* What a request in flight is about.
Sent(w) ==
  LET q == writer[w] IN
  /\ q.place = "idle" => q = Idle
  /\ q.place # "idle" => q.kind \in Kinds
  /\ q.kind \in {"buy", "redeem"} => q.by \in Buyers
  /\ q.kind = "redeem" => q.listing = Null
  /\ q.kind \in Kinds \ {"redeem"} => q.listing \in listed
  /\ q.kind \in {"buy", "delist", "list"} => q.listing \notin ThbListings
  /\ q.kind \in {"offer", "trade"} => q.listing \in ThbListings
  /\ q.kind = "list" => stock >= q.n

\* What was lost, or written of the code of another.
Spoilt == lost \cup shared

\* A listing before its codes are written, and one withdrawn.
Made(w) ==
  LET q == writer[w]  l == q.listing IN
  /\ q.kind \in Making =>
       /\ unsold[l] = 0 /\ sold[l] = 0
       /\ left[l] + Cardinality(Sales(l)) <= q.n
       /\ Spoilt = {} => left[l] + Cardinality(Sales(l)) = q.n
  /\ q.kind = "delist" => left[l] = 0

Alone(w, v) ==
  w # v => /\ ~(writer[w].kind = "list" /\ writer[v].kind = "list")
           /\ ~(/\ writer[w].kind \in Making \cup {"delist"}
                /\ writer[v].kind \in Making \cup {"delist"}
                /\ writer[w].listing = writer[v].listing)
           /\ ~(/\ writer[w].kind = "list" /\ writer[v].kind = "buy"
                /\ writer[w].listing = writer[v].listing)

Stocked(l) ==
  /\ Open(l) => l \in listed /\ closedFor[l] = 0
  /\ l \notin listed => unsold[l] = 0 /\ sold[l] = 0 /\ closedFor[l] = 0

\* A listing that was recorded, and of which no merchant took a code, has one
\* for each coupon in the escrow and for each one sold on the way.
Enough(l) ==
  HasCodes(l) =>
    \/ \E w \in Writers : writer[w].kind \in Making /\ writer[w].listing = l
    \/ unsold[l] >= left[l] + Cardinality(Sales(l))
    \/ left[l] = 0

\* If nothing was spoilt, it has no more.
Matched(l) ==
  \/ \E w \in Writers : /\ writer[w].kind \in Making \cup {"delist"}
                        /\ writer[w].listing = l
  \/ unsold[l] = left[l] + Cardinality(Sales(l))
  \/ unsold[l] = 0 /\ left[l] = 0

\* The coupons and codes of a customer, and those of all.
Even(k) == coins[k] + Cardinality(RedeemsOf(k)) = unused[k] + Cardinality(BuysOf(k))
Held    == Tally([k \in Buyers |-> coins[k]])
Owned   == Tally(unused)

\* Redemptions on chain without a used code or a request that will use one, and
\* coupons that customers have or have redeemed without a code.
Lag == redeemed - (used + Cardinality(RedeemsDue))
Gap == (redeemed + Held) - (used + Owned + Cardinality(BuysDue))

\* Each loss, and each code written twice, leaves a coupon without a code or
\* a redemption without a used one, and none makes up for another.
Books ==
  /\ Lag >= 0 /\ Gap >= 0
  /\ "redeem" \in Spoilt => Lag > 0 \/ "buy" \in Spoilt
  /\ "buy" \in Spoilt => Gap > 0
  /\ Spoilt \cap {"buy", "redeem"} = {} => Lag = 0 /\ \A k \in Buyers : Even(k)

MarketInv ==
  /\ \A w \in Writers : Sent(w) /\ Made(w)
  /\ \A w, v \in Writers : Alone(w, v)
  /\ \A l \in Listings : Stocked(l) /\ Enough(l)
  /\ Spoilt = {} => \A l \in Listings : Matched(l)
  /\ Books

\* What the cache shows was open no longer ago than the cache is old.
Aged ==
  cache # Null /\ ~cache.torn =>
    \A p \in ToSet(cache.data) : Open(p.id) \/ closedFor[p.id] <= cache.age

\* The open listings, and the structs getActiveListings gives.
Exactly(l) == [id |-> l, of |-> l, left |-> left[l]]
OnOffer    == {Exactly(l) : l \in {m \in Listings : Open(m)}}
InOrder    == [i \in DOMAIN order |-> [of |-> order[i], left |-> left[order[i]]]]

Wanted(q) == {l \in Asked(q) : Open(l)}

Lists(r) ==
  LET q == reader[r] IN
  /\ q.place \in {"fetch", "details", "counts"} => q.one = Null
  /\ q.place = "fetch" /\ (q.calm \/ ~q.torn) =>
       q.ids \in {Null, order} /\ q.structs \in {Null, InOrder}
  /\ q.calm /\ q.place = "details" => ToSet(q.view) = OnOffer
  /\ q.calm /\ q.place = "counts" =>
       /\ ToSet(q.view) = OnOffer
       /\ q.found \subseteq Wanted(q)
       /\ {l \in Wanted(q) : HasCodes(l)} \subseteq q.found
  /\ q.place = "row" => q.view[1] \in Pairs
  /\ q.calm /\ q.place = "row" =>
       q.one \in Listings /\ Open(q.one) /\ q.view = <<Exactly(q.one)>>
  /\ q.calm /\ q.place = "answered" => ExactAnswer(q)

Census == [listed  |-> Tally([l \in Listings |-> unsold[l] + sold[l]]),
           unowned |-> Tally([l \in ThbListings |-> unsold[l]]),
           unused  |-> unused]

Audits(r) ==
  LET q == reader[r] IN
  /\ q.calm /\ q.place \in {"statsRead", "codesRead", "heldRead"} =>
       q.redeemed = redeemed
  /\ q.calm /\ q.place \in {"codesRead", "heldRead"} =>
       q.used = used /\ q.codes = Census
  /\ q.calm /\ q.ok /\ q.place = "heldRead" => q.held = [k \in Buyers |-> coins[k]]
  /\ q.calm /\ q.ok /\ q.place = "audited" =>
       /\ q.alarms \cap {"customer", "redeemed"} # {} <=> Spoilt \cap {"buy", "redeem"} # {}
       /\ Spoilt = {} =>
            /\ "market" \in q.alarms <=> \E l \in Listings : sold[l] > 0
            /\ "merchant" \in q.alarms <=> \E l \in ThbListings : Open(l)

LookInv(r) == /\ reader[r].calm => Calm
              /\ Lists(r)
              /\ Audits(r)

ViewInv ==
  /\ ViewTypeOK
  /\ MarketInv
  /\ CacheCurrent /\ Aged
  /\ \A r \in Readers : LookInv(r)

-----------------------------------------------------------------------------
(* The contract's list, and sets of requests in flight.                    *)

\* What is in the contract's list of a set of listings.
LEMMA InTheList ==
  ASSUME NEW S, S \subseteq Listings, NEW s \in SetToSeqs(S)
  PROVE  /\ s \in Seq(Listings) /\ Len(s) \in Nat /\ DOMAIN s = 1 .. Len(s)
         /\ ToSet(s) = S
<1> DEFINE n == Cardinality(S)
<1>1. IsFiniteSet(S) /\ n \in Nat
  BY FewOfEach, FS_Subset, FS_CardinalityType
<1>2. s \in [1 .. n -> S] /\ \A i, j \in 1 .. n : i # j => s[i] # s[j]
  BY DEF SetToSeqs
<1>3. s \in Surjection(1 .. n, S)
  <2>1. Cardinality(1 .. n) = n
    BY <1>1, FS_Interval
  <2>2. s \in Injection(1 .. n, S)
    BY <1>2 DEF Injection, IsInjective
  <2> QED
    BY <1>1, <2>1, <2>2, FS_Injection
<1>4. ToSet(s) = S
  BY <1>2, <1>3 DEF Surjection, ToSet
<1>5. s \in Seq(Listings)
  BY <1>1, <1>2
<1> QED
  BY <1>1, <1>2, <1>4, <1>5

\* One request more in a set of them, and one less.
LEMMA OneJoins ==
  ASSUME NEW S \in SUBSET Writers, NEW w \in Writers, w \notin S
  PROVE  /\ Cardinality(S) \in Nat
         /\ Cardinality(S \cup {w}) = Cardinality(S) + 1
<1>1. IsFiniteSet(S)
  BY FewOfEach, FS_Subset
<1> QED
  BY <1>1, FS_AddElement, FS_CardinalityType

\* What a request that is sent adds to.
LEMMA SendCounts ==
  ASSUME writer \in [Writers -> Changers], NEW w \in Writers, writer[w] = Idle,
         NEW q \in Changers, q.kind \in Kinds, writer' = [writer EXCEPT ![w] = q]
  PROVE  /\ \A l \in Listings :
              /\ Cardinality(Sales(l)) \in Nat
              /\ q.kind \in {"trade", "buy"} /\ q.listing = l =>
                   Cardinality(Sales(l)') = Cardinality(Sales(l)) + 1
              /\ ~(q.kind \in {"trade", "buy"} /\ q.listing = l) => Sales(l)' = Sales(l)
         /\ \A k \in Buyers :
              /\ Cardinality(BuysOf(k)) \in Nat /\ Cardinality(RedeemsOf(k)) \in Nat
              /\ q.kind = "buy" /\ q.by = k =>
                   Cardinality(BuysOf(k)') = Cardinality(BuysOf(k)) + 1
              /\ ~(q.kind = "buy" /\ q.by = k) => BuysOf(k)' = BuysOf(k)
              /\ q.kind = "redeem" /\ q.by = k =>
                   Cardinality(RedeemsOf(k)') = Cardinality(RedeemsOf(k)) + 1
              /\ ~(q.kind = "redeem" /\ q.by = k) => RedeemsOf(k)' = RedeemsOf(k)
         /\ Cardinality(RedeemsDue) \in Nat
         /\ q.kind = "redeem" => Cardinality(RedeemsDue') = Cardinality(RedeemsDue) + 1
         /\ q.kind # "redeem" => RedeemsDue' = RedeemsDue
         /\ Cardinality(BuysDue) \in Nat
         /\ q.kind = "buy" => Cardinality(BuysDue') = Cardinality(BuysDue) + 1
         /\ q.kind # "buy" => BuysDue' = BuysDue
<1>1. writer'[w] = q /\ \A v \in Writers \ {w} : writer'[v] = writer[v]
  BY DEF Changers
<1>2. writer[w].kind = Null /\ Null \notin Kinds
  BY NullIsNoOne DEF Idle
<1>3. ASSUME NEW l \in Listings
      PROVE  /\ w \notin Sales(l) /\ Sales(l) \in SUBSET Writers
             /\ q.kind \in {"trade", "buy"} /\ q.listing = l => Sales(l)' = Sales(l) \cup {w}
             /\ ~(q.kind \in {"trade", "buy"} /\ q.listing = l) => Sales(l)' = Sales(l)
  BY <1>1, <1>2 DEF Sales, Kinds
<1>4. ASSUME NEW k \in Buyers
      PROVE  /\ w \notin BuysOf(k) /\ BuysOf(k) \in SUBSET Writers
             /\ w \notin RedeemsOf(k) /\ RedeemsOf(k) \in SUBSET Writers
             /\ q.kind = "buy" /\ q.by = k => BuysOf(k)' = BuysOf(k) \cup {w}
             /\ ~(q.kind = "buy" /\ q.by = k) => BuysOf(k)' = BuysOf(k)
             /\ q.kind = "redeem" /\ q.by = k => RedeemsOf(k)' = RedeemsOf(k) \cup {w}
             /\ ~(q.kind = "redeem" /\ q.by = k) => RedeemsOf(k)' = RedeemsOf(k)
  BY <1>1, <1>2 DEF BuysOf, RedeemsOf, Kinds
<1>5. /\ w \notin RedeemsDue /\ RedeemsDue \in SUBSET Writers
      /\ q.kind = "redeem" => RedeemsDue' = RedeemsDue \cup {w}
      /\ q.kind # "redeem" => RedeemsDue' = RedeemsDue
      /\ w \notin BuysDue /\ BuysDue \in SUBSET Writers
      /\ q.kind = "buy" => BuysDue' = BuysDue \cup {w}
      /\ q.kind # "buy" => BuysDue' = BuysDue
  BY <1>1, <1>2 DEF RedeemsDue, BuysDue, Kinds
<1> QED
  BY <1>3, <1>4, <1>5, OneJoins

\* What a request that ends is taken out of.
LEMMA EndCounts ==
  ASSUME writer \in [Writers -> Changers], NEW w \in Writers,
         NEW q, q = writer[w], writer' = [writer EXCEPT ![w] = Idle]
  PROVE  /\ \A l \in Listings :
              /\ Cardinality(Sales(l)') \in Nat
              /\ q.kind \in {"trade", "buy"} /\ q.listing = l =>
                   Cardinality(Sales(l)) = Cardinality(Sales(l)') + 1
              /\ ~(q.kind \in {"trade", "buy"} /\ q.listing = l) => Sales(l)' = Sales(l)
         /\ \A k \in Buyers :
              /\ Cardinality(BuysOf(k)') \in Nat /\ Cardinality(RedeemsOf(k)') \in Nat
              /\ q.kind = "buy" /\ q.by = k =>
                   Cardinality(BuysOf(k)) = Cardinality(BuysOf(k)') + 1
              /\ ~(q.kind = "buy" /\ q.by = k) => BuysOf(k)' = BuysOf(k)
              /\ q.kind = "redeem" /\ q.by = k =>
                   Cardinality(RedeemsOf(k)) = Cardinality(RedeemsOf(k)') + 1
              /\ ~(q.kind = "redeem" /\ q.by = k) => RedeemsOf(k)' = RedeemsOf(k)
         /\ Cardinality(RedeemsDue') \in Nat
         /\ q.kind = "redeem" => Cardinality(RedeemsDue) = Cardinality(RedeemsDue') + 1
         /\ q.kind # "redeem" => RedeemsDue' = RedeemsDue
         /\ Cardinality(BuysDue') \in Nat
         /\ q.kind = "buy" => Cardinality(BuysDue) = Cardinality(BuysDue') + 1
         /\ q.kind # "buy" => BuysDue' = BuysDue
<1>1. writer'[w] = Idle /\ \A v \in Writers \ {w} : writer'[v] = writer[v]
  BY DEF Changers
<1>2. Idle.kind = Null /\ Null \notin Kinds
  BY NullIsNoOne DEF Idle
<1>3. ASSUME NEW l \in Listings
      PROVE  /\ w \notin Sales(l)' /\ Sales(l)' \in SUBSET Writers
             /\ q.kind \in {"trade", "buy"} /\ q.listing = l => Sales(l) = Sales(l)' \cup {w}
             /\ ~(q.kind \in {"trade", "buy"} /\ q.listing = l) => Sales(l)' = Sales(l)
  BY <1>1, <1>2 DEF Sales, Kinds
<1>4. ASSUME NEW k \in Buyers
      PROVE  /\ w \notin BuysOf(k)' /\ BuysOf(k)' \in SUBSET Writers
             /\ w \notin RedeemsOf(k)' /\ RedeemsOf(k)' \in SUBSET Writers
             /\ q.kind = "buy" /\ q.by = k => BuysOf(k) = BuysOf(k)' \cup {w}
             /\ ~(q.kind = "buy" /\ q.by = k) => BuysOf(k)' = BuysOf(k)
             /\ q.kind = "redeem" /\ q.by = k => RedeemsOf(k) = RedeemsOf(k)' \cup {w}
             /\ ~(q.kind = "redeem" /\ q.by = k) => RedeemsOf(k)' = RedeemsOf(k)
  BY <1>1, <1>2 DEF BuysOf, RedeemsOf, Kinds
<1>5. /\ w \notin RedeemsDue' /\ RedeemsDue' \in SUBSET Writers
      /\ q.kind = "redeem" => RedeemsDue = RedeemsDue' \cup {w}
      /\ q.kind # "redeem" => RedeemsDue' = RedeemsDue
      /\ w \notin BuysDue' /\ BuysDue' \in SUBSET Writers
      /\ q.kind = "buy" => BuysDue = BuysDue' \cup {w}
      /\ q.kind # "buy" => BuysDue' = BuysDue
  BY <1>1, <1>2 DEF RedeemsDue, BuysDue, Kinds
<1> QED
  BY <1>3, <1>4, <1>5, OneJoins

-----------------------------------------------------------------------------
(* Readers.                                                                *)

\* A change disturbs all who look: what they have is of no single moment.
LEMMA DisturbedReaders ==
  ASSUME ViewTypeOK, \A r \in Readers : LookInv(r), Disturb
  PROVE  reader' \in [Readers -> Lookers] /\ \A r \in Readers : LookInv(r)'
<1>1. reader \in [Readers -> Lookers]
  BY DEF ViewTypeOK
<1>2. ASSUME NEW r \in Readers
      PROVE  /\ reader'[r] \in Lookers /\ ~reader'[r].calm
             /\ reader'[r].place = reader[r].place /\ reader'[r].one = reader[r].one
             /\ reader'[r].view = reader[r].view
             /\ reader[r].place = "fetch" => reader'[r].torn
  <2>1. reader[r] \in Lookers
    BY <1>1
  <2>2. reader'[r] = [reader[r] EXCEPT !.calm = FALSE,
                        !.torn = reader[r].torn \/ reader[r].place = "fetch"]
    BY DEF Disturb
  <2> DEFINE b == reader[r].torn \/ reader[r].place = "fetch"
  <2>3. b \in BOOLEAN
    OBVIOUS
  <2>4. reader'[r] = [[reader[r] EXCEPT !.calm = FALSE] EXCEPT !.torn = b]
    BY <2>1, <2>2 DEF Lookers
  <2> HIDE DEF b
  <2>5. [reader[r] EXCEPT !.calm = FALSE] \in Lookers
    BY <2>1 DEF Lookers
  <2>6. reader'[r] \in Lookers /\ reader'[r].torn = b
    BY <2>3, <2>4, <2>5 DEF Lookers
  <2>7. ~reader'[r].calm /\ reader'[r].place = reader[r].place
        /\ reader'[r].one = reader[r].one /\ reader'[r].view = reader[r].view
    BY <2>1, <2>4 DEF Lookers
  <2> QED
    BY <2>6, <2>7 DEF b
<1>3. reader' \in [Readers -> Lookers]
  BY <1>2 DEF Disturb
<1>4. ASSUME NEW r \in Readers PROVE LookInv(r)'
  <2>1. Lists(r)
    BY DEF LookInv
  <2>2. Lists(r)'
    BY <1>2, <2>1 DEF Lists
  <2>3. Audits(r)'
    BY <1>2 DEF Audits
  <2> QED
    BY <1>2, <2>2, <2>3 DEF LookInv
<1> QED
  BY <1>3, <1>4

\* The others see nothing of one that looks.
LEMMA OtherReaders ==
  ASSUME Reads, NEW s \in Readers, LookInv(s), reader'[s] = reader[s]
  PROVE  LookInv(s)'
<1> USE DEF Reads, onChain, rows
<1>1. Lists(s)'
  BY DEF LookInv, Lists, InOrder, OnOffer, Exactly, Wanted, Asked, Open,
     ExactAnswer, HasCodes
<1>2. Audits(s)'
  BY DEF LookInv, Audits, Census, Open, Spoilt
<1>3. reader'[s].calm => Calm'
  BY DEF LookInv, Calm
<1> QED
  BY <1>1, <1>2, <1>3 DEF LookInv

\* What is read does not change while it is read.
LEMMA SameMarket ==
  ASSUME Reads
  PROVE  /\ order' = order /\ left' = left /\ lost' = lost /\ redeemed' = redeemed
         /\ used' = used /\ unused' = unused /\ unsold' = unsold /\ sold' = sold
         /\ coins' = coins /\ shared' = shared /\ Spoilt' = Spoilt
         /\ Calm' = Calm /\ Census' = Census /\ OnOffer' = OnOffer
         /\ InOrder' = InOrder /\ \A q : Wanted(q)' = Wanted(q)
         /\ \A l : HasCodes(l)' <=> HasCodes(l)
         /\ \A q : ExactAnswer(q)' <=> ExactAnswer(q)
<1> USE DEF Reads, onChain, rows
<1>1. /\ order' = order /\ left' = left /\ lost' = lost /\ redeemed' = redeemed
      /\ used' = used /\ unused' = unused /\ unsold' = unsold /\ sold' = sold
      /\ coins' = coins /\ shared' = shared /\ Spoilt' = Spoilt
      /\ Calm' = Calm /\ Census' = Census /\ OnOffer' = OnOffer
      /\ InOrder' = InOrder /\ \A q : Wanted(q)' = Wanted(q)
  BY DEF Calm, Census, OnOffer, Exactly, InOrder, Wanted, Asked, Open, Spoilt
<1>2. \A l : HasCodes(l)' <=> HasCodes(l)
  BY DEF HasCodes
<1>3. \A q : ExactAnswer(q)' <=> ExactAnswer(q)
  BY DEF ExactAnswer, HasCodes, Asked, Open
<1> QED
  BY <1>1, <1>2, <1>3

\* A cache that missed nothing has the open listings when nobody is at work.
LEMMA CacheExact ==
  ASSUME ViewTypeOK, CacheCurrent, Calm, Fresh, cache.missed = {}, ~cache.torn
  PROVE  ToSet(cache.data) = OnOffer
<1>1. cache \in Caches /\ cache # Null
  BY DEF Fresh, ViewTypeOK
<1>2. \A w \in Writers : writer[w].place # "mined"
  BY DEF Calm, Idle
<1>3. \A l \in Listings :
        {p \in ToSet(cache.data) : p.id = l \/ p.of = l} =
          IF Open(l) THEN {Exactly(l)} ELSE {}
  BY <1>1, <1>2 DEF CacheCurrent, Exactly
<1>4. ASSUME NEW p \in ToSet(cache.data) PROVE p \in OnOffer
  <2>1. p \in Pairs
    BY <1>1 DEF Caches, ToSet
  <2>2. p.id \in Listings
    BY <2>1 DEF Pairs
  <2>3. Open(p.id) /\ p = Exactly(p.id)
    BY <1>3, <2>2
  <2> QED
    BY <2>2, <2>3 DEF OnOffer
<1>5. ASSUME NEW p \in OnOffer PROVE p \in ToSet(cache.data)
  <2>1. PICK l \in Listings : Open(l) /\ p = Exactly(l)
    BY DEF OnOffer
  <2> QED
    BY <1>3, <2>1
<1> QED
  BY <1>4, <1>5

\* A list starts from what is known to be current, or fetches.
LEMMA StartListLook ==
  ASSUME ViewTypeOK, CacheCurrent, NEW r \in Readers, NEW inPoints \in BOOLEAN,
         NEW thb \in BOOLEAN, StartList(r, inPoints, thb)
  PROVE  reader'[r] \in Lookers /\ LookInv(r)'
<1> DEFINE calm == Calm /\ (Fresh => cache.missed = {} /\ ~cache.torn)
<1>1. PICK q : q = [Waiting EXCEPT
               !.pointOnly = inPoints, !.sellerOnly = thb,
               !.place = IF Fresh THEN "details" ELSE "fetch",
               !.view  = IF Fresh THEN cache.data ELSE <<>>,
               !.calm  = calm]
  OBVIOUS
<1>2. reader'[r] = q
  BY <1>1 DEF StartList, Set, ViewTypeOK
<1>3. /\ q = [place |-> IF Fresh THEN "details" ELSE "fetch",
              pointOnly |-> inPoints, sellerOnly |-> thb,
              ids |-> Null, structs |-> Null,
              view |-> IF Fresh THEN cache.data ELSE <<>>, found |-> {},
              answer |-> {}, redeemed |-> 0, used |-> 0, codes |-> Null,
              held |-> Null, alarms |-> {}, one |-> Null, calm |-> calm,
              torn |-> FALSE, ok |-> TRUE]
  BY <1>1 DEF Waiting
<1>4. calm \in BOOLEAN
  BY DEF Calm, Fresh
<1> HIDE DEF calm
<1>5. (IF Fresh THEN cache.data ELSE <<>>) \in Seq(Pairs)
  <2>1. CASE Fresh
    <3>1. cache \in Caches
      BY <2>1 DEF Fresh, ViewTypeOK
    <3> QED
      BY <2>1, <3>1 DEF Caches
  <2>2. CASE ~Fresh
    BY <2>2
  <2> QED
    BY <2>1, <2>2
<1>6. q \in Lookers
  BY <1>3, <1>4, <1>5 DEF Lookers
<1>7. /\ q.place = (IF Fresh THEN "details" ELSE "fetch") /\ q.one = Null
      /\ q.view = (IF Fresh THEN cache.data ELSE <<>>) /\ q.calm = calm
      /\ q.ids = Null /\ q.structs = Null
  BY <1>3
<1>8. calm /\ Fresh => ToSet(cache.data) = OnOffer
  BY CacheExact DEF calm
<1>9. Reads
  BY DEF StartList
<1>10. Lists(r)'
  BY <1>2, <1>7, <1>8, <1>9, SameMarket DEF Lists
<1>11. Audits(r)'
  BY <1>2, <1>7 DEF Audits
<1>12. reader'[r].calm => Calm'
  <2>1. reader'[r].calm => calm
    BY <1>2, <1>7
  <2>2. calm => Calm
    BY DEF calm
  <2>3. Calm' = Calm
    BY <1>9, SameMarket
  <2> QED
    BY <2>1, <2>2, <2>3
<1> QED
  BY <1>2, <1>6, <1>10, <1>11, <1>12 DEF LookInv

\* A request that ends, or raises, has nothing.
LEMMA WaitingLook ==
  ASSUME ViewTypeOK, NEW r \in Readers, Set(r, Waiting)
  PROVE  reader'[r] \in Lookers /\ LookInv(r)'
<1>1. reader'[r] = Waiting
  BY DEF Set, ViewTypeOK
<1>2. Waiting.place = "idle" /\ ~Waiting.calm
  BY DEF Waiting
<1>3. Waiting \in Lookers
  BY DEF Waiting, Lookers
<1> QED
  BY <1>1, <1>2, <1>3 DEF LookInv, Lists, Audits

\* The ids arrive, the structs arrive.
LEMMA FetchLook ==
  ASSUME ViewTypeOK, NEW r \in Readers, LookInv(r), FetchIds(r) \/ FetchStructs(r)
  PROVE  reader'[r] \in Lookers /\ LookInv(r)'
<1>1. reader[r] \in Lookers /\ Reads
  BY DEF ViewTypeOK, FetchIds, FetchStructs
<1>2. CASE Set(r, Waiting)
  BY <1>2, WaitingLook
<1>3. order \in Seq(Listings) /\ InOrder \in Seq(Structs)
  <2>1. order \in Seq(Listings) /\ Len(order) \in Nat /\ DOMAIN order = 1 .. Len(order)
    BY InTheList DEF ViewTypeOK
  <2>2. \A i \in 1 .. Len(order) : order[i] \in Listings /\ left[order[i]] \in Nat
    BY <2>1 DEF ViewTypeOK
  <2> QED
    BY <2>1, <2>2 DEF InOrder, Structs
<1>4. ASSUME reader'[r] = [reader[r] EXCEPT !.ids = order] \/
             reader'[r] = [reader[r] EXCEPT !.structs = InOrder],
             reader[r].place = "fetch"
      PROVE  reader'[r] \in Lookers /\ LookInv(r)'
  <2>1. /\ reader'[r] \in Lookers /\ reader'[r].place = "fetch"
        /\ reader'[r].one = reader[r].one /\ reader'[r].calm = reader[r].calm
        /\ reader'[r].torn = reader[r].torn
        /\ reader'[r].ids \in {order, reader[r].ids}
        /\ reader'[r].structs \in {InOrder, reader[r].structs}
    <3>1. CASE reader'[r] = [reader[r] EXCEPT !.ids = order]
      BY <1>1, <1>3, <1>4, <3>1 DEF Lookers
    <3>2. CASE reader'[r] = [reader[r] EXCEPT !.structs = InOrder]
      BY <1>1, <1>3, <1>4, <3>2 DEF Lookers
    <3> QED
      BY <1>4, <3>1, <3>2
  <2>2. Lists(r)'
    BY <1>1, <1>4, <2>1, SameMarket DEF LookInv, Lists
  <2>3. Audits(r)'
    BY <2>1 DEF Audits
  <2> QED
    BY <1>1, <2>1, <2>2, <2>3, SameMarket DEF LookInv
<1>5. CASE Set(r, [reader[r] EXCEPT !.ids = order]) /\ reader[r].place = "fetch"
  BY <1>4, <1>5 DEF Set, ViewTypeOK
<1>6. CASE Set(r, [reader[r] EXCEPT !.structs = InOrder]) /\ reader[r].place = "fetch"
  BY <1>4, <1>6 DEF Set, ViewTypeOK
<1> QED
  BY <1>2, <1>5, <1>6 DEF FetchIds, FetchStructs, Fails, Stands, InOrder
\* Ids and structs are paired up by their places.
LEMMA PairTypes ==
  ASSUME NEW ids \in Seq(Listings), NEW structs \in Seq(Structs),
         Len(structs) >= Len(ids)
  PROVE  PairUp(ids, structs) \in Seq(Pairs)
<1>1. Len(ids) \in Nat /\ DOMAIN ids = 1 .. Len(ids)
  OBVIOUS
<1>2. Len(structs) \in Nat /\ DOMAIN structs = 1 .. Len(structs)
  OBVIOUS
<1>3. \A i \in 1 .. Len(ids) :
        /\ ids[i] \in Listings /\ structs[i] \in Structs
        /\ structs[i].of \in Listings /\ structs[i].left \in Nat
  <2> SUFFICES ASSUME NEW i \in 1 .. Len(ids)
               PROVE  /\ ids[i] \in Listings
                      /\ structs[i] \in Structs
                      /\ structs[i].of \in Listings /\ structs[i].left \in Nat
    OBVIOUS
  <2>1. i \in 1 .. Len(structs)
    BY <1>1, <1>2
  <2>2. structs[i] \in Structs
    BY <1>2, <2>1
  <2>3. ids[i] \in Listings
    BY <1>1
  <2> QED
    BY <2>2, <2>3 DEF Structs
<1>4. \A i \in 1 .. Len(ids) :
        [id |-> ids[i], of |-> structs[i].of, left |-> structs[i].left] \in Pairs
  BY <1>3 DEF Pairs
<1> QED
  BY <1>1, <1>4 DEF PairUp

\* If they are of one moment, the pairs are the open listings.
LEMMA PairedUp ==
  ASSUME ViewTypeOK
  PROVE  ToSet(PairUp(order, InOrder)) = OnOffer
<1>1. /\ DOMAIN order = 1 .. Len(order) /\ Len(order) \in Nat
      /\ ToSet(order) = {l \in Listings : Open(l)}
  BY InTheList DEF ViewTypeOK
<1>2. \A i \in DOMAIN order : InOrder[i].of = order[i] /\ InOrder[i].left = left[order[i]]
  BY DEF InOrder
<1>3. PairUp(order, InOrder) = [i \in DOMAIN order |-> Exactly(order[i])]
  BY <1>2 DEF PairUp, Exactly
<1>4. ToSet(PairUp(order, InOrder)) = {Exactly(order[i]) : i \in DOMAIN order}
  BY <1>3 DEF ToSet
<1>5. ASSUME NEW p \in OnOffer PROVE p \in {Exactly(order[i]) : i \in DOMAIN order}
  <2>1. PICK l \in Listings : Open(l) /\ p = Exactly(l)
    BY DEF OnOffer
  <2>2. l \in ToSet(order)
    BY <1>1, <2>1
  <2> QED
    BY <2>1, <2>2 DEF ToSet
<1>6. ASSUME NEW i \in DOMAIN order PROVE Exactly(order[i]) \in OnOffer
  <2>1. order[i] \in ToSet(order)
    BY DEF ToSet
  <2> QED
    BY <1>1, <2>1 DEF OnOffer
<1> QED
  BY <1>4, <1>5, <1>6

\* The pairs of what a request has fetched.
LEMMA StorePairs ==
  ASSUME ViewTypeOK, NEW r \in Readers, LookInv(r), Stands(r, "fetch"),
         NEW q, q = reader[r], q.ids # Null, q.structs # Null, Len(q.structs) >= Len(q.ids)
  PROVE  /\ PairUp(q.ids, q.structs) \in Seq(Pairs)
         /\ q.calm \/ ~q.torn => ToSet(PairUp(q.ids, q.structs)) = OnOffer
<1>1. q \in Lookers
  BY DEF ViewTypeOK
<1>2. q.ids \in Seq(Listings) /\ q.structs \in Seq(Structs)
  BY <1>1 DEF Lookers
<1>3. q.calm \/ ~q.torn => q.ids = order /\ q.structs = InOrder
  BY DEF LookInv, Lists, Stands
<1> QED
  BY <1>2, <1>3, PairTypes, PairedUp

\* The list is stored, and the request goes on with it.
LEMMA StoreLook ==
  ASSUME ViewTypeOK, NEW r \in Readers, LookInv(r), Store(r)
  PROVE  reader'[r] \in Lookers /\ LookInv(r)'
<1>1. reader[r] \in Lookers /\ Reads
  BY DEF ViewTypeOK, Store
<1>2. CASE Set(r, Waiting)
  BY <1>2, WaitingLook
<1>3. PICK q : q = reader[r]
  OBVIOUS
<1>4. CASE Len(q.structs) >= Len(q.ids) /\ ~Set(r, Waiting)
  <2>1. PICK v : v = PairUp(q.ids, q.structs)
    OBVIOUS
  <2>2. v \in Seq(Pairs) /\ (q.calm => ToSet(v) = OnOffer)
    BY <1>3, <1>4, <2>1, StorePairs DEF Store
  <2>3. reader'[r] = [q EXCEPT !.place = "details", !.view = v, !.ids = Null,
                               !.structs = Null, !.torn = FALSE]
    BY <1>3, <1>4, <2>1 DEF Store, Set, ViewTypeOK
  <2>4. /\ reader'[r] \in Lookers /\ reader'[r].place = "details"
        /\ reader'[r].one = q.one /\ reader'[r].calm = q.calm /\ reader'[r].view = v
    <3>1. PICK t : t = [q EXCEPT !.place = "details", !.view = v]
      OBVIOUS
    <3>2. /\ t \in Lookers /\ t.place = "details" /\ t.one = q.one
          /\ t.calm = q.calm /\ t.view = v
      BY <1>1, <1>3, <2>2, <3>1 DEF Lookers
    <3>3. reader'[r] = [t EXCEPT !.ids = Null, !.structs = Null, !.torn = FALSE]
      BY <2>3, <3>1
    <3> QED
      BY <3>2, <3>3 DEF Lookers
  <2>5. Lists(r)'
    BY <1>1, <1>3, <2>2, <2>4, SameMarket DEF LookInv, Lists, Store, Stands
  <2>6. Audits(r)'
    BY <2>4 DEF Audits
  <2> QED
    BY <1>1, <1>3, <2>4, <2>5, <2>6, SameMarket DEF LookInv
<1> QED
  BY <1>2, <1>3, <1>4 DEF Store

\* What is stored is current unless something happened while it was fetched.
LEMMA StoreCache ==
  ASSUME ViewTypeOK, CacheCurrent, Aged, NEW r \in Readers, LookInv(r), Store(r)
  PROVE  (cache' = Null \/ cache' \in Caches) /\ CacheCurrent' /\ Aged'
<1>1. Reads
  BY DEF Store
<1>2. CASE UNCHANGED cache
  <2>1. CacheCurrent'
    BY <1>1, <1>2 DEF CacheCurrent, Reads, onChain, rows, Open
  <2>2. Aged'
    BY <1>1, <1>2 DEF Aged, Reads, onChain, rows, Open
  <2> QED
    BY <1>2, <2>1, <2>2 DEF ViewTypeOK
<1>3. PICK q : q = reader[r]
  OBVIOUS
<1>4. q \in Lookers
  BY <1>3 DEF ViewTypeOK
<1>5. CASE ~UNCHANGED cache
  <2>1. PICK v : v = PairUp(q.ids, q.structs)
    OBVIOUS
  <2>2. v \in Seq(Pairs) /\ (~q.torn => ToSet(v) = OnOffer)
    BY <1>3, <1>5, <2>1, StorePairs DEF Store
  <2>3. cache' = [data |-> v, age |-> 0, missed |-> {}, torn |-> q.torn]
    BY <1>3, <1>5, <2>1 DEF Store
  <2>4. cache' \in Caches
    <3>1. 0 \in 0 .. TTL /\ q.torn \in BOOLEAN
      BY <1>4, ViewBounds DEF Lookers
    <3> QED
      BY <2>2, <2>3, <3>1 DEF Caches
  <2>5. cache'.data = v /\ cache'.torn = q.torn
    BY <2>3
  <2>6. OnOffer' = OnOffer /\ left' = left
    BY <1>1, SameMarket
  <2>7. ASSUME ~q.torn, NEW l \in Listings
        PROVE  {p \in ToSet(v) : p.id = l \/ p.of = l} =
                 IF Open(l) THEN {Exactly(l)} ELSE {}
    BY <2>2, <2>7 DEF OnOffer, Exactly
  <2>8. CacheCurrent'
    BY <2>5, <2>6, <2>7 DEF CacheCurrent, Exactly, Open
  <2>9. Aged'
    BY <2>2, <2>5, <2>6 DEF Aged, OnOffer, Exactly, Open
  <2> QED
    BY <2>4, <2>8, <2>9
<1> QED
  BY <1>2, <1>5
\* While nobody is at work, nothing is in flight.
LEMMA NothingInFlight ==
  ASSUME Calm
  PROVE  /\ \A w \in Writers : writer[w].kind \notin Kinds
         /\ RedeemsDue = {} /\ Cardinality(RedeemsDue) = 0
         /\ BuysDue = {} /\ Cardinality(BuysDue) = 0
         /\ \A l : Sales(l) = {} /\ Cardinality(Sales(l)) = 0
         /\ \A k : /\ BuysOf(k) = {} /\ Cardinality(BuysOf(k)) = 0
                   /\ RedeemsOf(k) = {} /\ Cardinality(RedeemsOf(k)) = 0
<1>1. \A w \in Writers : writer[w].kind = Null
  BY DEF Calm, Idle
<1>2. \A w \in Writers : writer[w].kind \notin Kinds
  BY <1>1, NullIsNoOne
<1>3. Cardinality({}) = 0
  BY FS_EmptySet
<1>4. /\ \A w \in Writers : writer[w].kind \notin {"buy", "trade", "redeem"}
  BY <1>2 DEF Kinds
<1>5. RedeemsDue = {} /\ BuysDue = {}
  BY <1>4 DEF RedeemsDue, BuysDue
<1>6. \A l : Sales(l) = {}
  BY <1>4 DEF Sales
<1>7. \A k : BuysOf(k) = {} /\ RedeemsOf(k) = {}
  BY <1>4 DEF BuysOf, RedeemsOf
<1> QED
  BY <1>2, <1>3, <1>5, <1>6, <1>7

\* Then, if nothing was lost, a listing has a code for each coupon.
LEMMA CodesMatch ==
  ASSUME ViewTypeOK, MarketInv, Calm, Spoilt = {}
  PROVE  \A l \in Listings : unsold[l] = left[l]
<1> SUFFICES ASSUME NEW l \in Listings PROVE unsold[l] = left[l]
  OBVIOUS
<1>1. Matched(l)
  BY DEF MarketInv
<1>2. \A w \in Writers : writer[w].kind \notin Making \cup {"delist"}
  BY NothingInFlight DEF Making, Kinds
<1>3. Cardinality(Sales(l)) = 0
  BY NothingInFlight
<1>4. left[l] \in Nat /\ unsold[l] \in Nat
  BY DEF ViewTypeOK
<1> QED
  BY <1>1, <1>2, <1>3, <1>4 DEF Matched

\* One that was recorded, and of which no merchant took a code, has enough.
LEMMA CodesSuffice ==
  ASSUME ViewTypeOK, MarketInv, Calm
  PROVE  \A l \in Listings : HasCodes(l) => unsold[l] >= left[l]
<1> SUFFICES ASSUME NEW l \in Listings, HasCodes(l) PROVE unsold[l] >= left[l]
  OBVIOUS
<1>1. Enough(l)
  BY DEF MarketInv
<1>2. \A w \in Writers : writer[w].kind \notin Making
  BY NothingInFlight DEF Making, Kinds
<1>3. Cardinality(Sales(l)) = 0
  BY NothingInFlight
<1>4. left[l] \in Nat /\ unsold[l] \in Nat
  BY DEF ViewTypeOK
<1> QED
  BY <1>1, <1>2, <1>3, <1>4 DEF Enough

\* The codes of what is offered are found.
LEMMA DetailsLook ==
  ASSUME ViewTypeOK, MarketInv, NEW r \in Readers, LookInv(r), Details(r)
  PROVE  reader'[r] \in Lookers /\ LookInv(r)'
<1>1. reader[r] \in Lookers /\ Reads
  BY DEF ViewTypeOK, Details
<1>2. PICK q : q = reader[r]
  OBVIOUS
<1> DEFINE F == {p.id : p \in {o \in Offered(q) : Detail(o.id, q.pointOnly)}}
<1>3. q.view \in Seq(Pairs) /\ F \subseteq Listings
  <2>1. q.view \in Seq(Pairs)
    BY <1>1, <1>2 DEF Lookers
  <2>2. \A p \in ToSet(q.view) : p \in Pairs
    BY <2>1 DEF ToSet
  <2>3. \A p \in Pairs : p.id \in Listings
    BY DEF Pairs
  <2> QED
    BY <2>2, <2>3, <2>1 DEF Offered
<1>4. PICK f : f = F
  OBVIOUS
<1>5. PICK t : t = [q EXCEPT !.place = "counts", !.found = f]
  OBVIOUS
<1>6. /\ t.place = "counts" /\ t.one = q.one /\ t.calm = q.calm
      /\ t.view = q.view /\ t.found = f
      /\ t.pointOnly = q.pointOnly /\ t.sellerOnly = q.sellerOnly
  BY <1>1, <1>2, <1>5 DEF Lookers
<1>11. t \in Lookers /\ reader'[r] = t
  <2>1. t \in Lookers
    BY <1>1, <1>2, <1>3, <1>4, <1>5 DEF Lookers
  <2> QED
    BY <2>1, <1>2, <1>4, <1>5 DEF Details, Set, ViewTypeOK
<1>7. ASSUME q.calm
      PROVE  f \subseteq Wanted(q) /\ {l \in Wanted(q) : HasCodes(l)} \subseteq f
  <2>1. ToSet(q.view) = OnOffer
    BY <1>2, <1>7 DEF LookInv, Lists, Details, Stands
  <2>2. \A l \in Listings : HasCodes(l) => unsold[l] >= left[l]
    BY <1>2, <1>7, CodesSuffice DEF LookInv
  <2>3. \A l \in Listings : left[l] \in Nat /\ unsold[l] \in Nat
    BY DEF ViewTypeOK
  <2>4. ASSUME NEW l \in f PROVE l \in Wanted(q)
    <3>1. PICK p \in OnOffer : /\ q.sellerOnly => p.of \in ThbListings
                               /\ Detail(p.id, q.pointOnly) /\ l = p.id
      BY <1>4, <2>1 DEF Offered
    <3>2. PICK m \in Listings : Open(m) /\ p = Exactly(m)
      BY DEF OnOffer
    <3>3. p.id = m /\ p.of = m
      BY <3>2 DEF Exactly
    <3> QED
      BY <3>1, <3>2, <3>3 DEF Wanted, Asked, Detail
  <2>5. ASSUME NEW l \in Wanted(q), HasCodes(l) PROVE l \in f
    <3>1. l \in Listings /\ Open(l) /\ Exactly(l) \in OnOffer
      BY DEF Wanted, Asked, OnOffer
    <3>2. Exactly(l).id = l /\ Exactly(l).of = l
      BY DEF Exactly
    <3>3. unsold[l] > 0
      BY <2>2, <2>3, <2>5, <3>1 DEF Open
    <3>4. Exactly(l) \in Offered(q) /\ Detail(l, q.pointOnly)
      BY <2>1, <3>1, <3>2, <3>3 DEF Offered, Wanted, Asked, Detail
    <3> QED
      BY <1>4, <3>2, <3>4
  <2> QED
    BY <2>4, <2>5
<1>8. Wanted(t)' = Wanted(q) /\ \A l : HasCodes(l)' <=> HasCodes(l)
  <2>1. Wanted(t) = Wanted(q)
    BY <1>6 DEF Wanted, Asked
  <2> QED
    BY <1>1, <2>1, SameMarket
<1>9. Lists(r)'
  <2>1. q.calm => ToSet(q.view) = OnOffer
    BY <1>2 DEF LookInv, Lists, Details, Stands
  <2>2. q.one = Null
    BY <1>2 DEF LookInv, Lists, Details, Stands
  <2>3. q.calm => /\ t.found \subseteq Wanted(t)'
                  /\ {l \in Wanted(t)' : HasCodes(l)'} \subseteq t.found
    BY <1>6, <1>7, <1>8
  <2>4. OnOffer' = OnOffer
    BY <1>1, SameMarket
  <2> QED
    BY <1>6, <1>11, <2>1, <2>2, <2>3, <2>4 DEF Lists
<1>10. Audits(r)'
  BY <1>6, <1>11 DEF Audits
<1> QED
  BY <1>1, <1>2, <1>6, <1>9, <1>10, <1>11, SameMarket DEF LookInv

\* What is left of each is counted.
LEMMA CountsLook ==
  ASSUME ViewTypeOK, MarketInv, NEW r \in Readers, LookInv(r), Counts(r)
  PROVE  reader'[r] \in Lookers /\ LookInv(r)'
<1>1. reader[r] \in Lookers /\ Reads
  BY DEF ViewTypeOK, Counts
<1>2. PICK q : q = reader[r]
  OBVIOUS
<1>3. PICK a : a = Shown(q)
  OBVIOUS
<1>4. a \in SUBSET Pairs
  <2>1. q.view \in Seq(Pairs)
    BY <1>1, <1>2 DEF Lookers
  <2>2. \A p \in ToSet(q.view) : p \in Pairs
    BY <2>1 DEF ToSet
  <2>3. ASSUME NEW p \in Pairs PROVE Entry(p) \in Pairs
    <3>1. p.id \in Listings /\ p.of \in Listings /\ p.left \in Nat
      BY DEF Pairs
    <3>2. Available(p) \in Nat
      BY <3>1 DEF Available, ViewTypeOK
    <3> QED
      BY <3>1, <3>2 DEF Entry, Pairs
  <2> QED
    BY <1>3, <2>2, <2>3 DEF Shown, Offered
<1>5. PICK t : t = [q EXCEPT !.place = "answered", !.view = <<>>, !.found = {}, !.answer = a]
  OBVIOUS
<1>6. /\ t.place = "answered" /\ t.one = q.one /\ t.calm = q.calm
      /\ t.answer = a
      /\ t.pointOnly = q.pointOnly /\ t.sellerOnly = q.sellerOnly
  BY <1>1, <1>2, <1>5 DEF Lookers
<1>7. t \in Lookers /\ reader'[r] = t
  <2>1. PICK u : u = [q EXCEPT !.place = "answered", !.view = <<>>]
    OBVIOUS
  <2>2. u \in Lookers
    <3>1. <<>> \in Seq(Pairs)
      OBVIOUS
    <3> QED
      BY <1>1, <1>2, <2>1, <3>1 DEF Lookers
  <2>3. t = [u EXCEPT !.found = {}, !.answer = a]
    BY <1>5, <2>1
  <2>4. t \in Lookers
    BY <1>4, <2>2, <2>3 DEF Lookers
  <2> QED
    BY <2>4, <1>2, <1>3, <1>5 DEF Counts, Set, ViewTypeOK
<1>8. ASSUME q.calm PROVE ExactAnswer(t)
  <2>1. /\ ToSet(q.view) = OnOffer /\ q.found \subseteq Wanted(q)
        /\ {l \in Wanted(q) : HasCodes(l)} \subseteq q.found /\ q.one = Null
    BY <1>2, <1>8 DEF LookInv, Lists, Counts, Stands
  <2>2. \A l \in Listings : /\ unsold[l] \in Nat /\ left[l] \in Nat
                            /\ HasCodes(l) => unsold[l] >= left[l]
                            /\ Spoilt = {} => unsold[l] = left[l]
    BY <1>2, <1>8, CodesMatch, CodesSuffice DEF LookInv, ViewTypeOK
  <2>3. ASSUME NEW l \in Listings
        PROVE  /\ Exactly(l).id = l /\ Exactly(l).of = l
               /\ Available(Exactly(l)) = IF l \in ThbListings THEN left[l] ELSE unsold[l]
               /\ Entry(Exactly(l)) = [id |-> l, of |-> l, left |->
                    IF l \in ThbListings THEN left[l] ELSE unsold[l]]
    BY DEF Exactly, Available, Entry
  <2>4. ASSUME NEW p \in a
        PROVE  \E l \in Wanted(q) : p = Entry(Exactly(l))
    <3>1. PICK o \in OnOffer : o.id \in q.found /\ p = Entry(o)
      BY <1>3, <2>1 DEF Shown, Offered
    <3>2. PICK m \in Listings : o = Exactly(m)
      BY <3>1 DEF OnOffer
    <3> QED
      BY <2>1, <2>3, <3>1, <3>2
  <2>5. ASSUME NEW l \in Wanted(q), HasCodes(l) PROVE Entry(Exactly(l)) \in a
    <3>1. l \in Listings /\ left[l] > 0 /\ (q.sellerOnly => l \in ThbListings)
      BY DEF Wanted, Asked, Open
    <3>2. Exactly(l) \in OnOffer
      BY <3>1 DEF OnOffer, Open
    <3>3. Available(Exactly(l)) > 0
      BY <2>2, <2>3, <2>5, <3>1
    <3>4. Exactly(l) \in {o \in Offered(q) : o.id \in q.found /\ Available(o) > 0}
      BY <2>1, <2>3, <2>5, <3>1, <3>2, <3>3 DEF Offered
    <3>5. Entry(Exactly(l)) \in Shown(q)
      BY <3>4 DEF Shown
    <3> QED
      BY <1>3, <3>5
  <2>6. Asked(t) = Asked(q) /\ Wanted(q) = {l \in Asked(t) : Open(l)}
        /\ Asked(t) \subseteq Listings
    BY <1>6 DEF Asked, Wanted
  <2>7. ASSUME NEW p \in a
        PROVE  /\ p.id \in Asked(t) /\ p.id = p.of /\ Open(p.id)
               /\ HasCodes(p.id) => p.left >= left[p.id]
               /\ p.id \in ThbListings \/ Spoilt = {} => p.left = left[p.id]
    <3>1. PICK l \in Wanted(q) : p = Entry(Exactly(l))
      BY <2>4
    <3>2. l \in Listings /\ Open(l) /\ l \in Asked(t)
      BY <2>6
    <3>3. p.id = l /\ p.of = l /\ p.left = IF l \in ThbListings THEN left[l] ELSE unsold[l]
      BY <2>3, <3>1, <3>2
    <3> QED
      BY <2>2, <3>2, <3>3
  <2>8. {l \in Asked(t) : Open(l) /\ HasCodes(l)} \subseteq {p.id : p \in a}
    <3> SUFFICES ASSUME NEW l \in Asked(t), Open(l), HasCodes(l)
                 PROVE  l \in {p.id : p \in a}
      OBVIOUS
    <3>1. Entry(Exactly(l)) \in a /\ l \in Listings
      BY <2>5, <2>6
    <3>2. Entry(Exactly(l)).id = l
      BY <2>3, <3>1
    <3> QED
      BY <3>1, <3>2
  <2>9. {p.id : p \in a} \subseteq Asked(t)
    BY <2>7
  <2> QED
    BY <1>6, <2>1, <2>7, <2>8, <2>9 DEF ExactAnswer, Spoilt
<1>9. Lists(r)'
  <2>1. ExactAnswer(t)' <=> ExactAnswer(t)
    BY <1>1, SameMarket
  <2> QED
    BY <1>6, <1>7, <1>8, <2>1 DEF Lists
<1>10. Audits(r)'
  BY <1>6, <1>7 DEF Audits
<1> QED
  BY <1>1, <1>2, <1>6, <1>7, <1>9, <1>10, SameMarket DEF LookInv

\* One listing is read, if it is open.
LEMMA StartOneLook ==
  ASSUME ViewTypeOK, NEW r \in Readers, StartOne(r)
  PROVE  reader'[r] \in Lookers /\ LookInv(r)'
<1>1. Reads
  BY DEF StartOne
<1>2. PICK l \in Listings :
        /\ Open(l)
        /\ Set(r, [Waiting EXCEPT !.place = "row", !.one = l, !.calm = Calm,
                    !.view = <<[id |-> l, of |-> l, left |-> left[l]]>>])
  BY DEF StartOne
<1>3. PICK p : p = Exactly(l)
  OBVIOUS
<1>4. p \in Pairs
  BY <1>3 DEF Exactly, Pairs, ViewTypeOK
<1>5. PICK c : c = Calm
  OBVIOUS
<1>6. c \in BOOLEAN
  BY <1>5 DEF Calm
<1>7. PICK t : t = [Waiting EXCEPT !.place = "row", !.one = l, !.calm = c, !.view = <<p>>]
  OBVIOUS
<1>8. t = [place |-> "row", pointOnly |-> FALSE, sellerOnly |-> FALSE,
           ids |-> Null, structs |-> Null, view |-> <<p>>, found |-> {},
           answer |-> {}, redeemed |-> 0, used |-> 0, codes |-> Null,
           held |-> Null, alarms |-> {}, one |-> l, calm |-> c,
           torn |-> FALSE, ok |-> TRUE]
  BY <1>7 DEF Waiting
<1>9. t \in Lookers
  <2>1. <<p>> \in Seq(Pairs)
    BY <1>4
  <2> QED
    BY <1>6, <1>8, <2>1 DEF Lookers
<1>10. reader'[r] = t
  BY <1>2, <1>3, <1>5, <1>7 DEF Exactly, Set, ViewTypeOK
<1>11. t.place = "row" /\ t.one = l /\ t.calm = c /\ t.view = <<p>> /\ t.view[1] \in Pairs
  BY <1>4, <1>8
<1>12. Lists(r)'
  BY <1>1, <1>2, <1>3, <1>10, <1>11, SameMarket DEF Lists, Exactly, Open
<1>13. Audits(r)'
  BY <1>10, <1>11 DEF Audits
<1>14. reader'[r].calm => Calm'
  BY <1>1, <1>5, <1>10, <1>11, SameMarket
<1> QED
  BY <1>9, <1>10, <1>12, <1>13, <1>14 DEF LookInv

\* Its codes are read.
LEMMA ReadOneLook ==
  ASSUME ViewTypeOK, MarketInv, NEW r \in Readers, LookInv(r), ReadOne(r)
  PROVE  reader'[r] \in Lookers /\ LookInv(r)'
<1>1. reader[r] \in Lookers /\ Reads
  BY DEF ViewTypeOK, ReadOne
<1>2. PICK q : q = reader[r]
  OBVIOUS
<1>3. PICK p : p = q.view[1]
  OBVIOUS
<1>4. PICK a : a = IF unsold[p.id] + sold[p.id] > 0 THEN {p} ELSE {}
  OBVIOUS
<1>5. a \in SUBSET Pairs
  BY <1>2, <1>3, <1>4 DEF LookInv, Lists, ReadOne, Stands
<1>6. PICK t : t = [q EXCEPT !.place = "answered", !.view = <<>>, !.answer = a]
  OBVIOUS
<1>7. /\ t.place = "answered" /\ t.one = q.one /\ t.calm = q.calm /\ t.answer = a
  BY <1>1, <1>2, <1>6 DEF Lookers
<1>8. t \in Lookers /\ reader'[r] = t
  <2>1. <<>> \in Seq(Pairs)
    OBVIOUS
  <2>2. t \in Lookers
    BY <1>1, <1>2, <1>5, <1>6, <2>1 DEF Lookers
  <2> QED
    BY <2>2, <1>2, <1>3, <1>4, <1>6 DEF ReadOne, Set, ViewTypeOK
<1>9. ASSUME q.calm PROVE ExactAnswer(t)
  <2>1. q.one \in Listings /\ Open(q.one) /\ q.view = <<Exactly(q.one)>>
    BY <1>2, <1>9 DEF LookInv, Lists, ReadOne, Stands
  <2>2. p.id = q.one /\ p.of = q.one /\ p.left = left[q.one]
    BY <1>3, <2>1 DEF Exactly
  <2>3. /\ left[q.one] > 0 /\ sold[q.one] \in Nat
        /\ left[q.one] \in Nat /\ unsold[q.one] \in Nat
        /\ HasCodes(q.one) => unsold[q.one] >= left[q.one]
    BY <1>2, <1>9, <2>1, CodesSuffice DEF LookInv, Open, ViewTypeOK
  <2>4. a \subseteq {p} /\ (HasCodes(q.one) => a = {p})
    BY <1>4, <2>2, <2>3
  <2>5. q.one # Null
    BY <2>1, NullIsNoOne
  <2> QED
    BY <1>7, <2>1, <2>2, <2>3, <2>4, <2>5 DEF ExactAnswer
<1>10. Lists(r)'
  <2>1. ExactAnswer(t)' <=> ExactAnswer(t)
    BY <1>1, SameMarket
  <2> QED
    BY <1>7, <1>8, <1>9, <2>1 DEF Lists
<1>11. Audits(r)'
  BY <1>7, <1>8 DEF Audits
<1> QED
  BY <1>1, <1>2, <1>7, <1>8, <1>10, <1>11, SameMarket DEF LookInv

\* The audit reads the coupon type.
LEMMA StartAuditLook ==
  ASSUME ViewTypeOK, NEW r \in Readers, StartAudit(r)
  PROVE  reader'[r] \in Lookers /\ LookInv(r)'
<1>1. Reads
  BY DEF StartAudit
<1>2. PICK c : c = Calm
  OBVIOUS
<1>3. c \in BOOLEAN
  BY <1>2 DEF Calm
<1>4. PICK t : t = [Waiting EXCEPT !.place = "statsRead", !.redeemed = redeemed, !.calm = c]
  OBVIOUS
<1>5. t = [place |-> "statsRead", pointOnly |-> FALSE, sellerOnly |-> FALSE,
           ids |-> Null, structs |-> Null, view |-> <<>>, found |-> {},
           answer |-> {}, redeemed |-> redeemed, used |-> 0, codes |-> Null,
           held |-> Null, alarms |-> {}, one |-> Null, calm |-> c,
           torn |-> FALSE, ok |-> TRUE]
  BY <1>4 DEF Waiting
<1>6. t \in Lookers
  <2>1. <<>> \in Seq(Pairs) /\ redeemed \in Nat
    BY DEF ViewTypeOK
  <2> QED
    BY <1>3, <1>5, <2>1 DEF Lookers
<1>7. reader'[r] = t
  BY <1>2, <1>4 DEF StartAudit, Set, ViewTypeOK
<1>8. t.place = "statsRead" /\ t.calm = c /\ t.redeemed = redeemed
  BY <1>5
<1>9. Lists(r)'
  BY <1>7, <1>8 DEF Lists
<1>10. Audits(r)'
  BY <1>1, <1>7, <1>8, SameMarket DEF Audits
<1>11. reader'[r].calm => Calm'
  BY <1>1, <1>2, <1>7, <1>8, SameMarket
<1> QED
  BY <1>6, <1>7, <1>9, <1>10, <1>11 DEF LookInv

\* The tallies of the codes are numbers.
LEMMA CensusTypes ==
  ASSUME ViewTypeOK
  PROVE  /\ Census \in Censuses /\ Tally(left) \in Nat
         /\ Tallied([l \in Listings |-> unsold[l] + sold[l]])
         /\ Tallied([l \in ThbListings |-> unsold[l]]) /\ Tallied(left)
<1>1. IsFiniteSet(Listings) /\ IsFiniteSet(ThbListings)
  BY FewOfEach, Sides, FS_Subset
<1>2. \A l \in Listings : unsold[l] \in Nat /\ sold[l] \in Nat /\ left[l] \in Nat
  BY DEF ViewTypeOK
<1>3. Tallied([l \in Listings |-> unsold[l] + sold[l]])
  BY <1>1, <1>2 DEF Tallied
<1>4. Tallied([l \in ThbListings |-> unsold[l]])
  BY <1>1, <1>2, Sides DEF Tallied
<1>5. Tallied(left)
  BY <1>1 DEF Tallied, ViewTypeOK
<1>6. /\ Tally([l \in Listings |-> unsold[l] + sold[l]]) \in Nat
      /\ Tally([l \in ThbListings |-> unsold[l]]) \in Nat
      /\ Tally(left) \in Nat
  BY <1>3, <1>4, <1>5, TallyType
<1>7. Census \in Censuses
  BY <1>6 DEF Census, Censuses, ViewTypeOK
<1> QED
  BY <1>3, <1>4, <1>5, <1>6, <1>7

\* It reads the codes.
LEMMA AuditCodesLook ==
  ASSUME ViewTypeOK, NEW r \in Readers, LookInv(r), AuditCodes(r)
  PROVE  reader'[r] \in Lookers /\ LookInv(r)'
<1>1. reader[r] \in Lookers /\ Reads
  BY DEF ViewTypeOK, AuditCodes
<1>2. PICK q : q = reader[r]
  OBVIOUS
<1>3. PICK c \in Censuses : c = Census
  BY CensusTypes
<1>4. PICK t : t = [q EXCEPT !.place = "codesRead", !.used = used, !.codes = c]
  OBVIOUS
<1>5. /\ t.place = "codesRead" /\ t.calm = q.calm /\ t.used = used /\ t.codes = c
      /\ t.redeemed = q.redeemed
  BY <1>1, <1>2, <1>4 DEF Lookers
<1>6. t \in Lookers
  BY <1>1, <1>2, <1>4 DEF Lookers, ViewTypeOK
<1>7. reader'[r] = t
  BY <1>2, <1>3, <1>4 DEF AuditCodes, Set, ViewTypeOK, Census
<1>8. Lists(r)'
  BY <1>5, <1>7 DEF Lists
<1>9. q.calm => q.redeemed = redeemed
  BY <1>2 DEF LookInv, Audits, AuditCodes, Stands
<1>10. Audits(r)'
  BY <1>1, <1>3, <1>5, <1>7, <1>9, SameMarket DEF Audits
<1> QED
  BY <1>1, <1>2, <1>5, <1>6, <1>7, <1>8, <1>10, SameMarket DEF LookInv

\* It reads the wallets of customers; one it cannot read counts as empty.
LEMMA AuditWalletsLook ==
  ASSUME ViewTypeOK, NEW r \in Readers, LookInv(r), AuditWallets(r)
  PROVE  reader'[r] \in Lookers /\ LookInv(r)'
<1>1. reader[r] \in Lookers /\ Reads
  BY DEF ViewTypeOK, AuditWallets
<1>2. PICK q : q = reader[r]
  OBVIOUS
<1>3. q.calm => q.redeemed = redeemed /\ q.used = used /\ q.codes = Census
  BY <1>2 DEF LookInv, Audits, AuditWallets, Stands
<1>4. \A k \in Buyers : coins[k] \in Nat
  BY DEF ViewTypeOK
<1>5. ASSUME NEW t, NEW h \in [Buyers -> Nat],
             \/ /\ t = [q EXCEPT !.place = "heldRead", !.held = h]
                /\ h = [k \in Buyers |-> coins[k]]
             \/ t = [q EXCEPT !.place = "heldRead", !.ok = FALSE, !.held = h],
             reader'[r] = t
      PROVE  reader'[r] \in Lookers /\ LookInv(r)'
  <2>1. /\ t \in Lookers /\ t.place = "heldRead" /\ t.calm = q.calm /\ t.used = q.used
        /\ t.codes = q.codes /\ t.redeemed = q.redeemed
        /\ t.ok => t.held = [k \in Buyers |-> coins[k]]
    <3>1. CASE /\ t = [q EXCEPT !.place = "heldRead", !.held = h]
               /\ h = [k \in Buyers |-> coins[k]]
      BY <1>1, <1>2, <3>1 DEF Lookers
    <3>2. CASE t = [q EXCEPT !.place = "heldRead", !.ok = FALSE, !.held = h]
      BY <1>1, <1>2, <3>2 DEF Lookers
    <3> QED
      BY <1>5, <3>1, <3>2
  <2>2. Lists(r)'
    BY <1>5, <2>1 DEF Lists
  <2>3. Audits(r)'
    BY <1>1, <1>3, <1>5, <2>1, SameMarket DEF Audits
  <2> QED
    BY <1>1, <1>2, <1>5, <2>1, <2>2, <2>3, SameMarket DEF LookInv
<1>6. CASE Set(r, [reader[r] EXCEPT !.place = "heldRead",
                     !.held = [k \in Buyers |-> coins[k]]])
  <2>1. PICK h : h = [k \in Buyers |-> coins[k]]
    OBVIOUS
  <2>2. h \in [Buyers -> Nat]
    BY <1>4, <2>1
  <2>3. reader'[r] = [q EXCEPT !.place = "heldRead", !.held = h]
    BY <1>2, <1>6, <2>1 DEF Set, ViewTypeOK
  <2> QED
    BY <1>5, <2>1, <2>2, <2>3
<1>7. CASE \E j \in Buyers :
             Set(r, [reader[r] EXCEPT !.place = "heldRead", !.ok = FALSE, !.held =
               [k \in Buyers |-> IF k = j THEN 0 ELSE coins[k]]])
  <2>1. PICK j \in Buyers :
             Set(r, [reader[r] EXCEPT !.place = "heldRead", !.ok = FALSE, !.held =
               [k \in Buyers |-> IF k = j THEN 0 ELSE coins[k]]])
    BY <1>7
  <2>2. PICK h : h = [k \in Buyers |-> IF k = j THEN 0 ELSE coins[k]]
    OBVIOUS
  <2>3. h \in [Buyers -> Nat]
    BY <1>4, <2>2
  <2>4. reader'[r] = [q EXCEPT !.place = "heldRead", !.ok = FALSE, !.held = h]
    BY <1>2, <2>1, <2>2 DEF Set, ViewTypeOK
  <2> QED
    BY <1>5, <2>3, <2>4
<1> QED
  BY <1>6, <1>7 DEF AuditWallets

\* What all customers hold and own can be counted.
LEMMA HoldingTypes ==
  ASSUME ViewTypeOK
  PROVE  /\ Held \in Nat /\ Owned \in Nat
         /\ Tallied([k \in Buyers |-> coins[k]]) /\ Tallied(unused)
<1>1. Tallied([k \in Buyers |-> coins[k]]) /\ Tallied(unused)
  BY FewOfEach DEF Tallied, ViewTypeOK
<1> QED
  BY <1>1, TallyType DEF Held, Owned

\* What the audit finds of customers and redemptions while nobody is at work.
LEMMA LossesShow ==
  ASSUME ViewTypeOK, MarketInv, Calm
  PROVE  (used # redeemed \/ \E k \in Buyers : coins[k] # unused[k])
           <=> Spoilt \cap {"buy", "redeem"} # {}
<1>1. /\ Cardinality(RedeemsDue) = 0 /\ Cardinality(BuysDue) = 0
      /\ used \in Nat /\ redeemed \in Nat
  BY NothingInFlight DEF ViewTypeOK
<1>2. \A k \in Buyers : /\ Cardinality(RedeemsOf(k)) = 0 /\ Cardinality(BuysOf(k)) = 0
                        /\ coins[k] \in Nat /\ unused[k] \in Nat
  BY NothingInFlight DEF ViewTypeOK
<1>3. \A k \in Buyers : Even(k) <=> coins[k] = unused[k]
  BY <1>2 DEF Even
<1>4. Held \in Nat /\ Owned \in Nat
  BY HoldingTypes
<1>5. (\A k \in Buyers : coins[k] = unused[k]) => Held = Owned
  <2>1. ASSUME \A k \in Buyers : coins[k] = unused[k]
        PROVE  [k \in Buyers |-> coins[k]] = unused
    BY <2>1 DEF ViewTypeOK
  <2> QED
    BY <2>1 DEF Held, Owned
<1>6. Spoilt \cap {"buy", "redeem"} = {} =>
        redeemed = used /\ \A k \in Buyers : coins[k] = unused[k]
  BY <1>1, <1>3 DEF MarketInv, Books, Lag, Gap
<1>7. "buy" \in Spoilt => used # redeemed \/ \E k \in Buyers : coins[k] # unused[k]
  BY <1>1, <1>4, <1>5 DEF MarketInv, Books, Lag, Gap
<1>8. "redeem" \in Spoilt => used # redeemed \/ "buy" \in Spoilt
  BY <1>1 DEF MarketInv, Books, Lag, Gap
<1> QED
  BY <1>6, <1>7, <1>8

\* What it finds of the listing, if nothing was lost.
LEMMA AlarmsShow ==
  ASSUME ViewTypeOK, MarketInv, Calm, Spoilt = {}
  PROVE  /\ Census.listed # Tally(left) <=> \E l \in Listings : sold[l] > 0
         /\ Census.unowned # 0 <=> \E l \in ThbListings : Open(l)
<1> DEFINE f == [l \in Listings |-> unsold[l] + sold[l]]
           g == [l \in ThbListings |-> unsold[l]]
<1>1. Tallied(f) /\ Tallied(g) /\ Tallied(left)
  BY CensusTypes
<1>2. \A l \in Listings : unsold[l] = left[l] /\ left[l] \in Nat /\ sold[l] \in Nat
  BY CodesMatch DEF ViewTypeOK
<1>3. Census.listed = Tally(f) /\ Census.unowned = Tally(g)
  BY DEF Census
<1>4. DOMAIN f = Listings /\ DOMAIN left = Listings /\ DOMAIN g = ThbListings
  BY DEF ViewTypeOK
<1>5. \A l \in Listings : f[l] = left[l] + sold[l]
  BY <1>2
<1>6. \A l \in ThbListings : g[l] = left[l]
  BY <1>2, Sides
<1> HIDE DEF f, g
<1>7. ASSUME \A l \in Listings : ~(sold[l] > 0) PROVE Tally(f) = Tally(left)
  <2>1. \A y : ValueAt(f, y) = ValueAt(left, y)
    BY <1>2, <1>4, <1>5, <1>7 DEF ValueAt
  <2> QED
    BY <1>1, <2>1, TallySame
<1>8. ASSUME NEW l \in Listings, sold[l] > 0 PROVE Tally(f) # Tally(left)
  <2> DEFINE h == [left EXCEPT ![l] = left[l] + sold[l]]
  <2>1. Tallied(h)
    BY <1>1, <1>2, <1>4 DEF Tallied
  <2>2. \A y : y # l => ValueAt(left, y) = ValueAt(h, y)
    BY <1>4 DEF ValueAt
  <2>3. ValueAt(h, l) = left[l] + sold[l] /\ ValueAt(left, l) = left[l]
    BY <1>4 DEF ValueAt
  <2>4. \A y : ValueAt(h, y) <= ValueAt(f, y)
    <3> SUFFICES ASSUME NEW y PROVE ValueAt(h, y) <= ValueAt(f, y)
      OBVIOUS
    <3>1. CASE y = l
      BY <1>2, <1>4, <1>5, <2>3, <3>1 DEF ValueAt
    <3>2. CASE y # l /\ y \in Listings
      BY <1>2, <1>4, <1>5, <2>2, <3>2 DEF ValueAt
    <3>3. CASE y \notin Listings
      BY <1>4, <3>3 DEF ValueAt
    <3> QED
      BY <3>1, <3>2, <3>3
  <2> HIDE DEF h
  <2>5. Tally(h) + ValueAt(left, l) = Tally(left) + ValueAt(h, l)
    BY <1>1, <2>1, <2>2, TallyChange
  <2>6. Tally(h) <= Tally(f)
    BY <1>1, <2>1, <2>4, TallyMonotone
  <2>7. Tally(h) \in Nat /\ Tally(f) \in Nat /\ Tally(left) \in Nat
    BY <1>1, <2>1, TallyType
  <2> QED
    BY <1>2, <1>8, <2>3, <2>5, <2>6, <2>7
<1>9. ASSUME \A l \in ThbListings : ~Open(l) PROVE Tally(g) = 0
  <2>1. \A l \in DOMAIN g : g[l] = 0
    BY <1>2, <1>4, <1>6, <1>9, Sides DEF Open
  <2> QED
    BY <1>1, <2>1, TallyZero
<1>10. ASSUME NEW l \in ThbListings, Open(l) PROVE Tally(g) # 0
  <2>1. g[l] <= Tally(g) /\ Tally(g) \in Nat
    BY <1>1, <1>4, TallyMember, TallyType
  <2>2. g[l] \in Nat /\ g[l] > 0
    BY <1>2, <1>6, <1>10, Sides DEF Open
  <2> QED
    BY <2>1, <2>2
<1> QED
  BY <1>3, <1>7, <1>8, <1>9, <1>10

\* The verdict.
LEMMA AuditMarketLook ==
  ASSUME ViewTypeOK, MarketInv, NEW r \in Readers, LookInv(r), AuditMarket(r)
  PROVE  reader'[r] \in Lookers /\ LookInv(r)'
<1>1. reader[r] \in Lookers /\ Reads
  BY DEF ViewTypeOK, AuditMarket
<1>2. PICK q : q = reader[r]
  OBVIOUS
<1> DEFINE Verdict(n) ==
        {a \in {"market", "redeemed", "customer", "merchant"} :
           \/ a = "market"   /\ MarketDiffers(q.codes, n)
           \/ a = "redeemed" /\ q.used # q.redeemed
           \/ a = "customer" /\ CustomersDiffer(q.codes, q.held)
           \/ a = "merchant" /\ SellerDiffers(q.codes)}
<1>3. PICK n, ok : /\ ok \in {FALSE, q.ok} /\ (ok => n = Tally(left))
                   /\ Set(r, [Waiting EXCEPT !.place = "audited", !.calm = q.calm,
                                             !.alarms = Verdict(n), !.ok = ok])
  <2>1. CASE Set(r, [[Waiting EXCEPT !.place = "audited", !.calm = q.calm]
                       EXCEPT !.alarms = Verdict(Tally(left)), !.ok = q.ok])
    BY <2>1
  <2>2. CASE Set(r, [[Waiting EXCEPT !.place = "audited", !.calm = q.calm]
                       EXCEPT !.alarms = Verdict(0), !.ok = FALSE])
    BY <2>2
  <2> QED
    BY <1>2, <2>1, <2>2 DEF AuditMarket
<1>4. PICK a : a = Verdict(n)
  OBVIOUS
<1>5. a \in SUBSET {"market", "redeemed", "customer", "merchant"} /\ ok \in BOOLEAN
      /\ q.calm \in BOOLEAN
  BY <1>1, <1>2, <1>3, <1>4 DEF Lookers
<1>6. /\ "market" \in a <=> MarketDiffers(q.codes, n)
      /\ "redeemed" \in a <=> q.used # q.redeemed
      /\ "customer" \in a <=> CustomersDiffer(q.codes, q.held)
      /\ "merchant" \in a <=> SellerDiffers(q.codes)
  BY <1>4
<1>7. PICK t : t = [Waiting EXCEPT !.place = "audited", !.calm = q.calm, !.alarms = a,
                                   !.ok = ok]
  OBVIOUS
<1>8. reader'[r] = t
  BY <1>2, <1>3, <1>4, <1>7 DEF Set, ViewTypeOK
<1> HIDE DEF Verdict
<1>9. t = [place |-> "audited", pointOnly |-> FALSE, sellerOnly |-> FALSE,
           ids |-> Null, structs |-> Null, view |-> <<>>, found |-> {},
           answer |-> {}, redeemed |-> 0, used |-> 0, codes |-> Null,
           held |-> Null, alarms |-> a, one |-> Null, calm |-> q.calm,
           torn |-> FALSE, ok |-> ok]
  BY <1>7 DEF Waiting
<1>10. t \in Lookers
  <2>1. <<>> \in Seq(Pairs)
    OBVIOUS
  <2> QED
    BY <1>5, <1>9, <2>1 DEF Lookers
<1>11. t.place = "audited" /\ t.calm = q.calm /\ t.alarms = a /\ t.ok = ok
  BY <1>9
<1>12. ASSUME q.calm, ok
       PROVE  /\ a \cap {"customer", "redeemed"} # {} <=> Spoilt \cap {"buy", "redeem"} # {}
              /\ Spoilt = {} =>
                   /\ "market" \in a <=> \E l \in Listings : sold[l] > 0
                   /\ "merchant" \in a <=> \E l \in ThbListings : Open(l)
  <2>1. q.ok /\ n = Tally(left)
    BY <1>3, <1>12
  <2>2. /\ Calm /\ q.redeemed = redeemed /\ q.used = used /\ q.codes = Census
        /\ q.held = [k \in Buyers |-> coins[k]]
    BY <1>2, <1>12, <2>1 DEF LookInv, Audits, AuditMarket, Stands
  <2>3. Census.unused = unused
    BY DEF Census
  <2>4. "customer" \in a <=> \E k \in Buyers : coins[k] # unused[k]
    BY <1>6, <2>2, <2>3 DEF CustomersDiffer
  <2>5. a \cap {"customer", "redeemed"} # {} <=> Spoilt \cap {"buy", "redeem"} # {}
    BY <1>6, <2>2, <2>4, LossesShow
  <2>6. Spoilt = {} =>
          /\ "market" \in a <=> \E l \in Listings : sold[l] > 0
          /\ "merchant" \in a <=> \E l \in ThbListings : Open(l)
    BY <1>6, <2>1, <2>2, AlarmsShow DEF MarketDiffers, SellerDiffers
  <2> QED
    BY <2>5, <2>6
<1>13. Lists(r)'
  BY <1>8, <1>11 DEF Lists
<1>14. Audits(r)'
  BY <1>1, <1>8, <1>11, <1>12, SameMarket DEF Audits, Open
<1> QED
  BY <1>1, <1>2, <1>8, <1>10, <1>11, <1>13, <1>14, SameMarket DEF LookInv

\* Calls that raise are counted.
LEMMA RaisedTypes ==
  ASSUME ViewTypeOK, UNCHANGED raised \/ CallRaises
  PROVE  raised' \in 0 .. MaxRaises
<1>1. raised \in 0 .. MaxRaises /\ MaxRaises \in Nat
  BY ViewBounds DEF ViewTypeOK
<1> QED
  BY <1>1 DEF CallRaises

\* The books do not look at the clock.
LEMMA TickBooks ==
  ASSUME MarketInv, UNCHANGED <<onChain, rows, writer, lost, shared>>,
         \A l \in Listings : /\ Open(l) => closedFor'[l] = closedFor[l]
                             /\ l \notin listed => closedFor'[l] = closedFor[l]
  PROVE  MarketInv'
<1> USE DEF onChain, rows
<1>0. Spoilt' = Spoilt /\ \A l : HasCodes(l)' <=> HasCodes(l)
  BY DEF Spoilt, HasCodes
<1>1. \A w \in Writers : Sent(w)' /\ Made(w)'
  BY <1>0 DEF MarketInv, Sent, Made, Sales
<1>2. \A w, v \in Writers : Alone(w, v)'
  BY DEF MarketInv, Alone
<1>3. \A l \in Listings : Stocked(l)' /\ Enough(l)'
  BY <1>0 DEF MarketInv, Stocked, Enough, Sales, Open
<1>4. Spoilt' = {} => \A l \in Listings : Matched(l)'
  BY <1>0 DEF MarketInv, Matched, Sales
<1>5. Books'
  BY <1>0 DEF MarketInv, Books, Lag, Gap, RedeemsDue, BuysDue, Even, RedeemsOf, BuysOf, Held, Owned
<1> QED
  BY <1>1, <1>2, <1>3, <1>4, <1>5 DEF MarketInv

\* Nothing of the marketplace changes: nor does what is known of it.
LEMMA SameBooks ==
  ASSUME MarketInv, Reads
  PROVE  MarketInv'
<1>1. closedFor' = closedFor /\ UNCHANGED <<onChain, rows, writer, lost, shared>>
  BY DEF Reads
<1> QED
  BY <1>1, TickBooks

\* Every step of one that looks keeps what is known of it.
LEMMA LookKeeps ==
  ASSUME ViewInv, NEW r \in Readers, Looks(r)
  PROVE  reader'[r] \in Lookers /\ LookInv(r)'
<1> USE DEF ViewInv
<1>1. CASE GetMarketplaceListings(r) \/ GetMarketplaceListingsEndUser(r) \/ ByMerchantRef(r)
  <2>1. PICK inPoints \in BOOLEAN, thb \in BOOLEAN : StartList(r, inPoints, thb)
    BY <1>1 DEF GetMarketplaceListings, GetMarketplaceListingsEndUser, ByMerchantRef
  <2> QED
    BY <2>1, StartListLook
<1>2. CASE FetchIds(r) \/ FetchStructs(r)
  BY <1>2, FetchLook
<1>3. CASE Store(r)
  BY <1>3, StoreLook
<1>4. CASE Details(r)
  BY <1>4, DetailsLook
<1>5. CASE Counts(r)
  BY <1>5, CountsLook
<1>6. CASE EndLook(r)
  BY <1>6, WaitingLook DEF EndLook
<1>7. CASE StartOne(r)
  BY <1>7, StartOneLook
<1>8. CASE ReadOne(r)
  BY <1>8, ReadOneLook
<1>9. CASE StartAudit(r)
  BY <1>9, StartAuditLook
<1>10. CASE AuditCodes(r)
  BY <1>10, AuditCodesLook
<1>11. CASE AuditWallets(r)
  BY <1>11, AuditWalletsLook
<1>12. CASE AuditMarket(r)
  BY <1>12, AuditMarketLook
<1> QED
  BY <1>1, <1>2, <1>3, <1>4, <1>5, <1>6, <1>7, <1>8, <1>9, <1>10, <1>11, <1>12
     DEF Looks

\* What a step of one that looks leaves alone.
LEMMA LookFrame ==
  ASSUME NEW r \in Readers, Looks(r)
  PROVE  /\ Reads /\ (UNCHANGED raised \/ CallRaises) /\ (UNCHANGED cache \/ Store(r))
         /\ \E q : Set(r, q)
<1>1. CASE GetMarketplaceListings(r) \/ GetMarketplaceListingsEndUser(r) \/ ByMerchantRef(r)
  BY <1>1 DEF GetMarketplaceListings, GetMarketplaceListingsEndUser, ByMerchantRef,
     StartList
<1>2. CASE FetchIds(r) \/ FetchStructs(r) \/ Store(r)
  BY <1>2 DEF FetchIds, FetchStructs, Store, Fails
<1>3. CASE Details(r) \/ Counts(r) \/ EndLook(r) \/ StartOne(r) \/ ReadOne(r)
  BY <1>3 DEF Details, Counts, EndLook, StartOne, ReadOne
<1>4. CASE StartAudit(r) \/ AuditCodes(r) \/ AuditWallets(r) \/ AuditMarket(r)
  BY <1>4 DEF StartAudit, AuditCodes, AuditWallets, AuditMarket
<1> QED
  BY <1>1, <1>2, <1>3, <1>4 DEF Looks

\* So the step keeps the invariant.
LEMMA LookStep ==
  ASSUME ViewInv, NEW r \in Readers, Looks(r)
  PROVE  ViewInv'
<1> USE DEF ViewInv
<1>1. Reads /\ raised' \in 0 .. MaxRaises
  BY LookFrame, RaisedTypes
<1>2. PICK q : Set(r, q)
  BY LookFrame
<1>3. reader'[r] \in Lookers /\ LookInv(r)'
  BY LookKeeps
<1>4. \A s \in Readers : s # r => reader'[s] = reader[s]
  BY <1>2 DEF Set, ViewTypeOK
<1>5. \A s \in Readers : LookInv(s)'
  BY <1>1, <1>3, <1>4, OtherReaders
<1>6. reader' \in [Readers -> Lookers]
  <2>1. reader \in [Readers -> Lookers] /\ reader'[r] = q
    BY <1>2 DEF Set, ViewTypeOK
  <2> QED
    BY <1>2, <1>3, <2>1 DEF Set
<1>7. MarketInv'
  BY <1>1, SameBooks
<1>8. (cache' = Null \/ cache' \in Caches) /\ CacheCurrent' /\ Aged'
  <2>1. CASE UNCHANGED cache
    <3>1. CacheCurrent'
      BY <1>1, <2>1 DEF CacheCurrent, Reads, onChain, rows, Open
    <3>2. Aged'
      BY <1>1, <2>1 DEF Aged, Reads, onChain, rows, Open
    <3> QED
      BY <2>1, <3>1, <3>2 DEF ViewTypeOK
  <2>2. CASE Store(r)
    BY <2>2, StoreCache
  <2> QED
    BY <2>1, <2>2, LookFrame
<1>9. ViewTypeOK'
  BY <1>1, <1>6, <1>8 DEF ViewTypeOK, Reads, onChain, rows, Open
<1> QED
  BY <1>5, <1>7, <1>8, <1>9

-----------------------------------------------------------------------------
(* The clock and the requests that change the marketplace.                 *)

\* A tick is seen by none who looks.
LEMMA TickedReaders ==
  ASSUME ViewTypeOK, \A r \in Readers : LookInv(r), Tick
  PROVE  reader' \in [Readers -> Lookers] /\ \A r \in Readers : LookInv(r)'
<1>1. reader \in [Readers -> Lookers]
  BY DEF ViewTypeOK
<1>2. /\ order' = order /\ left' = left /\ lost' = lost /\ redeemed' = redeemed
      /\ used' = used /\ unused' = unused /\ unsold' = unsold /\ sold' = sold
      /\ coins' = coins /\ Calm' = Calm /\ Census' = Census /\ OnOffer' = OnOffer
      /\ InOrder' = InOrder /\ shared' = shared /\ Spoilt' = Spoilt
  BY DEF Tick, onChain, rows, Calm, Census, OnOffer, Exactly, InOrder, Open, Spoilt
<1>3. ASSUME NEW r \in Readers
      PROVE  reader'[r] \in Lookers /\ LookInv(r)'
  <2>1. reader[r] \in Lookers
    BY <1>1
  <2>2. PICK b : b = (reader[r].torn \/ reader[r].place = "fetch")
    OBVIOUS
  <2>3. b \in BOOLEAN /\ (reader[r].torn => b)
    BY <2>1, <2>2 DEF Lookers
  <2>4. reader'[r] = [reader[r] EXCEPT !.torn = b]
    BY <2>2 DEF Tick
  <2>5. reader'[r] \in Lookers
    BY <2>1, <2>3, <2>4 DEF Lookers
  <2>6. /\ reader'[r].place = reader[r].place /\ reader'[r].one = reader[r].one
        /\ reader'[r].calm = reader[r].calm /\ reader'[r].view = reader[r].view
        /\ reader'[r].ids = reader[r].ids /\ reader'[r].structs = reader[r].structs
        /\ reader'[r].found = reader[r].found /\ reader'[r].answer = reader[r].answer
        /\ reader'[r].torn = b
        /\ reader'[r].pointOnly = reader[r].pointOnly
        /\ reader'[r].sellerOnly = reader[r].sellerOnly
    BY <2>1, <2>4 DEF Lookers
  <2>7. /\ reader'[r].redeemed = reader[r].redeemed /\ reader'[r].used = reader[r].used
        /\ reader'[r].codes = reader[r].codes /\ reader'[r].held = reader[r].held
        /\ reader'[r].alarms = reader[r].alarms /\ reader'[r].ok = reader[r].ok
    BY <2>1, <2>4 DEF Lookers
  <2>8. Lists(r) /\ Audits(r) /\ (reader[r].calm => Calm)
    BY DEF LookInv
  <2>9. Lists(r)'
    <3>1. \A l : HasCodes(l)' <=> HasCodes(l)
      BY <1>2 DEF HasCodes
    <3>2. Wanted(reader[r])' = Wanted(reader[r])
      BY <1>2, <2>6 DEF Wanted, Asked, Open
    <3>3. ExactAnswer(reader[r])' <=> ExactAnswer(reader[r])
      BY <1>2, <2>6, <3>1 DEF ExactAnswer, Asked, Open
    <3> QED
      BY <1>2, <2>3, <2>6, <2>8, <3>1, <3>2, <3>3 DEF Lists, Open, Exactly
  <2>10. Audits(r)'
    BY <1>2, <2>6, <2>7, <2>8 DEF Audits, Open
  <2> QED
    BY <1>2, <2>5, <2>6, <2>8, <2>9, <2>10 DEF LookInv
<1>4. reader' \in [Readers -> Lookers]
  BY <1>3 DEF Tick
<1> QED
  BY <1>3, <1>4

\* Closed listings grow older with the cache.
LEMMA TickStep ==
  ASSUME ViewInv, Tick
  PROVE  ViewInv'
<1> USE DEF ViewInv
<1>1. reader' \in [Readers -> Lookers] /\ \A r \in Readers : LookInv(r)'
  BY TickedReaders
<1>2. TTL \in Nat /\ closedFor \in [Listings -> 0 .. TTL]
  BY ViewBounds DEF ViewTypeOK
<1>3. ASSUME NEW l \in Listings
      PROVE  /\ closedFor'[l] \in 0 .. TTL
             /\ Open(l) => closedFor'[l] = closedFor[l]
             /\ l \notin listed => closedFor'[l] = closedFor[l]
             /\ closedFor'[l] <= closedFor[l] + 1
  <2>1. closedFor'[l] = IF WasClosed(l) /\ closedFor[l] < TTL
                          THEN closedFor[l] + 1 ELSE closedFor[l]
    BY DEF Tick
  <2>2. closedFor[l] \in 0 .. TTL
    BY <1>2
  <2> QED
    BY <1>2, <2>1, <2>2 DEF WasClosed
<1>4. closedFor' \in [Listings -> 0 .. TTL]
  BY <1>3 DEF Tick
<1>5. UNCHANGED <<onChain, rows, writer, lost, shared, raised>>
  BY DEF Tick
<1>6. MarketInv'
  BY <1>3, <1>5, TickBooks
<1>7. cache' = Null \/ cache' \in Caches => ViewTypeOK'
  BY <1>1, <1>4, <1>5 DEF ViewTypeOK, onChain, rows, Open
<1>8. CASE cache = Null \/ cache.age = TTL
  <2>1. cache' = cache
    BY <1>8 DEF Tick
  <2>2. CacheCurrent'
    BY <1>5, <2>1 DEF CacheCurrent, onChain, rows, Open
  <2>3. ASSUME cache # Null, ~cache.torn, NEW p \in ToSet(cache.data)
        PROVE  Open(p.id) \/ closedFor'[p.id] <= cache.age
    <3>1. cache \in Caches
      BY <2>3 DEF ViewTypeOK
    <3>2. p \in Pairs
      BY <3>1 DEF Caches, ToSet
    <3>3. p.id \in Listings
      BY <3>2 DEF Pairs
    <3> QED
      BY <1>2, <1>3, <1>8, <2>3, <3>3
  <2>4. Aged'
    BY <1>5, <2>1, <2>3 DEF Aged, onChain, Open
  <2> QED
    BY <1>1, <1>6, <1>7, <2>1, <2>2, <2>4 DEF ViewTypeOK
<1>9. CASE cache # Null /\ cache.age # TTL
  <2>1. cache \in Caches /\ cache.age \in 0 .. TTL
    BY <1>9 DEF ViewTypeOK, Caches
  <2>2. cache' = [cache EXCEPT !.age = cache.age + 1]
    BY <1>9 DEF Tick
  <2>3. cache' \in Caches /\ cache'.data = cache.data /\ cache'.missed = cache.missed
        /\ cache'.torn = cache.torn /\ cache'.age = cache.age + 1
    <3>1. cache.age + 1 \in 0 .. TTL
      BY <1>2, <1>9, <2>1
    <3> QED
      BY <2>1, <2>2, <3>1 DEF Caches
  <2>4. CacheCurrent'
    BY <1>5, <1>9, <2>3 DEF CacheCurrent, onChain, rows, Open
  <2>5. ASSUME ~cache.torn, NEW p \in ToSet(cache.data)
        PROVE  Open(p.id) \/ closedFor'[p.id] <= cache.age + 1
    <3>1. p \in Pairs
      BY <2>1 DEF Caches, ToSet
    <3>2. p.id \in Listings
      BY <3>1 DEF Pairs
    <3>3. closedFor[p.id] \in 0 .. TTL /\ closedFor'[p.id] \in 0 .. TTL
      BY <1>2, <1>3, <3>2
    <3>4. Open(p.id) \/ closedFor[p.id] <= cache.age
      BY <1>9, <2>5 DEF Aged
    <3> QED
      BY <1>2, <1>3, <2>1, <3>2, <3>3, <3>4
  <2>6. Aged'
    BY <1>5, <2>3, <2>5 DEF Aged, onChain, Open
  <2> QED
    BY <1>1, <1>6, <1>7, <2>3, <2>4, <2>6
<1> QED
  BY <1>8, <1>9

\* A request is sent: what it is.
LEMMA SendShape ==
  ASSUME ViewTypeOK, NEW w \in Writers, NEW kind \in Kinds, NEW l, NEW k, NEW n,
         l \in Listings \cup {Null}, k \in Buyers \cup {Null}, n \in Nat,
         Sends(w, kind, l, k, n)
  PROVE  \E q \in Changers :
           /\ q.place = "mined" /\ q.kind = kind /\ q.listing = l /\ q.by = k /\ q.n = n
           /\ writer' = [writer EXCEPT ![w] = q] /\ writer[w] = Idle
           /\ writer'[w] = q /\ \A v \in Writers : v # w => writer'[v] = writer[v]
<1>1. PICK here \in BOOLEAN :
        writer' = [writer EXCEPT ![w] = [place |-> "mined", kind |-> kind, listing |-> l,
                                         by |-> k, n |-> n, here |-> here]]
  BY DEF Sends
<1>2. PICK q : q = [place |-> "mined", kind |-> kind, listing |-> l, by |-> k, n |-> n,
                    here |-> here]
  OBVIOUS
<1>3. q \in Changers
  BY <1>2 DEF Changers
<1>4. /\ q.place = "mined" /\ q.kind = kind /\ q.listing = l /\ q.by = k /\ q.n = n
  BY <1>2
<1>5. writer' = [writer EXCEPT ![w] = q] /\ writer[w] = Idle
  BY <1>1, <1>2 DEF Sends
<1>6. writer'[w] = q /\ \A v \in Writers : v # w => writer'[v] = writer[v]
  BY <1>5 DEF ViewTypeOK
<1> QED
  BY <1>3, <1>4, <1>5, <1>6

\* What is counted of the customers.
LEMMA BookTypes ==
  ASSUME ViewTypeOK
  PROVE  /\ redeemed \in Nat /\ used \in Nat /\ Held \in Nat /\ Owned \in Nat
         /\ Cardinality(RedeemsDue) \in Nat /\ Cardinality(BuysDue) \in Nat
         /\ Lag \in Int /\ Gap \in Int
<1>1. RedeemsDue \in SUBSET Writers /\ BuysDue \in SUBSET Writers
  BY DEF RedeemsDue, BuysDue
<1>2. IsFiniteSet(RedeemsDue) /\ IsFiniteSet(BuysDue)
  BY <1>1, FewOfEach, FS_Subset
<1>3. Cardinality(RedeemsDue) \in Nat /\ Cardinality(BuysDue) \in Nat
  BY <1>2, FS_CardinalityType
<1>4. redeemed \in Nat /\ used \in Nat /\ Held \in Nat /\ Owned \in Nat
  BY HoldingTypes DEF ViewTypeOK
<1> QED
  BY <1>3, <1>4 DEF Lag, Gap

\* What one customer holds or owns more or less, all do.
LEMMA HeldMoves ==
  ASSUME NEW c, NEW d, NEW k \in Buyers, c \in [Buyers -> Nat], d \in [Buyers -> Nat],
         \A j \in Buyers : j # k => d[j] = c[j]
  PROVE  Tally(c) \in Nat /\ Tally(d) \in Nat /\ Tally(d) + c[k] = Tally(c) + d[k]
<1>1. Tallied(c) /\ Tallied(d)
  BY FewOfEach DEF Tallied
<1>2. \A y : y # k => ValueAt(c, y) = ValueAt(d, y)
  BY DEF ValueAt
<1>3. ValueAt(c, k) = c[k] /\ ValueAt(d, k) = d[k]
  BY DEF ValueAt
<1> QED
  BY <1>1, <1>2, <1>3, TallyType, TallyChange

\* No step makes up for a loss.
LEMMA BooksMove ==
  ASSUME Books, Lag \in Int, Gap \in Int, Lag' \in Int, Gap' \in Int,
         Lag' >= Lag, Gap' >= Gap, Spoilt \subseteq Spoilt',
         "redeem" \in Spoilt' => "redeem" \in Spoilt \/ Lag' > Lag \/ "buy" \in Spoilt,
         "buy" \in Spoilt' => "buy" \in Spoilt \/ Gap' > Gap,
         Spoilt' \cap {"buy", "redeem"} = {} =>
           Lag' = Lag /\ \A k \in Buyers : Even(k) => Even(k)'
  PROVE  Books'
<1>1. Lag >= 0 /\ Gap >= 0 /\ Lag' >= 0 /\ Gap' >= 0
  BY DEF Books
<1>2. "redeem" \in Spoilt' => Lag' > 0 \/ "buy" \in Spoilt'
  BY <1>1 DEF Books
<1>3. "buy" \in Spoilt' => Gap' > 0
  BY <1>1 DEF Books
<1>4. Spoilt' \cap {"buy", "redeem"} = {} => Spoilt \cap {"buy", "redeem"} = {}
  OBVIOUS
<1>5. Spoilt' \cap {"buy", "redeem"} = {} => Lag' = 0 /\ \A k \in Buyers : Even(k)'
  BY <1>4 DEF Books
<1> QED
  BY <1>1, <1>2, <1>3, <1>5 DEF Books

\* Who neither bought nor redeemed owes what he owed.
LEMMA BooksStay ==
  ASSUME MarketInv, \A k \in Buyers : coins'[k] = coins[k],
         UNCHANGED <<unused, used, redeemed, lost, shared>>,
         \A k \in Buyers : BuysOf(k)' = BuysOf(k) /\ RedeemsOf(k)' = RedeemsOf(k),
         RedeemsDue' = RedeemsDue, BuysDue' = BuysDue
  PROVE  Books'
<1>1. Held' = Held /\ Owned' = Owned /\ Spoilt' = Spoilt
  BY DEF Held, Owned, Spoilt
<1>2. Lag' = Lag /\ Gap' = Gap
  BY <1>1 DEF Lag, Gap
<1>3. \A k \in Buyers : Even(k)' <=> Even(k)
  BY DEF Even
<1> QED
  BY <1>1, <1>2, <1>3 DEF MarketInv, Books

\* Listings none has touched are as they were.
LEMMA ListingStays ==
  ASSUME ViewTypeOK, MarketInv, NEW l \in Listings, left'[l] = left[l],
         unsold'[l] = unsold[l], sold'[l] = sold[l], closedFor'[l] = closedFor[l],
         l \in listed' <=> l \in listed, Sales(l)' = Sales(l),
         UNCHANGED <<lost, shared>>,
         \A w \in Writers :
           /\ writer[w].kind \in Making \cup {"delist"} /\ writer[w].listing = l
           => /\ writer'[w].kind = writer[w].kind /\ writer'[w].listing = l
  PROVE  Stocked(l)' /\ Enough(l)' /\ (Matched(l) => Matched(l)')
<1>1. Stocked(l)'
  BY DEF MarketInv, Stocked, Open
<1>2. Enough(l)'
  <2>1. HasCodes(l)' <=> HasCodes(l)
    BY DEF HasCodes
  <2>2. Enough(l)
    BY DEF MarketInv
  <2> QED
    BY <2>1, <2>2 DEF Enough
<1>3. ASSUME Matched(l) PROVE Matched(l)'
  BY <1>3 DEF Matched
<1> QED
  BY <1>1, <1>2, <1>3

\* A listing is made.
LEMMA OfferBooks ==
  ASSUME ViewTypeOK, MarketInv, NEW w \in Writers, NEW l \in Listings, NEW n \in Amounts,
         Offer(w, l, n)
  PROVE  MarketInv'
<1>1. n \in Nat /\ n > 0
  BY ViewBounds
<1>2. PICK kind \in Making :
        /\ Sends(w, kind, l, Null, n)
        /\ kind = "offer" => l \in ThbListings
        /\ kind = "list" => /\ l \notin ThbListings /\ stock >= n
                            /\ \A v \in Writers : writer[v].kind # "list"
  BY DEF Offer, Making
<1>3. kind \in Kinds /\ kind \notin {"trade", "buy", "redeem", "delist"}
  BY DEF Making, Kinds
<1>4. PICK q \in Changers :
           /\ q.place = "mined" /\ q.kind = kind /\ q.listing = l /\ q.by = Null /\ q.n = n
           /\ writer' = [writer EXCEPT ![w] = q] /\ writer[w] = Idle
           /\ writer'[w] = q /\ \A v \in Writers : v # w => writer'[v] = writer[v]
  BY <1>1, <1>2, <1>3, SendShape
<1>5. /\ \A m \in Listings : Sales(m)' = Sales(m)
      /\ \A k \in Buyers : BuysOf(k)' = BuysOf(k) /\ RedeemsOf(k)' = RedeemsOf(k)
      /\ RedeemsDue' = RedeemsDue /\ BuysDue' = BuysDue
  BY <1>3, <1>4, SendCounts DEF ViewTypeOK
<1>6. /\ l \notin listed /\ listed' = listed \cup {l} /\ left' = [left EXCEPT ![l] = n]
      /\ UNCHANGED <<redeemed, closedFor, stock, unsold, sold, unused, used, lost, shared>>
      /\ \A k \in Buyers : coins'[k] = coins[k]
  BY NullIsNoOne DEF Offer, Sends, rows, ViewTypeOK
<1>7. unsold[l] = 0 /\ sold[l] = 0 /\ closedFor[l] = 0
  BY <1>6 DEF MarketInv, Stocked
<1>8. left'[l] = n /\ \A m \in Listings : m # l => left'[m] = left[m]
  BY <1>6 DEF ViewTypeOK
<1>9. writer[w].kind = Null /\ writer[w].kind \notin Kinds /\ Making \subseteq Kinds
      /\ {"delist", "trade", "buy"} \subseteq Kinds
  BY <1>4, NullIsNoOne DEF Idle, Making, Kinds
<1>10. \A v \in Writers : v # w => /\ writer[v].kind \in Kinds => writer[v].listing # l
                                   /\ writer[v].kind \in Kinds \ {"redeem"} => writer[v].listing \in Listings
  <2> SUFFICES ASSUME NEW v \in Writers
               PROVE  /\ writer[v].kind \in Kinds => writer[v].listing # l
                      /\ writer[v].kind \in Kinds \ {"redeem"} => writer[v].listing \in Listings
    OBVIOUS
  <2>1. Sent(v)
    BY DEF MarketInv
  <2>2. writer[v].kind \in Kinds \ {"redeem"} => writer[v].listing \in listed
    BY <2>1 DEF Sent
  <2>3. writer[v].kind = "redeem" => writer[v].listing = Null
    BY <2>1 DEF Sent
  <2> QED
    BY <1>6, <2>2, <2>3, NullIsNoOne DEF ViewTypeOK
<1>11. \A v \in Writers : Sent(v)'
  <2> SUFFICES ASSUME NEW v \in Writers PROVE Sent(v)'
    OBVIOUS
  <2>1. CASE v = w
    BY <1>2, <1>3, <1>4, <1>6, <2>1 DEF Sent
  <2>2. CASE v # w
    <3>1. Sent(v)
      BY DEF MarketInv
    <3> QED
      BY <1>4, <1>6, <2>2, <3>1 DEF Sent
  <2> QED
    BY <2>1, <2>2
<1>12. \A v \in Writers : Made(v)'
  <2> SUFFICES ASSUME NEW v \in Writers PROVE Made(v)'
    OBVIOUS
  <2>1. CASE v = w
    <3>1. Sales(l)' = {}
      <4>1. w \notin Sales(l)'
        BY <1>3, <1>4 DEF Sales
      <4>2. \A u \in Writers : u # w => u \notin Sales(l)'
        BY <1>4, <1>9, <1>10 DEF Sales
      <4> QED
        BY <4>1, <4>2 DEF Sales
    <3>2. Cardinality(Sales(l)') = 0 /\ left'[l] + 0 = n
      BY <1>1, <1>8, <3>1, FS_EmptySet
    <3> QED
      BY <1>1, <1>3, <1>4, <1>6, <1>7, <1>8, <2>1, <3>2 DEF Made
  <2>2. CASE v # w
    <3>1. Made(v)
      BY DEF MarketInv
    <3>2. writer[v].kind \in Making \cup {"delist"} =>
            /\ left'[writer[v].listing] = left[writer[v].listing]
            /\ Sales(writer[v].listing)' = Sales(writer[v].listing)
      BY <1>4, <1>5, <1>8, <1>9, <1>10, <2>2 DEF Making
    <3>3. Spoilt' = Spoilt
      BY <1>6 DEF Spoilt
    <3> QED
      BY <1>4, <1>6, <2>2, <3>1, <3>2, <3>3 DEF Made
  <2> QED
    BY <2>1, <2>2
<1>13. \A u, v \in Writers : Alone(u, v)'
  <2> SUFFICES ASSUME NEW u \in Writers, NEW v \in Writers PROVE Alone(u, v)'
    OBVIOUS
  <2>1. CASE u # w /\ v # w
    <3>1. Alone(u, v)
      BY DEF MarketInv
    <3> QED
      BY <1>4, <2>1, <3>1 DEF Alone
  <2>2. CASE u = w /\ v # w
    BY <1>2, <1>3, <1>4, <1>9, <1>10, <2>2 DEF Alone
  <2>3. CASE u # w /\ v = w
    BY <1>2, <1>3, <1>4, <1>9, <1>10, <2>3 DEF Alone
  <2>4. CASE u = v
    BY <2>4 DEF Alone
  <2> QED
    BY <2>1, <2>2, <2>3, <2>4
<1>14. \A m \in Listings : Stocked(m)' /\ Enough(m)' /\ (Matched(m) => Matched(m)')
  <2> SUFFICES ASSUME NEW m \in Listings
               PROVE  Stocked(m)' /\ Enough(m)' /\ (Matched(m) => Matched(m)')
    OBVIOUS
  <2>1. CASE m = l
    <3>1. Stocked(l)'
      BY <1>5, <1>6, <1>7 DEF MarketInv, Stocked
    <3>2. Matched(l)' /\ Enough(l)'
      BY <1>4 DEF Matched, Enough
    <3> QED
      BY <2>1, <3>1, <3>2
  <2>2. CASE m # l
    <3>1. m \in listed' <=> m \in listed
      BY <1>6, <2>2
    <3>2. \A v \in Writers :
              /\ writer[v].kind \in Making \cup {"delist"} /\ writer[v].listing = m
              => /\ writer'[v].kind = writer[v].kind /\ writer'[v].listing = m
      BY <1>4, <1>9
    <3> QED
      BY <1>5, <1>6, <1>8, <2>2, <3>1, <3>2, ListingStays
  <2> QED
    BY <2>1, <2>2
<1>15. Books'
  BY <1>5, <1>6, BooksStay
<1>16. Spoilt' = {} => \A m \in Listings : Matched(m)'
  BY <1>6, <1>14 DEF MarketInv, Spoilt
<1> QED
  BY <1>11, <1>12, <1>13, <1>14, <1>15, <1>16 DEF MarketInv

\* The other requests are as they were.
LEMMA OthersSent ==
  ASSUME MarketInv, NEW w \in Writers,
         \A v \in Writers : v # w => writer'[v] = writer[v],
         UNCHANGED <<listed, stock>>
  PROVE  /\ \A v \in Writers : v # w => Sent(v)'
         /\ \A u, v \in Writers : u # w /\ v # w => Alone(u, v)'
<1>1. ASSUME NEW v \in Writers, v # w PROVE Sent(v)'
  <2>1. Sent(v) /\ writer'[v] = writer[v]
    BY <1>1 DEF MarketInv
  <2> QED
    BY <2>1 DEF Sent
<1>2. ASSUME NEW u \in Writers, NEW v \in Writers, u # w, v # w PROVE Alone(u, v)'
  <2>1. Alone(u, v) /\ writer'[v] = writer[v] /\ writer'[u] = writer[u]
    BY <1>2 DEF MarketInv
  <2> QED
    BY <2>1 DEF Alone
<1> QED
  BY <1>1, <1>2

\* A coupon of a listing is sold.
LEMMA TakeBooks ==
  ASSUME ViewTypeOK, MarketInv, NEW w \in Writers, NEW l \in Listings,
         NEW kind \in {"trade", "buy"}, NEW k, Take(l), Sends(w, kind, l, k, 1),
         \/ kind = "trade" /\ k = Null /\ l \in ThbListings
            /\ coins' = [coins EXCEPT ![Merchant] = @ + 1]
         \/ kind = "buy" /\ k \in Buyers /\ l \notin ThbListings
            /\ coins' = [coins EXCEPT ![k] = @ + 1],
         kind = "buy" => unsold[l] + sold[l] > 0,
         UNCHANGED <<redeemed, listed, closedFor>>
  PROVE  MarketInv'
<1>1. kind \in Kinds
  BY DEF Kinds
<1>2. PICK q \in Changers :
           /\ q.place = "mined" /\ q.kind = kind /\ q.listing = l /\ q.by = k /\ q.n = 1
           /\ writer' = [writer EXCEPT ![w] = q] /\ writer[w] = Idle
           /\ writer'[w] = q /\ \A v \in Writers : v # w => writer'[v] = writer[v]
  BY <1>1, SendShape
<1>3. /\ \A m \in Listings :
           /\ Cardinality(Sales(m)) \in Nat
           /\ m = l => Cardinality(Sales(m)') = Cardinality(Sales(m)) + 1
           /\ m # l => Sales(m)' = Sales(m)
      /\ \A c \in Buyers : /\ RedeemsOf(c)' = RedeemsOf(c)
                           /\ Cardinality(BuysOf(c)) \in Nat
                           /\ Cardinality(RedeemsOf(c)) \in Nat
                           /\ ~(kind = "buy" /\ c = k) => BuysOf(c)' = BuysOf(c)
                           /\ kind = "buy" /\ c = k =>
                                Cardinality(BuysOf(c)') = Cardinality(BuysOf(c)) + 1
      /\ RedeemsDue' = RedeemsDue /\ Cardinality(BuysDue) \in Nat
      /\ kind = "buy" => Cardinality(BuysDue') = Cardinality(BuysDue) + 1
      /\ kind # "buy" => BuysDue' = BuysDue
  <2>1. q.kind # "redeem" /\ q.kind \in {"trade", "buy"} /\ q.kind \in Kinds
    BY <1>1, <1>2
  <2>2. writer \in [Writers -> Changers]
    BY DEF ViewTypeOK
  <2>3. \A m \in Listings :
           /\ Cardinality(Sales(m)) \in Nat
           /\ q.listing = m => Cardinality(Sales(m)') = Cardinality(Sales(m)) + 1
           /\ q.listing # m => Sales(m)' = Sales(m)
    BY <1>2, <2>1, <2>2, SendCounts
  <2>4. \A c \in Buyers : /\ RedeemsOf(c)' = RedeemsOf(c)
                          /\ Cardinality(BuysOf(c)) \in Nat
                          /\ Cardinality(RedeemsOf(c)) \in Nat
                          /\ ~(q.kind = "buy" /\ q.by = c) => BuysOf(c)' = BuysOf(c)
                          /\ q.kind = "buy" /\ q.by = c =>
                               Cardinality(BuysOf(c)') = Cardinality(BuysOf(c)) + 1
    BY <1>2, <2>1, <2>2, SendCounts
  <2>5. /\ RedeemsDue' = RedeemsDue /\ Cardinality(BuysDue) \in Nat
        /\ q.kind = "buy" => Cardinality(BuysDue') = Cardinality(BuysDue) + 1
        /\ q.kind # "buy" => BuysDue' = BuysDue
    BY <1>2, <2>1, <2>2, SendCounts
  <2> QED
    BY <1>2, <2>3, <2>4, <2>5
<1>4. /\ UNCHANGED <<stock, unsold, sold, unused, used, lost, shared>>
      /\ left' = [left EXCEPT ![l] = @ - 1]
  BY DEF Take, Sends, rows
<1>5. /\ left[l] \in Nat /\ left[l] > 0 /\ left'[l] = left[l] - 1
      /\ \A m \in Listings : m # l => left'[m] = left[m]
  BY <1>4 DEF Take, Open, ViewTypeOK
<1>6. unsold[l] \in Nat /\ sold[l] \in Nat /\ Cardinality(Sales(l)) \in Nat
      /\ left'[l] + Cardinality(Sales(l)') = left[l] + Cardinality(Sales(l))
  BY <1>3, <1>5 DEF ViewTypeOK
<1>7. l \in listed /\ closedFor[l] = 0
  BY DEF MarketInv, Stocked, Take
<1>8. ASSUME NEW v \in Writers, writer[v].kind \in Making \cup {"delist"}
      PROVE  /\ v # w
             /\ writer[v].kind = "delist" \/ kind = "buy" => writer[v].listing # l
  <2>1. Made(v)
    BY DEF MarketInv
  <2>2. v # w
    BY <1>2, <1>8, NullIsNoOne DEF Idle, Making, Kinds
  <2>3. writer[v].kind = "delist" => writer[v].listing # l
    BY <1>5, <2>1 DEF Made
  <2>4. writer[v].kind \in Making /\ kind = "buy" => writer[v].listing # l
    BY <1>6, <2>1 DEF Made
  <2> QED
    BY <1>8, <2>2, <2>3, <2>4
<1>9. \A v \in Writers : Sent(v)'
  <2>1. Sent(w)'
    BY <1>1, <1>2, <1>7 DEF Sent, Kinds
  <2> QED
    BY <1>2, <1>4, <2>1, OthersSent
<1>10. \A v \in Writers : Made(v)'
  <2> SUFFICES ASSUME NEW v \in Writers PROVE Made(v)'
    OBVIOUS
  <2>1. CASE v = w
    BY <1>2, <2>1 DEF Made, Making
  <2>2. CASE v # w
    <3>1. Made(v) /\ Sent(v)
      BY DEF MarketInv
    <3>2. writer[v].kind \in Making \cup {"delist"} => writer[v].listing \in Listings
      BY <3>1 DEF Sent, Making, Kinds, ViewTypeOK
    <3>3. writer[v].kind = "delist" =>
            left'[writer[v].listing] = left[writer[v].listing]
      BY <1>5, <1>8, <3>2
    <3>4. writer[v].kind \in Making =>
            left'[writer[v].listing] + Cardinality(Sales(writer[v].listing)') =
            left[writer[v].listing] + Cardinality(Sales(writer[v].listing))
      <4>1. CASE writer[v].listing = l
        BY <1>2, <1>6, <2>2, <4>1
      <4>2. CASE writer[v].listing # l
        BY <1>2, <1>3, <1>5, <2>2, <3>2, <4>2
      <4> QED
        BY <4>1, <4>2
    <3>5. Spoilt' = Spoilt
      BY <1>4 DEF Spoilt
    <3> QED
      BY <1>2, <1>4, <2>2, <3>1, <3>3, <3>4, <3>5 DEF Made
  <2> QED
    BY <2>1, <2>2
<1>11. \A u, v \in Writers : Alone(u, v)'
  <2> SUFFICES ASSUME NEW u \in Writers, NEW v \in Writers PROVE Alone(u, v)'
    OBVIOUS
  <2>1. CASE u # w /\ v # w
    BY <1>2, <1>4, <2>1, OthersSent
  <2>2. CASE u = w /\ v # w
    BY <1>2, <2>2 DEF Alone, Making
  <2>3. CASE u # w /\ v = w
    BY <1>2, <1>8, <2>3 DEF Alone, Making
  <2>4. CASE u = v
    BY <2>4 DEF Alone
  <2> QED
    BY <2>1, <2>2, <2>3, <2>4
<1>12. \A m \in Listings : Stocked(m)' /\ Enough(m)' /\ (Matched(m) => Matched(m)')
  <2> SUFFICES ASSUME NEW m \in Listings
               PROVE  Stocked(m)' /\ Enough(m)' /\ (Matched(m) => Matched(m)')
    OBVIOUS
  <2>0. \A v \in Writers :
              /\ writer[v].kind \in Making \cup {"delist"} /\ writer[v].listing = m
              => /\ writer'[v].kind = writer[v].kind /\ writer'[v].listing = m
    BY <1>2, <1>8
  <2>1. CASE m = l
    <3>1. Stocked(l)'
      BY <1>4, <1>7 DEF MarketInv, Stocked
    <3>2. Enough(l)'
      <4>1. HasCodes(l)' <=> HasCodes(l)
        BY <1>4 DEF HasCodes
      <4>2. Enough(l)
        BY DEF MarketInv
      <4> QED
        BY <1>4, <1>5, <1>6, <2>0, <2>1, <4>1, <4>2 DEF Enough
    <3>3. Matched(l) => Matched(l)'
      BY <1>4, <1>5, <1>6, <2>0, <2>1 DEF Matched
    <3> QED
      BY <2>1, <3>1, <3>2, <3>3
  <2>2. CASE m # l
    BY <1>3, <1>4, <1>5, <2>0, <2>2, ListingStays
  <2> QED
    BY <2>1, <2>2
<1>13. ASSUME NEW c \in Buyers
       PROVE  /\ ~(kind = "buy" /\ c = k) => coins'[c] = coins[c]
              /\ kind = "buy" /\ c = k => coins'[c] = coins[c] + 1
              /\ coins[c] \in Nat /\ coins'[c] \in Nat
  BY NullIsNoOne DEF ViewTypeOK
<1>14. Books'
  <2>1. CASE kind = "trade"
    BY <1>3, <1>4, <1>13, <2>1, BooksStay
  <2>2. CASE kind = "buy"
    <3> DEFINE c == [j \in Buyers |-> coins[j]]
               d == [j \in Buyers |-> coins'[j]]
    <3>1. k \in Buyers /\ c \in [Buyers -> Nat] /\ d \in [Buyers -> Nat]
          /\ c[k] = coins[k] /\ d[k] = coins[k] + 1 /\ coins[k] \in Nat
          /\ \A j \in Buyers : j # k => d[j] = c[j]
      BY <1>13, <2>2
    <3>2. Held = Tally(c) /\ Held' = Tally(d)
      BY DEF Held
    <3> HIDE DEF c, d
    <3>3. Held' = Held + 1
      BY <3>1, <3>2, HeldMoves
    <3>4. /\ redeemed \in Nat /\ used \in Nat /\ Held \in Nat /\ Owned \in Nat
          /\ Cardinality(RedeemsDue) \in Nat /\ Lag \in Int /\ Gap \in Int
      BY BookTypes
    <3>5. Lag' = Lag /\ Owned' = Owned /\ Spoilt' = Spoilt
      BY <1>3, <1>4 DEF Lag, Owned, Spoilt
    <3>6. Gap' = Gap
      BY <1>3, <1>4, <2>2, <3>3, <3>4, <3>5 DEF Gap
    <3>7. \A j \in Buyers : Even(j) => Even(j)'
      <4> SUFFICES ASSUME NEW j \in Buyers, Even(j) PROVE Even(j)'
        OBVIOUS
      <4>1. unused[j] \in Nat
        BY DEF ViewTypeOK
      <4>2. CASE j = k
        BY <1>3, <1>4, <1>13, <2>2, <4>1, <4>2 DEF Even
      <4>3. CASE j # k
        BY <1>3, <1>4, <1>13, <4>3 DEF Even
      <4> QED
        BY <4>2, <4>3
    <3> QED
      BY <3>4, <3>5, <3>6, <3>7, BooksMove DEF MarketInv
  <2> QED
    BY <2>1, <2>2
<1>15. Spoilt' = {} => \A m \in Listings : Matched(m)'
  BY <1>4, <1>12 DEF MarketInv, Spoilt
<1> QED
  BY <1>9, <1>10, <1>11, <1>12, <1>14, <1>15 DEF MarketInv

\* A merchant withdraws what is left of a listing.
LEMMA DelistBooks ==
  ASSUME ViewTypeOK, MarketInv, NEW w \in Writers, NEW l \in Listings, DelistCoupon(w, l)
  PROVE  MarketInv'
<1>1. left[l] \in Nat /\ left[l] > 0 /\ "delist" \in Kinds /\ unsold[l] \in Nat
  BY DEF ViewTypeOK, DelistCoupon, Open, Kinds
<1>2. PICK q \in Changers :
           /\ q.place = "mined" /\ q.kind = "delist" /\ q.listing = l /\ q.by = Null
           /\ q.n = left[l]
           /\ writer' = [writer EXCEPT ![w] = q] /\ writer[w] = Idle
           /\ writer'[w] = q /\ \A v \in Writers : v # w => writer'[v] = writer[v]
  BY <1>1, SendShape DEF DelistCoupon
<1>3. /\ \A m \in Listings : Sales(m)' = Sales(m) /\ Cardinality(Sales(m)) \in Nat
      /\ \A c \in Buyers : BuysOf(c)' = BuysOf(c) /\ RedeemsOf(c)' = RedeemsOf(c)
      /\ RedeemsDue' = RedeemsDue /\ BuysDue' = BuysDue
  BY <1>1, <1>2, SendCounts DEF ViewTypeOK
<1>4. /\ UNCHANGED <<stock, unsold, sold, unused, used, lost, shared, redeemed,
                   listed, closedFor>>
      /\ \A c \in Buyers : coins'[c] = coins[c]
      /\ l \notin ThbListings /\ unsold[l] > 0
  BY NullIsNoOne DEF DelistCoupon, Sends, rows, ViewTypeOK
<1>5. left'[l] = 0 /\ \A m \in Listings : m # l => left'[m] = left[m]
  BY DEF DelistCoupon, ViewTypeOK
<1>6. l \in listed
  BY DEF MarketInv, Stocked, DelistCoupon
<1>7. ASSUME NEW v \in Writers, writer[v].kind \in Making \cup {"delist"}
      PROVE  writer[v].listing # l /\ v # w
  <2>1. Made(v)
    BY DEF MarketInv
  <2>2. v # w
    BY <1>2, <1>7, NullIsNoOne DEF Idle, Making, Kinds
  <2> QED
    BY <1>1, <1>4, <1>7, <2>1, <2>2 DEF Made
<1>8. \A v \in Writers : Sent(v)'
  <2>1. Sent(w)'
    BY <1>2, <1>4, <1>6 DEF Sent, Kinds
  <2> QED
    BY <1>2, <1>4, <2>1, OthersSent
<1>9. \A v \in Writers : Made(v)'
  <2> SUFFICES ASSUME NEW v \in Writers PROVE Made(v)'
    OBVIOUS
  <2>1. CASE v = w
    BY <1>2, <1>5, <2>1 DEF Made, Making
  <2>2. CASE v # w
    <3>1. Made(v) /\ Sent(v)
      BY DEF MarketInv
    <3>2. writer[v].kind \in Making \cup {"delist"} => writer[v].listing \in Listings
      BY <3>1 DEF Sent, Making, Kinds, ViewTypeOK
    <3>3. writer[v].kind \in Making \cup {"delist"} =>
            /\ left'[writer[v].listing] = left[writer[v].listing]
            /\ Sales(writer[v].listing)' = Sales(writer[v].listing)
      BY <1>2, <1>3, <1>5, <1>7, <2>2, <3>2
    <3>4. Spoilt' = Spoilt
      BY <1>4 DEF Spoilt
    <3> QED
      BY <1>2, <1>4, <2>2, <3>1, <3>3, <3>4 DEF Made
  <2> QED
    BY <2>1, <2>2
<1>10. \A u, v \in Writers : Alone(u, v)'
  <2> SUFFICES ASSUME NEW u \in Writers, NEW v \in Writers PROVE Alone(u, v)'
    OBVIOUS
  <2>1. CASE u # w /\ v # w
    BY <1>2, <1>4, <2>1, OthersSent
  <2>2. CASE u = w /\ v # w
    BY <1>2, <1>7, <2>2 DEF Alone, Making
  <2>3. CASE u # w /\ v = w
    BY <1>2, <1>7, <2>3 DEF Alone, Making
  <2>4. CASE u = v
    BY <2>4 DEF Alone
  <2> QED
    BY <2>1, <2>2, <2>3, <2>4
<1>11. \A m \in Listings : Stocked(m)' /\ Enough(m)' /\ (Matched(m) => Matched(m)')
  <2> SUFFICES ASSUME NEW m \in Listings
               PROVE  Stocked(m)' /\ Enough(m)' /\ (Matched(m) => Matched(m)')
    OBVIOUS
  <2>1. CASE m = l
    <3>1. Stocked(l)'
      BY <1>3, <1>4, <1>5, <1>6 DEF MarketInv, Stocked, Open
    <3>2. Matched(l)' /\ Enough(l)'
      BY <1>2, <1>5 DEF Matched, Enough
    <3> QED
      BY <2>1, <3>1, <3>2
  <2>2. CASE m # l
    <3>1. \A v \in Writers :
              /\ writer[v].kind \in Making \cup {"delist"} /\ writer[v].listing = m
              => /\ writer'[v].kind = writer[v].kind /\ writer'[v].listing = m
      BY <1>2, <1>7
    <3> QED
      BY <1>3, <1>4, <1>5, <2>2, <3>1, ListingStays
  <2> QED
    BY <2>1, <2>2
<1>12. Books'
  BY <1>3, <1>4, BooksStay
<1>13. Spoilt' = {} => \A m \in Listings : Matched(m)'
  BY <1>4, <1>11 DEF MarketInv, Spoilt
<1> QED
  BY <1>8, <1>9, <1>10, <1>11, <1>12, <1>13 DEF MarketInv

\* A customer redeems a code.
LEMMA RedeemBooks ==
  ASSUME ViewTypeOK, MarketInv, NEW w \in Writers, NEW k \in Buyers, Redeem(w, k)
  PROVE  MarketInv'
<1>1. "redeem" \in Kinds
  BY DEF Kinds
<1>2. PICK q \in Changers :
           /\ q.place = "mined" /\ q.kind = "redeem" /\ q.listing = Null /\ q.by = k
           /\ q.n = 1
           /\ writer' = [writer EXCEPT ![w] = q] /\ writer[w] = Idle
           /\ writer'[w] = q /\ \A v \in Writers : v # w => writer'[v] = writer[v]
  BY <1>1, SendShape DEF Redeem
<1>3. /\ \A m \in Listings : Sales(m)' = Sales(m)
      /\ \A c \in Buyers : /\ BuysOf(c)' = BuysOf(c)
                           /\ Cardinality(BuysOf(c)) \in Nat
                           /\ Cardinality(RedeemsOf(c)) \in Nat
                           /\ c # k => RedeemsOf(c)' = RedeemsOf(c)
                           /\ c = k => Cardinality(RedeemsOf(c)') = Cardinality(RedeemsOf(c)) + 1
      /\ Cardinality(RedeemsDue) \in Nat
      /\ Cardinality(RedeemsDue') = Cardinality(RedeemsDue) + 1
      /\ BuysDue' = BuysDue
  BY <1>1, <1>2, SendCounts DEF ViewTypeOK
<1>4. /\ UNCHANGED <<stock, unsold, sold, unused, used, lost, shared, left, listed, closedFor>>
      /\ redeemed' = redeemed + 1 /\ redeemed \in Nat /\ used \in Nat
  BY DEF Redeem, Sends, rows, ViewTypeOK
<1>5. /\ coins[k] \in Nat /\ coins[k] > 0 /\ coins'[k] = coins[k] - 1
      /\ \A c \in Buyers : c # k => coins'[c] = coins[c]
  BY DEF Redeem, ViewTypeOK
<1>6. \A v \in Writers : Sent(v)'
  <2>1. Sent(w)'
    BY <1>2 DEF Sent, Kinds
  <2> QED
    BY <1>2, <1>4, <2>1, OthersSent
<1>7. \A v \in Writers : Made(v)'
  <2> SUFFICES ASSUME NEW v \in Writers PROVE Made(v)'
    OBVIOUS
  <2>1. CASE v = w
    BY <1>2, <2>1 DEF Made, Making
  <2>2. CASE v # w
    <3>1. Made(v) /\ Sent(v)
      BY DEF MarketInv
    <3>2. writer[v].kind \in Making => Sales(writer[v].listing)' = Sales(writer[v].listing)
      BY <1>2, <1>3, <2>2, <3>1 DEF Sent, Making, Kinds, ViewTypeOK
    <3>3. Spoilt' = Spoilt
      BY <1>4 DEF Spoilt
    <3> QED
      BY <1>2, <1>4, <2>2, <3>1, <3>2, <3>3 DEF Made
  <2> QED
    BY <2>1, <2>2
<1>8. \A u, v \in Writers : Alone(u, v)'
  <2> SUFFICES ASSUME NEW u \in Writers, NEW v \in Writers PROVE Alone(u, v)'
    OBVIOUS
  <2>1. CASE u # w /\ v # w
    BY <1>2, <1>4, <2>1, OthersSent
  <2>2. CASE u = w \/ v = w
    BY <1>2, <2>2 DEF Alone, Making
  <2> QED
    BY <2>1, <2>2
<1>9. \A m \in Listings : Stocked(m)' /\ Enough(m)' /\ (Matched(m) => Matched(m)')
  <2> SUFFICES ASSUME NEW m \in Listings
               PROVE  Stocked(m)' /\ Enough(m)' /\ (Matched(m) => Matched(m)')
    OBVIOUS
  <2>1. writer[w].kind \notin Making \cup {"delist"}
    BY <1>2, NullIsNoOne DEF Idle, Making, Kinds
  <2>2. \A v \in Writers :
              /\ writer[v].kind \in Making \cup {"delist"} /\ writer[v].listing = m
              => /\ writer'[v].kind = writer[v].kind /\ writer'[v].listing = m
    BY <1>2, <2>1
  <2> QED
    BY <1>3, <1>4, <2>2, ListingStays
<1>10. Books'
  <2> DEFINE c == [j \in Buyers |-> coins[j]]
             d == [j \in Buyers |-> coins'[j]]
  <2>1. c \in [Buyers -> Nat] /\ d \in [Buyers -> Nat]
        /\ d[k] + 1 = c[k]
        /\ \A j \in Buyers : j # k => d[j] = c[j]
    BY <1>5 DEF ViewTypeOK
  <2>2. Held = Tally(c) /\ Held' = Tally(d)
    BY DEF Held
  <2> HIDE DEF c, d
  <2>3. Held = Held' + 1 /\ Held' \in Nat
    BY <2>1, <2>2, HeldMoves
  <2>4. /\ redeemed \in Nat /\ used \in Nat /\ Held \in Nat /\ Owned \in Nat
        /\ Cardinality(BuysDue) \in Nat /\ Lag \in Int /\ Gap \in Int
    BY BookTypes
  <2>5. Owned' = Owned /\ Spoilt' = Spoilt
    BY <1>4 DEF Owned, Spoilt
  <2>6. Lag' = Lag
    BY <1>3, <1>4, <2>4 DEF Lag
  <2>7. Gap' = Gap
    <3>1. /\ redeemed' = redeemed + 1 /\ used' = used
          /\ Cardinality(BuysDue') = Cardinality(BuysDue)
      BY <1>3, <1>4
    <3> QED
      BY <2>3, <2>4, <2>5, <3>1 DEF Gap
  <2>8. \A j \in Buyers : Even(j) => Even(j)'
    <3> SUFFICES ASSUME NEW j \in Buyers, Even(j) PROVE Even(j)'
      OBVIOUS
    <3>1. unused[j] \in Nat
      BY DEF ViewTypeOK
    <3>2. CASE j = k
      BY <1>3, <1>4, <1>5, <3>1, <3>2 DEF Even
    <3>3. CASE j # k
      BY <1>3, <1>4, <1>5, <3>3 DEF Even
    <3> QED
      BY <3>2, <3>3
  <2> QED
    BY <2>4, <2>5, <2>6, <2>7, <2>8, BooksMove DEF MarketInv
<1>11. Spoilt' = {} => \A m \in Listings : Matched(m)'
  BY <1>4, <1>9 DEF MarketInv, Spoilt
<1> QED
  BY <1>6, <1>7, <1>8, <1>9, <1>10, <1>11 DEF MarketInv

\* What is sent changes no listing but its own, and tells those who look.
LEMMA SendFrame ==
  ASSUME ViewInv, NEW w \in Writers, NEW kind \in Kinds, NEW l, NEW k, NEW n,
         l \in Listings \cup {Null}, k \in Buyers \cup {Null}, n \in Nat,
         Sends(w, kind, l, k, n), UNCHANGED closedFor,
         order' \in SetToSeqs({m \in Listings : Open(m)}'),
         left' \in [Listings -> Nat], coins' \in [Buyers \cup {Merchant} -> Nat],
         redeemed' \in Nat, listed' \subseteq Listings,
         \A m \in Listings : m # l => left'[m] = left[m],
         MarketInv'
  PROVE  ViewInv'
<1> USE DEF ViewInv
<1>1. PICK q \in Changers :
           /\ q.place = "mined" /\ q.kind = kind /\ q.listing = l /\ q.by = k /\ q.n = n
           /\ writer' = [writer EXCEPT ![w] = q] /\ writer[w] = Idle
           /\ writer'[w] = q /\ \A v \in Writers : v # w => writer'[v] = writer[v]
  BY SendShape
<1>2. reader' \in [Readers -> Lookers] /\ \A r \in Readers : LookInv(r)'
  BY DisturbedReaders DEF Sends
<1>3. UNCHANGED <<stock, unsold, sold, unused, used, cache, lost, shared, raised>>
  BY DEF Sends, rows
<1>4. writer' \in [Writers -> Changers]
  BY <1>1 DEF ViewTypeOK
<1>5. ViewTypeOK'
  BY <1>2, <1>3, <1>4 DEF ViewTypeOK
<1>6. ASSUME cache # Null, ~cache.torn, NEW m \in Listings
      PROVE  \/ m \in cache.missed
             \/ \E v \in Writers : writer'[v].place = "mined" /\ writer'[v].listing = m
             \/ {p \in ToSet(cache.data) : p.id = m \/ p.of = m} =
                  IF left'[m] > 0 THEN {[id |-> m, of |-> m, left |-> left'[m]]} ELSE {}
  <2>1. CASE m = l
    BY <1>1, <2>1
  <2>2. CASE m # l
    <3>1. left'[m] = left[m]
      BY <2>2
    <3>2. \A v \in Writers : writer[v].place = "mined" => writer'[v] = writer[v]
      BY <1>1 DEF Idle
    <3>3. \/ m \in cache.missed
          \/ \E v \in Writers : writer[v].place = "mined" /\ writer[v].listing = m
          \/ {p \in ToSet(cache.data) : p.id = m \/ p.of = m} =
               IF left[m] > 0 THEN {[id |-> m, of |-> m, left |-> left[m]]} ELSE {}
      BY <1>6 DEF CacheCurrent, Open
    <3>4. CASE \E v \in Writers : writer[v].place = "mined" /\ writer[v].listing = m
      BY <3>2, <3>4
    <3> QED
      BY <3>1, <3>3, <3>4
  <2> QED
    BY <2>1, <2>2
<1>7. CacheCurrent'
  BY <1>3, <1>6 DEF CacheCurrent, Open
<1>8. ASSUME cache # Null, ~cache.torn, NEW p \in ToSet(cache.data)
      PROVE  closedFor[p.id] <= cache.age \/ left'[p.id] > 0
  <2>1. cache \in Caches /\ cache.age \in 0 .. TTL
    BY <1>8 DEF ViewTypeOK, Caches
  <2>2. p \in Pairs
    BY <2>1 DEF Caches, ToSet
  <2>3. p.id \in Listings
    BY <2>2 DEF Pairs
  <2>4. Open(p.id) => closedFor[p.id] = 0
    BY <2>3 DEF MarketInv, Stocked
  <2>5. Open(p.id) \/ closedFor[p.id] <= cache.age
    BY <1>8 DEF Aged
  <2>6. 0 <= cache.age
    BY <2>1
  <2> QED
    BY <2>4, <2>5, <2>6
<1>9. Aged'
  BY <1>3, <1>8 DEF Aged, Open
<1> QED
  BY <1>2, <1>5, <1>7, <1>9

\* The contract's list after a listing was opened, and after one was closed.
LEMMA Reordered ==
  ASSUME ViewTypeOK, NEW l \in Listings,
         \A m \in Listings : m # l => left'[m] = left[m]
  PROVE  /\ left'[l] > 0 /\ Reorder(ToSet(order) \cup {l}) =>
              order' \in SetToSeqs({m \in Listings : Open(m)}')
         /\ left'[l] = 0 /\ Reorder(ToSet(order) \ {l}) =>
              order' \in SetToSeqs({m \in Listings : Open(m)}')
<1>1. ToSet(order) = {m \in Listings : left[m] > 0}
  BY InTheList DEF ViewTypeOK, Open
<1>2. left'[l] > 0 => ToSet(order) \cup {l} = {m \in Listings : left'[m] > 0}
  BY <1>1
<1>3. left'[l] = 0 => ToSet(order) \ {l} = {m \in Listings : left'[m] > 0}
  BY <1>1
<1> QED
  BY <1>2, <1>3 DEF Reorder, Open

\* Every request that is sent keeps the invariant.
LEMMA OfferStep ==
  ASSUME ViewInv, NEW w \in Writers, NEW l \in Listings, NEW n \in Amounts, Offer(w, l, n)
  PROVE  ViewInv'
<1> USE DEF ViewInv
<1>1. n \in Nat /\ n > 0
  BY ViewBounds
<1>2. PICK kind \in {"offer", "list"} : Sends(w, kind, l, Null, n)
  BY DEF Offer
<1>3. coins' \in [Buyers \cup {Merchant} -> Nat]
  <2>1. CASE UNCHANGED coins
    BY <2>1 DEF ViewTypeOK
  <2>2. CASE coins[Merchant] >= n /\ coins' = [coins EXCEPT ![Merchant] = @ - n]
    <3>1. coins[Merchant] - n \in Nat
      BY <1>1, <2>2 DEF ViewTypeOK
    <3> QED
      BY <2>2, <3>1 DEF ViewTypeOK
  <2> QED
    BY <2>1, <2>2 DEF Offer
<1>4. left' \in [Listings -> Nat] /\ left'[l] = n /\ \A m \in Listings : m # l => left'[m] = left[m]
  BY <1>1 DEF Offer, ViewTypeOK
<1>5. order' \in SetToSeqs({m \in Listings : Open(m)}')
  BY <1>1, <1>4, Reordered DEF Offer
<1>6. MarketInv'
  BY OfferBooks
<1>7. kind \in Kinds /\ closedFor' = closedFor /\ redeemed' \in Nat /\ listed' \subseteq Listings
  BY DEF Kinds, Offer, ViewTypeOK
<1> QED
  BY <1>1, <1>2, <1>3, <1>4, <1>5, <1>6, <1>7, SendFrame

\* A sale, to a merchant or a customer.
LEMMA TakeStep ==
  ASSUME ViewInv, NEW w \in Writers, NEW l \in Listings,
         Trade(w, l) \/ \E k \in Buyers : Buy(w, l, k)
  PROVE  ViewInv'
<1> USE DEF ViewInv
<1>1. PICK kind \in {"trade", "buy"}, k \in Buyers \cup {Null} :
        /\ Take(l) /\ Sends(w, kind, l, k, 1)
        /\ \/ kind = "trade" /\ k = Null /\ l \in ThbListings
              /\ coins' = [coins EXCEPT ![Merchant] = @ + 1]
           \/ kind = "buy" /\ k \in Buyers /\ l \notin ThbListings
              /\ coins' = [coins EXCEPT ![k] = @ + 1] /\ unsold[l] + sold[l] > 0
        /\ UNCHANGED <<redeemed, listed, closedFor>>
  <2>1. CASE Trade(w, l)
    BY <2>1 DEF Trade
  <2>2. CASE \E k \in Buyers : Buy(w, l, k)
    BY <2>2 DEF Buy
  <2> QED
    BY <2>1, <2>2
<1>2. MarketInv'
  BY <1>1, TakeBooks
<1>3. coins' \in [Buyers \cup {Merchant} -> Nat]
  BY <1>1 DEF ViewTypeOK
<1>4. left[l] \in Nat /\ left[l] > 0 /\ left' = [left EXCEPT ![l] = left[l] - 1]
  BY <1>1 DEF Take, Open, ViewTypeOK
<1>5. left' \in [Listings -> Nat] /\ left'[l] = left[l] - 1
      /\ \A m \in Listings : m # l => left'[m] = left[m]
  BY <1>4 DEF ViewTypeOK
<1>6. order' \in SetToSeqs({m \in Listings : Open(m)}')
  <2>1. CASE left[l] = 1
    <3>1. left'[l] = 0
      BY <1>5, <2>1
    <3>2. Reorder(ToSet(order) \ {l})
      BY <1>1, <2>1 DEF Take
    <3> QED
      BY <1>5, <3>1, <3>2, Reordered
  <2>2. CASE left[l] # 1
    <3>1. left'[l] > 0
      BY <1>4, <1>5, <2>2
    <3>2. order' = order
      BY <1>1, <2>2 DEF Take
    <3>3. {m \in Listings : left'[m] > 0} = {m \in Listings : left[m] > 0}
      BY <1>4, <1>5, <3>1
    <3> QED
      BY <3>2, <3>3 DEF ViewTypeOK, Open
  <2> QED
    BY <2>1, <2>2
<1>7. kind \in Kinds /\ redeemed' \in Nat /\ listed' \subseteq Listings /\ 1 \in Nat
  BY <1>1 DEF Kinds, ViewTypeOK
<1> QED
  BY <1>1, <1>2, <1>3, <1>5, <1>6, <1>7, SendFrame

\* A withdrawal.
LEMMA DelistStep ==
  ASSUME ViewInv, NEW w \in Writers, NEW l \in Listings, DelistCoupon(w, l)
  PROVE  ViewInv'
<1> USE DEF ViewInv
<1>1. MarketInv'
  BY DelistBooks
<1>2. left[l] \in Nat /\ "delist" \in Kinds
  BY DEF ViewTypeOK, Kinds
<1>3. coins' \in [Buyers \cup {Merchant} -> Nat]
  BY <1>2 DEF DelistCoupon, ViewTypeOK
<1>4. left' \in [Listings -> Nat] /\ left'[l] = 0
      /\ \A m \in Listings : m # l => left'[m] = left[m]
  BY DEF DelistCoupon, ViewTypeOK
<1>5. order' \in SetToSeqs({m \in Listings : Open(m)}')
  BY <1>4, Reordered DEF DelistCoupon
<1>6. /\ Sends(w, "delist", l, Null, left[l]) /\ closedFor' = closedFor
      /\ redeemed' \in Nat /\ listed' \subseteq Listings
  BY DEF DelistCoupon, ViewTypeOK
<1> QED
  BY <1>1, <1>2, <1>3, <1>4, <1>5, <1>6, SendFrame

\* A redemption.
LEMMA RedeemStep ==
  ASSUME ViewInv, NEW w \in Writers, NEW k \in Buyers, Redeem(w, k)
  PROVE  ViewInv'
<1> USE DEF ViewInv
<1>1. MarketInv'
  BY RedeemBooks
<1>2. coins[k] \in Nat /\ coins[k] > 0 /\ "redeem" \in Kinds
  BY DEF Redeem, ViewTypeOK, Kinds
<1>3. coins' \in [Buyers \cup {Merchant} -> Nat]
  <2>1. coins[k] - 1 \in Nat
    BY <1>2
  <2> QED
    BY <2>1 DEF Redeem, ViewTypeOK
<1>4. left' = left /\ order' = order /\ closedFor' = closedFor /\ listed' = listed
      /\ redeemed' = redeemed + 1 /\ Sends(w, "redeem", Null, k, 1)
  BY DEF Redeem
<1>5. order' \in SetToSeqs({m \in Listings : Open(m)}')
  BY <1>4 DEF ViewTypeOK, Open
<1>6. left' \in [Listings -> Nat] /\ redeemed' \in Nat /\ listed' \subseteq Listings /\ 1 \in Nat
  BY <1>4 DEF ViewTypeOK
<1> QED
  BY <1>1, <1>2, <1>3, <1>4, <1>5, <1>6, SendFrame

\* The sales of a listing can be counted.
LEMMA SalesCounted ==
  \A l : Cardinality(Sales(l)) \in Nat /\ Cardinality(Sales(l)') \in Nat
<1> SUFFICES ASSUME NEW l
             PROVE  Cardinality(Sales(l)) \in Nat /\ Cardinality(Sales(l)') \in Nat
  OBVIOUS
<1>1. Sales(l) \in SUBSET Writers /\ Sales(l)' \in SUBSET Writers
  BY DEF Sales
<1>2. IsFiniteSet(Sales(l)) /\ IsFiniteSet(Sales(l)')
  BY <1>1, FewOfEach, FS_Subset
<1> QED
  BY <1>2, FS_CardinalityType

\* The receipt arrives: what the request is about stays the same.
LEMMA ArrivedBooks ==
  ASSUME ViewTypeOK, MarketInv, NEW w \in Writers, writer[w].place = "mined",
         writer' = [writer EXCEPT ![w].place = "record"],
         UNCHANGED <<onChain, rows, closedFor, lost, shared>>
  PROVE  MarketInv' /\ writer' \in [Writers -> Changers]
<1> USE DEF onChain, rows
<1>1. writer[w] \in Changers
  BY DEF ViewTypeOK
<1>2. PICK q : q = [writer[w] EXCEPT !.place = "record"]
  OBVIOUS
<1>3. /\ q \in Changers /\ q.place = "record" /\ q.kind = writer[w].kind
      /\ q.listing = writer[w].listing /\ q.by = writer[w].by /\ q.n = writer[w].n
  BY <1>1, <1>2 DEF Changers
<1>4. writer'[w] = q /\ writer' \in [Writers -> Changers]
  BY <1>2, <1>3 DEF ViewTypeOK
<1>5. \A v \in Writers : v # w => writer'[v] = writer[v]
  BY DEF ViewTypeOK
<1>6. \A v \in Writers : /\ writer'[v].kind = writer[v].kind /\ writer'[v].by = writer[v].by
                         /\ writer'[v].listing = writer[v].listing
                         /\ writer'[v].n = writer[v].n
  BY <1>3, <1>4, <1>5
<1>7. \A v \in Writers : Sent(v)'
  <2>1. Sent(w)'
    <3>1. Sent(w)
      BY DEF MarketInv
    <3> QED
      BY <1>3, <1>4, <3>1 DEF Sent
  <2> QED
    BY <1>5, <2>1, OthersSent
<1>8. \A v \in Writers : Made(v)'
  <2>1. Spoilt' = Spoilt /\ \A l : Sales(l)' = Sales(l)
    BY <1>6 DEF Spoilt, Sales
  <2> QED
    BY <1>6, <2>1 DEF MarketInv, Made
<1>9. \A u, v \in Writers : Alone(u, v)'
  BY <1>6 DEF MarketInv, Alone
<1>10. /\ \A l \in Listings : Sales(l)' = Sales(l)
       /\ \A k \in Buyers : BuysOf(k)' = BuysOf(k) /\ RedeemsOf(k)' = RedeemsOf(k)
       /\ RedeemsDue' = RedeemsDue /\ BuysDue' = BuysDue
  BY <1>6 DEF Sales, BuysOf, RedeemsOf, RedeemsDue, BuysDue
<1>11. \A l \in Listings : Stocked(l)' /\ Enough(l)' /\ (Matched(l) => Matched(l)')
  BY <1>6, <1>10, ListingStays
<1>12. Books'
  BY <1>10, BooksStay
<1>13. Spoilt' = {} => \A l \in Listings : Matched(l)'
  BY <1>11 DEF MarketInv, Spoilt
<1> QED
  BY <1>4, <1>7, <1>8, <1>9, <1>11, <1>12, <1>13 DEF MarketInv

\* A request whose record is written has ended.
LEMMA EndShape ==
  ASSUME ViewTypeOK, MarketInv, NEW w \in Writers, writer' = [writer EXCEPT ![w] = Idle]
  PROVE  /\ writer'[w] = Idle /\ \A v \in Writers : v # w => writer'[v] = writer[v]
         /\ Idle.kind = Null /\ Null \notin Kinds /\ Idle.place = "idle"
         /\ writer' \in [Writers -> Changers]
         /\ UNCHANGED listed =>
              /\ Sent(w)'
              /\ \A v \in Writers :
                   v # w /\ (writer[v].kind = "list" => stock' >= writer[v].n) => Sent(v)'
         /\ Made(w)'
         /\ \A v \in Writers :
              /\ v # w
              /\ writer[v].kind \in Making \cup {"delist"} =>
                   LET l == writer[v].listing IN
                   /\ left'[l] = left[l] /\ unsold'[l] = unsold[l] /\ sold'[l] = sold[l]
                   /\ Sales(l)' = Sales(l) /\ Spoilt' = Spoilt
              => Made(v)'
         /\ \A u, v \in Writers : Alone(u, v)'
<1>1. /\ writer'[w] = Idle /\ \A v \in Writers : v # w => writer'[v] = writer[v]
      /\ Idle.kind = Null /\ Null \notin Kinds /\ Idle.place = "idle"
  BY NullIsNoOne DEF ViewTypeOK, Idle
<1>2. writer' \in [Writers -> Changers]
  <2>1. Idle \in Changers
    BY DEF Idle, Changers
  <2> QED
    BY <2>1 DEF ViewTypeOK
<1>3. ASSUME UNCHANGED listed
      PROVE  /\ Sent(w)'
             /\ \A v \in Writers :
                   v # w /\ (writer[v].kind = "list" => stock' >= writer[v].n) => Sent(v)'
  <2>1. Sent(w)'
    BY <1>1 DEF Sent, Kinds
  <2>2. ASSUME NEW v \in Writers, v # w, writer[v].kind = "list" => stock' >= writer[v].n
        PROVE  Sent(v)'
    <3>1. Sent(v) /\ writer'[v] = writer[v]
      BY <1>1, <2>2 DEF MarketInv
    <3> QED
      BY <1>3, <2>2, <3>1 DEF Sent
  <2> QED
    BY <2>1, <2>2
<1>4. Made(w)'
  BY <1>1 DEF Made, Making, Kinds
<1>5. ASSUME NEW v \in Writers, v # w,
             writer[v].kind \in Making \cup {"delist"} =>
               LET l == writer[v].listing IN
               /\ left'[l] = left[l] /\ unsold'[l] = unsold[l] /\ sold'[l] = sold[l]
               /\ Sales(l)' = Sales(l) /\ Spoilt' = Spoilt
      PROVE  Made(v)'
  <2>1. Made(v) /\ writer'[v] = writer[v]
    BY <1>1, <1>5 DEF MarketInv
  <2> QED
    BY <1>5, <2>1 DEF Made
<1>6. \A u, v \in Writers : Alone(u, v)'
  <2> SUFFICES ASSUME NEW u \in Writers, NEW v \in Writers PROVE Alone(u, v)'
    OBVIOUS
  <2>1. CASE u = w \/ v = w
    BY <1>1, <2>1 DEF Alone, Making, Kinds
  <2>2. CASE u # w /\ v # w
    <3>1. Alone(u, v) /\ writer'[v] = writer[v] /\ writer'[u] = writer[u]
      BY <1>1, <2>2 DEF MarketInv
    <3> QED
      BY <3>1 DEF Alone
  <2> QED
    BY <2>1, <2>2
<1> QED
  BY <1>1, <1>2, <1>3, <1>4, <1>5, <1>6

\* It does not matter of whose code a record was.
LEMMA SpoiltListings ==
  ASSUME ViewTypeOK, MarketInv, NEW w \in Writers, writer[w].place # "idle",
         writer' = [writer EXCEPT ![w] = Idle],
         lost \subseteq lost', shared \subseteq shared',
         writer[w].kind \in lost' \cup shared',
         writer[w].kind \in Making => writer[w].kind \in lost',
         UNCHANGED <<onChain, closedFor, sold>>, stock' \in Nat, stock' >= stock,
         \/ UNCHANGED unsold
         \/ /\ "trade" \in shared'
            /\ \E m \in Listings \ ThbListings :
                 unsold[m] > 0 /\ unsold' = [unsold EXCEPT ![m] = unsold[m] - 1]
  PROVE  /\ \A v \in Writers : Sent(v)' /\ Made(v)'
         /\ \A u, v \in Writers : Alone(u, v)'
         /\ \A l \in Listings : Stocked(l)' /\ Enough(l)'
         /\ Spoilt' # {}
<1> USE DEF onChain
<1>1. PICK q \in Changers : q = writer[w]
  BY DEF ViewTypeOK
<1>2. q.kind \in Kinds /\ Sent(w)
  BY <1>1 DEF MarketInv, Sent
<1>3. /\ writer'[w] = Idle /\ \A v \in Writers : v # w => writer'[v] = writer[v]
      /\ Idle.kind = Null /\ Null \notin Kinds /\ Idle.place = "idle"
  BY EndShape
<1>4. Spoilt' # {}
  BY DEF Spoilt
<1>5. ASSUME NEW l \in Listings
      PROVE  /\ Cardinality(Sales(l)) \in Nat /\ Cardinality(Sales(l)') \in Nat
             /\ Cardinality(Sales(l)') <= Cardinality(Sales(l))
  <2>1. /\ Cardinality(Sales(l)') \in Nat
        /\ q.kind \in {"trade", "buy"} /\ q.listing = l =>
                   Cardinality(Sales(l)) = Cardinality(Sales(l)') + 1
        /\ ~(q.kind \in {"trade", "buy"} /\ q.listing = l) => Sales(l)' = Sales(l)
    BY <1>1, EndCounts DEF ViewTypeOK
  <2> QED
    BY <2>1
<1>6. \A l \in Listings : /\ unsold[l] = 0 => unsold'[l] = 0
                          /\ HasCodes(l)' => HasCodes(l) /\ unsold'[l] = unsold[l]
                          /\ l \notin listed => unsold'[l] = unsold[l]
  <2> SUFFICES ASSUME NEW l \in Listings
               PROVE  /\ unsold[l] = 0 => unsold'[l] = 0
                      /\ HasCodes(l)' => HasCodes(l) /\ unsold'[l] = unsold[l]
                      /\ l \notin listed => unsold'[l] = unsold[l]
    OBVIOUS
  <2>1. HasCodes(l)' => HasCodes(l)
    BY DEF HasCodes
  <2>2. CASE UNCHANGED unsold
    BY <2>1, <2>2
  <2>3. CASE /\ "trade" \in shared'
             /\ \E m \in Listings \ ThbListings :
                  unsold[m] > 0 /\ unsold' = [unsold EXCEPT ![m] = unsold[m] - 1]
    <3>1. PICK m \in Listings \ ThbListings :
                  unsold[m] > 0 /\ unsold' = [unsold EXCEPT ![m] = unsold[m] - 1]
      BY <2>3
    <3>2. l # m => unsold'[l] = unsold[l]
      BY <3>1 DEF ViewTypeOK
    <3>3. l = m => ~HasCodes(l)' /\ unsold[l] # 0
      BY <2>3, <3>1 DEF HasCodes
    <3>4. l \notin listed => unsold[l] = 0
      BY DEF MarketInv, Stocked
    <3> QED
      BY <2>1, <3>2, <3>3, <3>4
  <2> QED
    BY <2>2, <2>3
<1>7. \A v \in Writers : Sent(v)' /\ Made(v)'
  <2> SUFFICES ASSUME NEW v \in Writers, v # w PROVE Sent(v)' /\ Made(v)'
    BY EndShape
  <2>1. Sent(v) /\ Made(v) /\ writer'[v] = writer[v] /\ writer[v].n \in Nat /\ stock \in Nat
    BY <1>3 DEF MarketInv, ViewTypeOK, Changers
  <2>2. writer[v].kind = "list" => stock' >= writer[v].n
    BY <2>1 DEF Sent
  <2>3. Sent(v)'
    BY <2>2, EndShape
  <2>4. Made(v)'
    <3>1. CASE writer[v].kind \in Making
      <4>1. PICK l \in Listings : l = writer[v].listing
        BY <2>1, <3>1 DEF Sent, Making, Kinds, ViewTypeOK
      <4>2. /\ unsold[l] = 0 /\ sold[l] = 0 /\ left[l] \in Nat
            /\ left[l] + Cardinality(Sales(l)) <= writer[v].n
        BY <2>1, <3>1, <4>1 DEF Made, ViewTypeOK
      <4>3. left[l] + Cardinality(Sales(l)') <= writer[v].n
        BY <1>5, <2>1, <4>2
      <4> QED
        BY <1>4, <1>6, <2>1, <3>1, <4>1, <4>2, <4>3 DEF Made, Making
    <3>2. CASE writer[v].kind \notin Making
      BY <2>1, <3>2 DEF Made
    <3> QED
      BY <3>1, <3>2
  <2> QED
    BY <2>3, <2>4
<1>8. \A u, v \in Writers : Alone(u, v)'
  BY EndShape
<1>9. ASSUME NEW l \in Listings PROVE Stocked(l)'
  BY <1>6 DEF MarketInv, Stocked, Open
<1>10. ASSUME NEW l \in Listings, HasCodes(l)' PROVE Enough(l)'
  <2>1. HasCodes(l) /\ unsold'[l] = unsold[l] /\ Enough(l)
    BY <1>6, <1>10 DEF MarketInv
  <2>2. CASE \E v \in Writers : writer[v].kind \in Making /\ writer[v].listing = l
    <3>1. PICK v \in Writers : writer[v].kind \in Making /\ writer[v].listing = l
      BY <2>2
    <3>2. v # w
      <4>1. ASSUME v = w PROVE FALSE
        <5>1. q.kind \in Making /\ q.kind \in lost' /\ q.listing = l
          BY <1>1, <3>1, <4>1
        <5>2. /\ q.kind = "offer" => l \in ThbListings
              /\ q.kind = "list" => l \notin ThbListings
          BY <1>1, <1>2, <5>1 DEF Sent
        <5> QED
          BY <1>10, <5>1, <5>2 DEF HasCodes, Making
      <4> QED
        BY <4>1
    <3> QED
      BY <1>3, <3>1, <3>2 DEF Enough
  <2>3. CASE unsold[l] >= left[l] + Cardinality(Sales(l))
    <3>1. left[l] \in Nat /\ unsold[l] \in Nat
      BY DEF ViewTypeOK
    <3>2. unsold'[l] >= left'[l] + Cardinality(Sales(l)')
      BY <1>5, <2>1, <2>3, <3>1
    <3> QED
      BY <3>2 DEF Enough
  <2>4. CASE left[l] = 0
    BY <2>4 DEF Enough
  <2> QED
    BY <2>1, <2>2, <2>3, <2>4 DEF Enough
<1>11. \A l \in Listings : Enough(l)'
  BY <1>10 DEF Enough
<1> QED
  BY <1>4, <1>7, <1>8, <1>9, <1>11

\* A receipt or a record is lost: the request ends.
LEMMA LostBooks ==
  ASSUME ViewTypeOK, MarketInv, NEW w \in Writers, writer[w].place # "idle",
         writer' = [writer EXCEPT ![w] = Idle], lost' = lost \cup {writer[w].kind},
         UNCHANGED <<onChain, rows, closedFor, shared>>
  PROVE  MarketInv' /\ lost' \subseteq Kinds
<1> USE DEF onChain, rows
<1>1. PICK q \in Changers : q = writer[w]
  BY DEF ViewTypeOK
<1>2. q.kind \in Kinds
  BY <1>1 DEF MarketInv, Sent
<1>3. lost' \subseteq Kinds
  BY <1>1, <1>2 DEF ViewTypeOK
<1>4. stock \in Nat
  BY DEF ViewTypeOK
<1>5. /\ \A v \in Writers : Sent(v)' /\ Made(v)'
      /\ \A u, v \in Writers : Alone(u, v)'
      /\ \A l \in Listings : Stocked(l)' /\ Enough(l)'
      /\ Spoilt' # {}
  <2>1. /\ lost \subseteq lost' /\ shared \subseteq shared' /\ stock' \in Nat /\ stock' >= stock
        /\ writer[w].kind \in lost' \cup shared' /\ writer[w].kind \in lost'
        /\ UNCHANGED unsold /\ UNCHANGED <<onChain, closedFor, sold>>
    BY <1>4
  <2> QED
    BY <2>1, SpoiltListings
<1>6. Books'
  <2>1. /\ Cardinality(RedeemsDue') \in Nat /\ Cardinality(BuysDue') \in Nat
        /\ q.kind = "redeem" => Cardinality(RedeemsDue) = Cardinality(RedeemsDue') + 1
        /\ q.kind # "redeem" => RedeemsDue' = RedeemsDue
        /\ q.kind = "buy" => Cardinality(BuysDue) = Cardinality(BuysDue') + 1
        /\ q.kind # "buy" => BuysDue' = BuysDue
    BY <1>1, EndCounts DEF ViewTypeOK
  <2>2. \A c \in Buyers : /\ q.kind # "buy" => BuysOf(c)' = BuysOf(c)
                          /\ q.kind # "redeem" => RedeemsOf(c)' = RedeemsOf(c)
    BY <1>1, EndCounts DEF ViewTypeOK
  <2>3. Held' = Held /\ Owned' = Owned /\ Spoilt' = Spoilt \cup {q.kind}
    BY <1>1 DEF Held, Owned, Spoilt
  <2>4. /\ redeemed \in Nat /\ used \in Nat /\ Held \in Nat /\ Owned \in Nat
        /\ Lag \in Int /\ Gap \in Int
    BY BookTypes
  <2>5. /\ Lag' \in Int /\ Lag' >= Lag /\ (q.kind = "redeem" => Lag' > Lag)
        /\ q.kind # "redeem" => Lag' = Lag
    BY <2>1, <2>4 DEF Lag
  <2>6. Gap' \in Int /\ Gap' >= Gap /\ (q.kind = "buy" => Gap' > Gap)
    BY <2>1, <2>3, <2>4 DEF Gap
  <2>7. q.kind \notin {"buy", "redeem"} => \A c \in Buyers : Even(c) => Even(c)'
    BY <2>2 DEF Even
  <2> QED
    BY <2>3, <2>4, <2>5, <2>6, <2>7, BooksMove DEF MarketInv
<1> QED
  BY <1>3, <1>5, <1>6 DEF MarketInv


\* The codes of a new listing.
LEMMA MakeWritten ==
  ASSUME ViewTypeOK, MarketInv, NEW w \in Writers, writer[w].kind \in Making,
         WriteOwn(writer[w]),
         writer' = [writer EXCEPT ![w] = Idle], UNCHANGED <<onChain, closedFor, lost, shared>>
  PROVE  /\ MarketInv' /\ stock' \in Nat /\ used' \in Nat
         /\ unsold' \in [Listings -> Nat] /\ sold' \in [Listings -> Nat]
         /\ unused' \in [Buyers -> Nat]
<1> USE DEF onChain
<1>1. PICK q \in Changers : q = writer[w]
  BY DEF ViewTypeOK
<1>2. PICK l : l = q.listing
  OBVIOUS
<1>3. /\ Sent(w) /\ Made(w) /\ q.kind \in {"offer", "list"} /\ q.n \in Nat
  BY <1>1 DEF MarketInv, Making, Changers
<1>4. l \in listed /\ l \in Listings
  BY <1>1, <1>2, <1>3 DEF Sent, Kinds, ViewTypeOK
<1>5. /\ unsold[l] = 0 /\ sold[l] = 0 /\ left[l] + Cardinality(Sales(l)) <= q.n
      /\ Spoilt = {} => left[l] + Cardinality(Sales(l)) = q.n
      /\ Spoilt' = Spoilt
  BY <1>1, <1>2, <1>3 DEF Made, Making, Spoilt
<1>6. /\ unsold' = [unsold EXCEPT ![l] = q.n]
      /\ q.kind = "offer" => stock' = stock
      /\ q.kind = "list" => stock' = stock - q.n
      /\ UNCHANGED <<sold, unused, used>>
  BY <1>1, <1>2, <1>3 DEF WriteOwn
<1>7. stock' \in Nat /\ unsold' \in [Listings -> Nat]
  <2>1. stock \in Nat
    BY DEF ViewTypeOK
  <2>2. q.kind = "list" => stock >= q.n
    BY <1>1, <1>3 DEF Sent
  <2>3. stock' \in Nat
    BY <1>3, <1>6, <2>1, <2>2
  <2> QED
    BY <1>3, <1>6, <2>3 DEF ViewTypeOK
<1>8. unsold'[l] = q.n /\ \A m \in Listings : m # l => unsold'[m] = unsold[m]
  BY <1>4, <1>6 DEF ViewTypeOK
<1>9. \A v \in Writers : /\ v # w /\ writer[v].kind \in Making \cup {"delist"}
                              => writer[v].listing # l /\ writer[v].listing \in Listings
                         /\ v # w => ~(writer[v].kind = "list" /\ q.kind = "list")
  <2> SUFFICES ASSUME NEW v \in Writers, v # w
               PROVE  /\ writer[v].kind \in Making \cup {"delist"}
                           => writer[v].listing # l /\ writer[v].listing \in Listings
                      /\ ~(writer[v].kind = "list" /\ q.kind = "list")
    OBVIOUS
  <2>1. Alone(w, v) /\ Sent(v)
    BY DEF MarketInv
  <2>2. writer[v].kind \in Making \cup {"delist"} => writer[v].listing \in Listings
    BY <2>1 DEF Sent, Making, Kinds, ViewTypeOK
  <2> QED
    BY <1>1, <1>2, <2>1, <2>2 DEF Alone, Making
<1>11. /\ \A m \in Listings : Sales(m)' = Sales(m)
       /\ \A c \in Buyers : BuysOf(c)' = BuysOf(c) /\ RedeemsOf(c)' = RedeemsOf(c)
       /\ RedeemsDue' = RedeemsDue /\ BuysDue' = BuysDue
  BY <1>1, <1>3, EndCounts DEF ViewTypeOK
<1>10. \A v \in Writers : Sent(v)' /\ Made(v)'
  <2> SUFFICES ASSUME NEW v \in Writers, v # w PROVE Sent(v)' /\ Made(v)'
    BY EndShape
  <2>1. writer[v].kind = "list" => stock' >= writer[v].n
    <3>1. Sent(v)
      BY DEF MarketInv
    <3> QED
      BY <1>3, <1>6, <1>9, <3>1 DEF Sent
  <2>2. writer[v].kind \in Making \cup {"delist"} =>
          /\ left'[writer[v].listing] = left[writer[v].listing]
          /\ unsold'[writer[v].listing] = unsold[writer[v].listing]
          /\ sold'[writer[v].listing] = sold[writer[v].listing]
          /\ Sales(writer[v].listing)' = Sales(writer[v].listing) /\ Spoilt' = Spoilt
    BY <1>5, <1>6, <1>8, <1>9, <1>11
  <2> QED
    BY <2>1, <2>2, EndShape
<1>12. Cardinality(Sales(l)) \in Nat /\ left[l] \in Nat /\ Cardinality(Sales(l)') \in Nat
  BY <1>4, SalesCounted DEF ViewTypeOK
<1>13. \A m \in Listings : Stocked(m)' /\ Enough(m)' /\ (Spoilt = {} => Matched(m)')
  <2> SUFFICES ASSUME NEW m \in Listings
               PROVE  Stocked(m)' /\ Enough(m)' /\ (Spoilt = {} => Matched(m)')
    OBVIOUS
  <2>1. CASE m = l
    <3>1. unsold'[l] >= left[l] + Cardinality(Sales(l)')
      BY <1>3, <1>4, <1>5, <1>8, <1>11, <1>12
    <3>2. Enough(l)'
      BY <3>1 DEF Enough
    <3>3. Stocked(l)'
      BY <1>4 DEF MarketInv, Stocked, Open
    <3>4. Spoilt = {} => unsold'[l] = left[l] + Cardinality(Sales(l)')
      BY <1>4, <1>5, <1>8, <1>11
    <3>5. Spoilt = {} => Matched(l)'
      BY <3>4 DEF Matched
    <3> QED
      BY <2>1, <3>2, <3>3, <3>5
  <2>2. CASE m # l
    <3>1. \A v \in Writers :
              /\ writer[v].kind \in Making \cup {"delist"} /\ writer[v].listing = m
              => /\ writer'[v].kind = writer[v].kind /\ writer'[v].listing = m
      BY <1>1, <1>2, <2>2, EndShape
    <3> QED
      BY <1>6, <1>8, <1>11, <2>2, <3>1, ListingStays DEF MarketInv
  <2> QED
    BY <2>1, <2>2
<1>14. Books'
  BY <1>6, <1>11, BooksStay
<1>15. \A u, v \in Writers : Alone(u, v)'
  BY EndShape
<1>16. MarketInv'
  BY <1>5, <1>10, <1>13, <1>14, <1>15 DEF MarketInv
<1> QED
  BY <1>6, <1>7, <1>16 DEF ViewTypeOK

\* The code of a sale.
LEMMA SaleWritten ==
  ASSUME ViewTypeOK, MarketInv, NEW w \in Writers, writer[w].kind \in {"trade", "buy"},
         WriteOwn(writer[w]), writer' = [writer EXCEPT ![w] = Idle],
         UNCHANGED <<onChain, closedFor, lost, shared>>
  PROVE  /\ MarketInv' /\ stock' \in Nat /\ used' \in Nat
         /\ unsold' \in [Listings -> Nat] /\ sold' \in [Listings -> Nat]
         /\ unused' \in [Buyers -> Nat]
<1> USE DEF onChain
<1>1. PICK q \in Changers : q = writer[w]
  BY DEF ViewTypeOK
<1>2. PICK l, k : l = q.listing /\ k = q.by
  OBVIOUS
<1>3. Sent(w) /\ q.kind \in {"trade", "buy"}
  BY <1>1 DEF MarketInv
<1>4. /\ l \in listed /\ l \in Listings /\ (q.kind = "trade" => l \in ThbListings)
      /\ q.kind = "buy" => l \notin ThbListings /\ k \in Buyers
  BY <1>1, <1>2, <1>3 DEF Sent, Kinds, ViewTypeOK
<1>5. /\ \A m \in Listings :
           /\ Cardinality(Sales(m)') \in Nat
           /\ m = l => Cardinality(Sales(m)) = Cardinality(Sales(m)') + 1
           /\ m # l => Sales(m)' = Sales(m)
  BY <1>1, <1>2, <1>3, EndCounts DEF ViewTypeOK
<1>6. /\ \A c \in Buyers : /\ RedeemsOf(c)' = RedeemsOf(c)
                           /\ Cardinality(BuysOf(c)') \in Nat
                           /\ Cardinality(RedeemsOf(c)') \in Nat
                           /\ ~(q.kind = "buy" /\ c = k) => BuysOf(c)' = BuysOf(c)
                           /\ q.kind = "buy" /\ c = k =>
                                Cardinality(BuysOf(c)) = Cardinality(BuysOf(c)') + 1
  BY <1>1, <1>2, <1>3, EndCounts DEF ViewTypeOK
<1>7. /\ RedeemsDue' = RedeemsDue /\ Cardinality(BuysDue') \in Nat
      /\ q.kind = "buy" => Cardinality(BuysDue) = Cardinality(BuysDue') + 1
      /\ q.kind # "buy" => BuysDue' = BuysDue
  BY <1>1, <1>3, EndCounts DEF ViewTypeOK
<1>8. unsold[l] \in Nat /\ sold[l] \in Nat /\ stock \in Nat /\ used \in Nat
      /\ \A c \in Buyers : unused[c] \in Nat /\ coins[c] \in Nat
  BY <1>4 DEF ViewTypeOK
<1>9. /\ Cardinality(Sales(l)) \in Nat /\ left[l] \in Nat
      /\ Spoilt' = Spoilt /\ \A m : HasCodes(m)' <=> HasCodes(m)
  BY <1>4, SalesCounted DEF ViewTypeOK, Spoilt, HasCodes
<1>10. /\ unsold[l] > 0 => unsold' = [unsold EXCEPT ![l] = unsold[l] - 1]
       /\ ~(unsold[l] > 0) => unsold' = unsold /\ sold' = sold
       /\ sold' = sold \/ sold' = [sold EXCEPT ![l] = sold[l] + 1]
       /\ q.kind = "trade" => stock' = stock + 1 /\ unused' = unused
       /\ q.kind = "buy" => stock' = stock /\ unused' = [unused EXCEPT ![k] = unused[k] + 1]
       /\ used' = used
  <2>1. CASE q.kind = "trade"
    BY <1>1, <1>2, <2>1 DEF WriteOwn
  <2>2. CASE q.kind = "buy"
    <3>1. \/ unsold[l] > 0 /\ unsold' = [unsold EXCEPT ![l] = unsold[l] - 1]
             /\ sold' = [sold EXCEPT ![l] = sold[l] + 1]
          \/ unsold[l] + sold[l] = 0 /\ UNCHANGED <<unsold, sold>>
      BY <1>1, <1>2, <2>2 DEF WriteOwn
    <3>2. unused' = [unused EXCEPT ![k] = unused[k] + 1] /\ UNCHANGED <<stock, used>>
      BY <1>1, <1>2, <2>2 DEF WriteOwn
    <3>3. unsold[l] + sold[l] = 0 => ~(unsold[l] > 0)
      BY <1>8
    <3> QED
      BY <2>2, <3>1, <3>2, <3>3
  <2> QED
    BY <1>3, <2>1, <2>2
<1>11. /\ stock' \in Nat /\ stock' >= stock /\ used' \in Nat
       /\ unused' \in [Buyers -> Nat] /\ sold' \in [Listings -> Nat]
  <2>1. stock' \in Nat /\ stock' >= stock /\ used' \in Nat
    BY <1>3, <1>8, <1>10
  <2>2. unused' \in [Buyers -> Nat]
    BY <1>3, <1>4, <1>8, <1>10 DEF ViewTypeOK
  <2>3. sold' \in [Listings -> Nat]
    BY <1>4, <1>8, <1>10 DEF ViewTypeOK
  <2> QED
    BY <2>1, <2>2, <2>3
<1>12. unsold' \in [Listings -> Nat]
  <2>1. unsold[l] > 0 => unsold[l] - 1 \in Nat
    BY <1>8
  <2> QED
    BY <1>10, <2>1 DEF ViewTypeOK
<1>13. /\ unsold[l] > 0 => unsold'[l] = unsold[l] - 1
       /\ ~(unsold[l] > 0) => unsold'[l] = unsold[l]
       /\ \A m \in Listings : m # l => unsold'[m] = unsold[m] /\ sold'[m] = sold[m]
  BY <1>4, <1>10 DEF ViewTypeOK
<1>14. \A v \in Writers :
          /\ writer[v].kind \in Making \cup {"delist"} => writer[v].listing \in Listings /\ v # w
          /\ writer[v].kind \in Making => writer[v].listing # l
  <2> SUFFICES ASSUME NEW v \in Writers, writer[v].kind \in Making \cup {"delist"}
               PROVE /\ writer[v].listing \in Listings /\ v # w
                     /\ writer[v].kind \in Making => writer[v].listing # l
    OBVIOUS
  <2>1. Alone(v, w) /\ Sent(v) /\ Made(v)
    BY DEF MarketInv
  <2>2. writer[v].listing \in Listings
    BY <2>1 DEF Sent, Making, Kinds, ViewTypeOK
  <2>3. v # w
    BY <1>1, <1>3 DEF Making
  <2>4. q.kind = "trade" => unsold[l] > 0
    BY <1>1, <1>2 DEF WriteOwn
  <2>5. ASSUME writer[v].kind \in Making, writer[v].listing = l PROVE FALSE
    <3>1. unsold[l] = 0
      BY <2>1, <2>5 DEF Made
    <3>2. q.kind = "buy" /\ l \notin ThbListings
      BY <1>3, <1>4, <2>4, <3>1
    <3>3. writer[v].kind = "list"
      BY <2>1, <2>5, <3>2 DEF Sent, Making
    <3> QED
      BY <1>1, <1>2, <2>1, <2>3, <2>5, <3>2, <3>3 DEF Alone
  <2> QED
    BY <2>2, <2>3, <2>5
<1>15. \A v \in Writers : Sent(v)' /\ Made(v)'
  <2> SUFFICES ASSUME NEW v \in Writers, v # w PROVE Sent(v)' /\ Made(v)'
    BY EndShape
  <2>1. Sent(v) /\ Made(v) /\ writer'[v] = writer[v] /\ writer[v].n \in Nat
    BY EndShape DEF MarketInv, ViewTypeOK, Changers
  <2>2. writer[v].kind = "list" => stock' >= writer[v].n
    BY <1>8, <1>11, <2>1 DEF Sent
  <2>3. Sent(v)'
    BY <2>2, EndShape
  <2>4. Made(v)'
    <3>1. CASE writer[v].kind \in Making
      <4>1. writer[v].listing # l /\ writer[v].listing \in Listings
        BY <1>14, <3>1
      <4> QED
        BY <1>5, <1>9, <1>13, <2>1, <4>1 DEF Made
    <3>2. CASE writer[v].kind \notin Making
      BY <2>1, <3>2 DEF Made
    <3> QED
      BY <3>1, <3>2
  <2> QED
    BY <2>3, <2>4
<1>16. \A m \in Listings : Stocked(m)' /\ Enough(m)' /\ (Matched(m) => Matched(m)')
  <2> SUFFICES ASSUME NEW m \in Listings
               PROVE  Stocked(m)' /\ Enough(m)' /\ (Matched(m) => Matched(m)')
    OBVIOUS
  <2>0. \A v \in Writers :
              /\ writer[v].kind \in Making \cup {"delist"} /\ writer[v].listing = m
              => /\ writer'[v].kind = writer[v].kind /\ writer'[v].listing = m
    BY <1>14, EndShape
  <2>1. CASE m = l
    <3>1. Stocked(l)'
      BY <1>4 DEF MarketInv, Stocked, Open
    <3>2. unsold[l] >= left[l] + Cardinality(Sales(l)) =>
            unsold'[l] >= left[l] + Cardinality(Sales(l)')
      BY <1>4, <1>5, <1>8, <1>9, <1>13
    <3>3. Enough(l)'
      <4>1. Enough(l)
        BY <1>4 DEF MarketInv
      <4> QED
        BY <1>9, <2>0, <2>1, <3>2, <4>1 DEF Enough
    <3>4. unsold[l] = left[l] + Cardinality(Sales(l)) =>
            unsold'[l] = left[l] + Cardinality(Sales(l)')
      BY <1>4, <1>5, <1>8, <1>9, <1>13
    <3>5. unsold[l] = 0 => unsold'[l] = 0
      BY <1>13
    <3>6. Matched(l) => Matched(l)'
      BY <2>0, <2>1, <3>4, <3>5 DEF Matched
    <3> QED
      BY <2>1, <3>1, <3>3, <3>6
  <2>2. CASE m # l
    BY <1>5, <1>13, <2>0, <2>2, ListingStays
  <2> QED
    BY <2>1, <2>2
<1>17. Books'
  <2>1. CASE q.kind = "trade"
    <3>1. /\ \A c \in Buyers : BuysOf(c)' = BuysOf(c) /\ RedeemsOf(c)' = RedeemsOf(c)
          /\ BuysDue' = BuysDue /\ UNCHANGED <<unused, used>>
      BY <1>6, <1>7, <1>10, <2>1
    <3> QED
      BY <1>7, <3>1, BooksStay
  <2>2. CASE q.kind = "buy"
    <3>1. /\ k \in Buyers /\ unused \in [Buyers -> Nat] /\ unused' \in [Buyers -> Nat]
          /\ unused'[k] = unused[k] + 1
          /\ \A j \in Buyers : j # k => unused'[j] = unused[j]
      BY <1>4, <1>10, <1>11, <2>2 DEF ViewTypeOK
    <3>2. Owned' = Owned + 1
      BY <1>8, <3>1, HeldMoves DEF Owned
    <3>3. Held' = Held
      BY DEF Held
    <3>4. /\ redeemed \in Nat /\ used \in Nat /\ Held \in Nat /\ Owned \in Nat
          /\ Cardinality(RedeemsDue) \in Nat /\ Lag \in Int /\ Gap \in Int
      BY BookTypes
    <3>5. Lag' = Lag
      BY <1>7, <1>10 DEF Lag
    <3>6. Gap' = Gap
      BY <1>7, <1>10, <2>2, <3>2, <3>3, <3>4 DEF Gap
    <3>7. \A j \in Buyers : Even(j) => Even(j)'
      <4> SUFFICES ASSUME NEW j \in Buyers, Even(j) PROVE Even(j)'
        OBVIOUS
      <4>1. CASE j = k
        BY <1>6, <1>8, <2>2, <3>1, <4>1 DEF Even
      <4>2. CASE j # k
        BY <1>6, <3>1, <4>2 DEF Even
      <4> QED
        BY <4>1, <4>2
    <3> QED
      BY <1>9, <3>4, <3>5, <3>6, <3>7, BooksMove DEF MarketInv
  <2> QED
    BY <1>3, <2>1, <2>2
<1>18. Spoilt' = {} => \A m \in Listings : Matched(m)'
  BY <1>9, <1>16 DEF MarketInv
<1>19. \A u, v \in Writers : Alone(u, v)'
  BY EndShape
<1>20. MarketInv'
  BY <1>15, <1>16, <1>17, <1>18, <1>19 DEF MarketInv
<1> QED
  BY <1>11, <1>12, <1>20

\* The codes of a listing that was withdrawn.
LEMMA DelistWritten ==
  ASSUME ViewTypeOK, MarketInv, NEW w \in Writers, writer[w].kind = "delist",
         WriteOwn(writer[w]),
         writer' = [writer EXCEPT ![w] = Idle], UNCHANGED <<onChain, closedFor, lost, shared>>
  PROVE  /\ MarketInv' /\ stock' \in Nat /\ used' \in Nat
         /\ unsold' \in [Listings -> Nat] /\ sold' \in [Listings -> Nat]
         /\ unused' \in [Buyers -> Nat]
<1> USE DEF onChain
<1>1. PICK q \in Changers : q = writer[w]
  BY DEF ViewTypeOK
<1>2. PICK l : l = q.listing
  OBVIOUS
<1>3. Sent(w) /\ Made(w) /\ q.kind = "delist"
  BY <1>1 DEF MarketInv
<1>4. l \in listed /\ l \in Listings /\ l \notin ThbListings /\ left[l] = 0
  BY <1>1, <1>2, <1>3 DEF Sent, Made, Kinds, ViewTypeOK
<1>5. /\ unsold' = [unsold EXCEPT ![l] = 0] /\ sold' = [sold EXCEPT ![l] = 0]
      /\ UNCHANGED <<stock, unused, used>>
  BY <1>1, <1>2, <1>3 DEF WriteOwn
<1>6. /\ stock' \in Nat /\ used' \in Nat /\ unsold' \in [Listings -> Nat]
      /\ sold' \in [Listings -> Nat] /\ unused' \in [Buyers -> Nat]
  BY <1>5 DEF ViewTypeOK
<1>7. /\ unsold'[l] = 0 /\ sold'[l] = 0
      /\ \A m \in Listings : m # l => unsold'[m] = unsold[m] /\ sold'[m] = sold[m]
  BY <1>4, <1>5 DEF ViewTypeOK
<1>8. \A v \in Writers : v # w /\ writer[v].kind \in Making \cup {"delist"} =>
                           writer[v].listing # l /\ writer[v].listing \in Listings
  <2> SUFFICES ASSUME NEW v \in Writers, v # w, writer[v].kind \in Making \cup {"delist"}
               PROVE  writer[v].listing # l /\ writer[v].listing \in Listings
    OBVIOUS
  <2>1. Alone(w, v) /\ Sent(v)
    BY DEF MarketInv
  <2>2. writer[v].listing \in Listings
    BY <2>1 DEF Sent, Making, Kinds, ViewTypeOK
  <2> QED
    BY <1>1, <1>2, <1>3, <2>1, <2>2 DEF Alone, Making
<1>10. /\ \A m \in Listings : Sales(m)' = Sales(m)
       /\ \A c \in Buyers : BuysOf(c)' = BuysOf(c) /\ RedeemsOf(c)' = RedeemsOf(c)
       /\ RedeemsDue' = RedeemsDue /\ BuysDue' = BuysDue
  BY <1>1, <1>3, EndCounts DEF ViewTypeOK
<1>9. \A v \in Writers : Sent(v)' /\ Made(v)'
  <2> SUFFICES ASSUME NEW v \in Writers, v # w PROVE Sent(v)' /\ Made(v)'
    BY EndShape
  <2>1. writer[v].kind = "list" => stock' >= writer[v].n
    BY <1>5 DEF MarketInv, Sent
  <2>2. writer[v].kind \in Making \cup {"delist"} =>
          /\ left'[writer[v].listing] = left[writer[v].listing]
          /\ unsold'[writer[v].listing] = unsold[writer[v].listing]
          /\ sold'[writer[v].listing] = sold[writer[v].listing]
          /\ Sales(writer[v].listing)' = Sales(writer[v].listing) /\ Spoilt' = Spoilt
    BY <1>7, <1>8, <1>10 DEF Spoilt
  <2> QED
    BY <2>1, <2>2, EndShape
<1>11. \A m \in Listings : Stocked(m)' /\ Enough(m)' /\ (Matched(m) => Matched(m)')
  <2> SUFFICES ASSUME NEW m \in Listings
               PROVE  Stocked(m)' /\ Enough(m)' /\ (Matched(m) => Matched(m)')
    OBVIOUS
  <2>1. CASE m = l
    <3>1. Matched(l)' /\ Enough(l)'
      BY <1>4, <1>7 DEF Matched, Enough
    <3>2. Stocked(l)'
      BY <1>4 DEF MarketInv, Stocked, Open
    <3> QED
      BY <2>1, <3>1, <3>2
  <2>2. CASE m # l
    <3>1. \A v \in Writers :
              /\ writer[v].kind \in Making \cup {"delist"} /\ writer[v].listing = m
              => /\ writer'[v].kind = writer[v].kind /\ writer'[v].listing = m
      BY <1>1, <1>2, <2>2, EndShape
    <3> QED
      BY <1>7, <1>10, <2>2, <3>1, ListingStays
  <2> QED
    BY <2>1, <2>2
<1>12. Books'
  BY <1>5, <1>10, BooksStay
<1>13. \A u, v \in Writers : Alone(u, v)'
  BY EndShape
<1>14. Spoilt' = {} => \A m \in Listings : Matched(m)'
  BY <1>11 DEF MarketInv, Spoilt
<1>15. MarketInv'
  BY <1>9, <1>11, <1>12, <1>13, <1>14 DEF MarketInv
<1> QED
  BY <1>6, <1>15

\* The code of a redemption.
LEMMA RedeemWritten ==
  ASSUME ViewTypeOK, MarketInv, NEW w \in Writers, writer[w].kind = "redeem",
         WriteOwn(writer[w]),
         writer' = [writer EXCEPT ![w] = Idle], UNCHANGED <<onChain, closedFor, lost, shared>>
  PROVE  /\ MarketInv' /\ stock' \in Nat /\ used' \in Nat
         /\ unsold' \in [Listings -> Nat] /\ sold' \in [Listings -> Nat]
         /\ unused' \in [Buyers -> Nat]
<1> USE DEF onChain
<1>1. PICK q \in Changers : q = writer[w]
  BY DEF ViewTypeOK
<1>2. PICK k : k = q.by
  OBVIOUS
<1>3. Sent(w) /\ q.kind = "redeem" /\ k \in Buyers
  BY <1>1, <1>2 DEF MarketInv, Sent
<1>4. /\ unused[k] > 0
      /\ unused' = [unused EXCEPT ![k] = unused[k] - 1] /\ used' = used + 1
      /\ UNCHANGED <<stock, unsold, sold>>
  BY <1>1, <1>2, <1>3 DEF WriteOwn
<1>5. /\ \A m \in Listings : Sales(m)' = Sales(m)
      /\ \A c \in Buyers : /\ BuysOf(c)' = BuysOf(c)
                           /\ Cardinality(BuysOf(c)') \in Nat
                           /\ Cardinality(RedeemsOf(c)') \in Nat
                           /\ c # k => RedeemsOf(c)' = RedeemsOf(c)
                           /\ c = k => Cardinality(RedeemsOf(c)) =
                                         Cardinality(RedeemsOf(c)') + 1
  BY <1>1, <1>2, <1>3, EndCounts DEF ViewTypeOK
<1>6. /\ Cardinality(RedeemsDue') \in Nat
      /\ Cardinality(RedeemsDue) = Cardinality(RedeemsDue') + 1
      /\ BuysDue' = BuysDue
  BY <1>1, <1>3, EndCounts DEF ViewTypeOK
<1>7. /\ used \in Nat /\ redeemed \in Nat
      /\ \A c \in Buyers : unused[c] \in Nat /\ coins[c] \in Nat
  BY DEF ViewTypeOK
<1>9. unused[k] - 1 \in Nat
  BY <1>3, <1>4, <1>7
<1>10. /\ unused'[k] = unused[k] - 1
       /\ \A c \in Buyers : c # k => unused'[c] = unused[c]
  BY <1>3, <1>4 DEF ViewTypeOK
<1>11. /\ stock' \in Nat /\ used' \in Nat /\ unsold' \in [Listings -> Nat]
       /\ sold' \in [Listings -> Nat]
  BY <1>4 DEF ViewTypeOK
<1>12. unused' \in [Buyers -> Nat]
  BY <1>3, <1>4, <1>9 DEF ViewTypeOK
<1>13. \A v \in Writers : Sent(v)' /\ Made(v)'
  <2> SUFFICES ASSUME NEW v \in Writers, v # w PROVE Sent(v)' /\ Made(v)'
    BY EndShape
  <2>1. writer[v].kind = "list" => stock' >= writer[v].n
    BY <1>4 DEF MarketInv, Sent
  <2>2. Sent(v)
    BY DEF MarketInv
  <2>3. writer[v].kind \in Making \cup {"delist"} =>
          Sales(writer[v].listing)' = Sales(writer[v].listing) /\ Spoilt' = Spoilt
    BY <1>5, <2>2 DEF Sent, Making, Kinds, ViewTypeOK, Spoilt
  <2> QED
    BY <1>4, <2>1, <2>3, EndShape
<1>14. \A m \in Listings : Stocked(m)' /\ Enough(m)' /\ (Matched(m) => Matched(m)')
  <2> SUFFICES ASSUME NEW m \in Listings
               PROVE  Stocked(m)' /\ Enough(m)' /\ (Matched(m) => Matched(m)')
    OBVIOUS
  <2>1. \A v \in Writers :
              /\ writer[v].kind \in Making \cup {"delist"} /\ writer[v].listing = m
              => /\ writer'[v].kind = writer[v].kind /\ writer'[v].listing = m
    BY <1>1, <1>3, EndShape DEF Making
  <2> QED
    BY <1>4, <1>5, <2>1, ListingStays
<1>15. Books'
  <2>1. k \in Buyers /\ unused \in [Buyers -> Nat]
    BY <1>3 DEF ViewTypeOK
  <2>2. Owned = Owned' + 1 /\ Owned' \in Nat
    BY <1>7, <1>10, <1>12, <2>1, HeldMoves DEF Owned
  <2>3. Held' = Held /\ Spoilt' = Spoilt
    BY DEF Held, Spoilt
  <2>4. /\ Held \in Nat /\ Owned \in Nat /\ Cardinality(BuysDue) \in Nat
        /\ Lag \in Int /\ Gap \in Int
    BY BookTypes
  <2>5. Lag' = Lag
    BY <1>4, <1>6, <1>7 DEF Lag
  <2>6. Gap' = Gap
    <3>1. /\ redeemed' = redeemed /\ used' = used + 1 /\ used \in Nat /\ redeemed \in Nat
          /\ Cardinality(BuysDue') = Cardinality(BuysDue)
      BY <1>4, <1>6, <1>7
    <3> QED
      BY <2>2, <2>3, <2>4, <3>1 DEF Gap
  <2>7. \A j \in Buyers : Even(j) => Even(j)'
    <3> SUFFICES ASSUME NEW j \in Buyers, Even(j) PROVE Even(j)'
      OBVIOUS
    <3>1. CASE j = k
      BY <1>5, <1>7, <1>10, <3>1 DEF Even
    <3>2. CASE j # k
      BY <1>5, <1>10, <3>2 DEF Even
    <3> QED
      BY <3>1, <3>2
  <2> QED
    BY <2>3, <2>4, <2>5, <2>6, <2>7, BooksMove DEF MarketInv
<1>16. Spoilt' = {} => \A m \in Listings : Matched(m)'
  BY <1>14 DEF MarketInv, Spoilt
<1>17. \A u, v \in Writers : Alone(u, v)'
  BY EndShape
<1>18. MarketInv'
  BY <1>13, <1>14, <1>15, <1>16, <1>17 DEF MarketInv
<1> QED
  BY <1>11, <1>12, <1>18

\* What a request writes that has the code of another.
LEMMA SharedTypes ==
  ASSUME ViewTypeOK, MarketInv, NEW w \in Writers, NEW q \in Changers, q = writer[w],
         WriteShared(q)
  PROVE  /\ q.kind \in {"trade", "buy", "redeem"}
         /\ stock' \in Nat /\ stock' >= stock /\ used' \in Nat /\ UNCHANGED sold
         /\ unsold' \in [Listings -> Nat] /\ unused' \in [Buyers -> Nat]
         /\ \/ UNCHANGED unsold
            \/ /\ q.kind = "trade"
               /\ \E m \in Listings \ ThbListings :
                    unsold[m] > 0 /\ unsold' = [unsold EXCEPT ![m] = unsold[m] - 1]
         /\ q.kind = "trade" => UNCHANGED <<used, unused>>
         /\ q.kind = "buy" => used' = used /\ Owned' = Owned
         /\ q.kind = "redeem" => \/ UNCHANGED <<used, unused>>
                                 \/ /\ "buy" \in shared /\ used' = used + 1
                                    /\ Owned = Owned' + 1
<1>1. /\ stock \in Nat /\ used \in Nat /\ unsold \in [Listings -> Nat]
      /\ unused \in [Buyers -> Nat] /\ \A k \in Buyers : unused[k] \in Nat
  BY DEF ViewTypeOK
<1>2. Owned \in Nat
  BY HoldingTypes
<1>3. CASE /\ q.kind \in {"trade", "buy", "redeem"} /\ UNCHANGED rows
  BY <1>1, <1>3 DEF rows, Owned
<1>4. CASE /\ q.kind = "trade" /\ stock' = stock + 1 /\ UNCHANGED <<sold, unused, used>>
           /\ \E m \in Listings \ ThbListings :
                unsold[m] > 0 /\ unsold' = [unsold EXCEPT ![m] = unsold[m] - 1]
  <2>1. PICK m \in Listings \ ThbListings :
          unsold[m] > 0 /\ unsold' = [unsold EXCEPT ![m] = unsold[m] - 1]
    BY <1>4
  <2>2. unsold[m] - 1 \in Nat
    BY <1>1, <2>1
  <2>3. unsold' \in [Listings -> Nat]
    BY <1>1, <2>1, <2>2
  <2>4. stock' \in Nat /\ stock' >= stock
    BY <1>1, <1>4
  <2> QED
    BY <1>1, <1>4, <2>3, <2>4
<1>5. CASE /\ q.kind = "buy" /\ UNCHANGED <<stock, unsold, sold, used>>
           /\ \E j \in Buyers :
                /\ unused[j] > 0
                /\ unused' = [[unused EXCEPT ![j] = @ - 1] EXCEPT ![q.by] = @ + 1]
  <2>1. PICK j \in Buyers :
                /\ unused[j] > 0
                /\ unused' = [[unused EXCEPT ![j] = @ - 1] EXCEPT ![q.by] = @ + 1]
    BY <1>5
  <2>2. PICK k \in Buyers : k = q.by
    BY <1>5 DEF MarketInv, Sent
  <2>3. PICK u : u = [unused EXCEPT ![j] = unused[j] - 1]
    OBVIOUS
  <2>4. unused[j] - 1 \in Nat
    BY <1>1, <2>1
  <2>5. /\ u \in [Buyers -> Nat] /\ u[j] = unused[j] - 1
        /\ \A i \in Buyers : i # j => u[i] = unused[i]
    BY <1>1, <2>3, <2>4
  <2>6. unused' = [u EXCEPT ![k] = u[k] + 1]
    BY <2>1, <2>2, <2>3
  <2>7. /\ unused' \in [Buyers -> Nat] /\ unused'[k] = u[k] + 1 /\ u[k] \in Nat
        /\ \A i \in Buyers : i # k => unused'[i] = u[i]
    BY <2>5, <2>6
  <2>8. Tally(u) + unused[j] = Owned + u[j] /\ Tally(u) \in Nat
    BY <1>1, <2>5, HeldMoves DEF Owned
  <2>9. Owned' + u[k] = Tally(u) + unused'[k] /\ Owned' \in Nat
    BY <2>5, <2>7, HeldMoves DEF Owned
  <2>10. Owned' = Owned
    BY <1>1, <1>2, <2>5, <2>7, <2>8, <2>9
  <2> QED
    BY <1>1, <1>5, <2>7, <2>10
<1>6. CASE /\ q.kind = "redeem" /\ "buy" \in shared /\ UNCHANGED <<stock, unsold, sold>>
           /\ used' = used + 1
           /\ \E j \in Buyers :
                unused[j] > 0 /\ unused' = [unused EXCEPT ![j] = unused[j] - 1]
  <2>1. PICK j \in Buyers : unused[j] > 0 /\ unused' = [unused EXCEPT ![j] = unused[j] - 1]
    BY <1>6
  <2>2. unused[j] - 1 \in Nat
    BY <1>1, <2>1
  <2>3. /\ unused' \in [Buyers -> Nat] /\ unused[j] = unused'[j] + 1
        /\ \A i \in Buyers : i # j => unused'[i] = unused[i]
    BY <1>1, <2>1, <2>2
  <2>4. Owned' + unused[j] = Owned + unused'[j] /\ Owned' \in Nat
    BY <1>1, <2>3, HeldMoves DEF Owned
  <2>5. PICK n \in Nat : n = unused'[j]
    BY <2>3
  <2>6. unused[j] = n + 1
    BY <2>3, <2>5
  <2>7. Owned' + (n + 1) = Owned + n
    BY <2>4, <2>5, <2>6
  <2>8. Owned = Owned' + 1
    <3>1. PICK a \in Nat, b \in Nat : a = Owned' /\ b = Owned
      BY <1>2, <2>4
    <3>2. a + (n + 1) = b + n
      BY <2>7, <3>1
    <3>3. b = a + 1
      BY <3>2
    <3> QED
      BY <3>1, <3>3
  <2> QED
    BY <1>1, <1>6, <2>3, <2>8
<1> QED
  BY <1>3, <1>4, <1>5, <1>6 DEF WriteShared

\* The record of a request is of the code of another.
LEMMA SharedWritten ==
  ASSUME ViewTypeOK, MarketInv, NEW w \in Writers, writer[w].place # "idle",
         WriteShared(writer[w]), shared' = shared \cup {writer[w].kind},
         writer' = [writer EXCEPT ![w] = Idle], UNCHANGED <<onChain, closedFor, lost>>
  PROVE  /\ MarketInv' /\ stock' \in Nat /\ used' \in Nat
         /\ unsold' \in [Listings -> Nat] /\ sold' \in [Listings -> Nat]
         /\ unused' \in [Buyers -> Nat] /\ shared' \subseteq Kinds
<1> USE DEF onChain
<1>1. PICK q \in Changers : q = writer[w]
  BY DEF ViewTypeOK
<1>2. q.kind \in {"trade", "buy", "redeem"}
  BY <1>1, SharedTypes
<1>3. /\ stock' \in Nat /\ stock' >= stock /\ used' \in Nat /\ UNCHANGED sold
      /\ unsold' \in [Listings -> Nat] /\ unused' \in [Buyers -> Nat]
      /\ \/ UNCHANGED unsold
         \/ /\ q.kind = "trade"
            /\ \E m \in Listings \ ThbListings :
                 unsold[m] > 0 /\ unsold' = [unsold EXCEPT ![m] = unsold[m] - 1]
  BY <1>1, SharedTypes
<1>4. /\ q.kind = "trade" => UNCHANGED <<used, unused>>
      /\ q.kind = "buy" => used' = used /\ Owned' = Owned
      /\ q.kind = "redeem" => \/ UNCHANGED <<used, unused>>
                              \/ /\ "buy" \in shared /\ used' = used + 1
                                 /\ Owned = Owned' + 1
  BY <1>1, SharedTypes
<1>5. shared' = shared \cup {q.kind} /\ shared' \subseteq Kinds /\ sold' \in [Listings -> Nat]
      /\ q.kind \notin Making
  BY <1>1, <1>2, <1>3 DEF ViewTypeOK, Kinds, Making
<1>6. /\ \A v \in Writers : Sent(v)' /\ Made(v)'
      /\ \A u, v \in Writers : Alone(u, v)'
      /\ \A l \in Listings : Stocked(l)' /\ Enough(l)'
      /\ Spoilt' # {}
  <2>1. \/ UNCHANGED unsold
        \/ /\ "trade" \in shared'
           /\ \E m \in Listings \ ThbListings :
                unsold[m] > 0 /\ unsold' = [unsold EXCEPT ![m] = unsold[m] - 1]
    BY <1>3, <1>5
  <2>2. /\ lost \subseteq lost' /\ shared \subseteq shared'
        /\ writer[w].kind \in lost' \cup shared' /\ writer[w].kind \notin Making
    BY <1>1, <1>5
  <2> QED
    BY <1>3, <2>1, <2>2, SpoiltListings
<1>7. Books'
  <2>1. /\ Cardinality(RedeemsDue') \in Nat /\ Cardinality(BuysDue') \in Nat
        /\ q.kind = "redeem" => Cardinality(RedeemsDue) = Cardinality(RedeemsDue') + 1
        /\ q.kind # "redeem" => RedeemsDue' = RedeemsDue
        /\ q.kind = "buy" => Cardinality(BuysDue) = Cardinality(BuysDue') + 1
        /\ q.kind # "buy" => BuysDue' = BuysDue
    BY <1>1, EndCounts DEF ViewTypeOK
  <2>2. q.kind = "trade" =>
          \A c \in Buyers : BuysOf(c)' = BuysOf(c) /\ RedeemsOf(c)' = RedeemsOf(c)
    BY <1>1, EndCounts DEF ViewTypeOK
  <2>3. Held' = Held /\ Spoilt' = Spoilt \cup {q.kind} /\ (UNCHANGED unused => Owned' = Owned)
    BY <1>5 DEF Held, Spoilt, Owned
  <2>4. /\ redeemed \in Nat /\ used \in Nat /\ Held \in Nat /\ Owned \in Nat
        /\ Cardinality(RedeemsDue) \in Nat /\ Cardinality(BuysDue) \in Nat
        /\ Lag \in Int /\ Gap \in Int
    BY BookTypes
  <2>5. CASE q.kind = "trade"
    <3>1. Lag' = Lag /\ Gap' = Gap
      BY <1>4, <2>1, <2>3, <2>5 DEF Lag, Gap
    <3>2. \A c \in Buyers : Even(c) => Even(c)'
      BY <1>4, <2>2, <2>5 DEF Even
    <3> QED
      BY <2>3, <2>4, <2>5, <3>1, <3>2, BooksMove DEF MarketInv
  <2>6. CASE q.kind = "buy"
    <3>1. Lag' = Lag
      BY <1>4, <2>1, <2>6 DEF Lag
    <3>2. Gap' \in Int /\ Gap' > Gap /\ Gap' >= Gap
      BY <1>4, <2>1, <2>3, <2>4, <2>6 DEF Gap
    <3> QED
      BY <2>3, <2>4, <2>6, <3>1, <3>2, BooksMove DEF MarketInv
  <2>7. CASE q.kind = "redeem" /\ UNCHANGED <<used, unused>>
    <3>1. Gap' = Gap
      BY <2>1, <2>3, <2>7 DEF Gap
    <3>2. Lag' \in Int /\ Lag' > Lag /\ Lag' >= Lag
      BY <2>1, <2>4, <2>7 DEF Lag
    <3> QED
      BY <2>3, <2>4, <2>7, <3>1, <3>2, BooksMove DEF MarketInv
  <2>8. CASE /\ q.kind = "redeem" /\ "buy" \in shared /\ used' = used + 1
             /\ Owned = Owned' + 1
    <3>1. Lag' = Lag
      BY <2>1, <2>4, <2>8 DEF Lag
    <3>2. Owned' \in Nat
      BY <1>3, FewOfEach, TallyType DEF Owned, Tallied
    <3>3. Gap' = Gap
      <4>1. /\ redeemed' = redeemed /\ used' = used + 1 /\ Owned = Owned' + 1
            /\ Held' = Held /\ Cardinality(BuysDue') = Cardinality(BuysDue)
        BY <2>1, <2>3, <2>8
      <4> QED
        BY <2>4, <3>2, <4>1 DEF Gap
    <3>4. "buy" \in Spoilt
      BY <2>8 DEF Spoilt
    <3> QED
      BY <2>3, <2>4, <2>8, <3>1, <3>3, <3>4, BooksMove DEF MarketInv
  <2> QED
    BY <1>2, <1>4, <2>5, <2>6, <2>7, <2>8
<1> QED
  BY <1>3, <1>5, <1>6, <1>7 DEF MarketInv

\* The change of one request is written, or not.
LEMMA RecordStep ==
  ASSUME ViewInv, NEW w \in Writers, RecordChange(w)
  PROVE  ViewInv'
<1> USE DEF onChain
<1>1. /\ ViewTypeOK /\ MarketInv /\ CacheCurrent /\ Aged
      /\ \A r \in Readers : LookInv(r)
  BY DEF ViewInv
<1>2. /\ writer[w].place = "record" /\ writer' = [writer EXCEPT ![w] = Idle] /\ Disturb
      /\ UNCHANGED <<onChain, cache, closedFor>>
  BY DEF RecordChange
<1>3. /\ MarketInv' /\ stock' \in Nat /\ used' \in Nat
      /\ unsold' \in [Listings -> Nat] /\ sold' \in [Listings -> Nat]
      /\ unused' \in [Buyers -> Nat] /\ lost' \subseteq Kinds /\ shared' \subseteq Kinds
      /\ (UNCHANGED raised \/ CallRaises)
  <2>1. CASE WriteOwn(writer[w]) /\ UNCHANGED <<lost, shared, raised>>
    <3>1. writer[w].kind \in Making \cup {"trade", "buy", "delist", "redeem"}
      BY <2>1 DEF WriteOwn, Making
    <3>2. /\ MarketInv' /\ stock' \in Nat /\ used' \in Nat
          /\ unsold' \in [Listings -> Nat] /\ sold' \in [Listings -> Nat]
          /\ unused' \in [Buyers -> Nat]
      BY <1>1, <1>2, <2>1, <3>1, MakeWritten, SaleWritten, DelistWritten, RedeemWritten
    <3> QED
      BY <1>1, <2>1, <3>2 DEF ViewTypeOK
  <2>2. CASE /\ WriteShared(writer[w]) /\ shared' = shared \cup {writer[w].kind}
             /\ UNCHANGED <<lost, raised>>
    BY <1>1, <1>2, <2>2, SharedWritten DEF ViewTypeOK
  <2>3. CASE /\ UNCHANGED raised \/ CallRaises
             /\ lost' = lost \cup {writer[w].kind} /\ UNCHANGED <<rows, shared>>
    <3>1. MarketInv' /\ lost' \subseteq Kinds
      BY <1>1, <1>2, <2>3, LostBooks
    <3> QED
      BY <1>1, <2>3, <3>1 DEF ViewTypeOK, rows
  <2> QED
    BY <2>1, <2>2, <2>3 DEF RecordChange
<1>4. writer' \in [Writers -> Changers] /\ \A v \in Writers : v # w => writer'[v] = writer[v]
  BY <1>1, <1>2, EndShape
<1>5. reader' \in [Readers -> Lookers] /\ \A r \in Readers : LookInv(r)'
  BY <1>1, <1>2, DisturbedReaders
<1>6. raised' \in 0 .. MaxRaises
  BY <1>1, <1>3, RaisedTypes
<1>7. ViewTypeOK'
  BY <1>1, <1>2, <1>3, <1>4, <1>5, <1>6 DEF ViewTypeOK, Open
<1>8. CacheCurrent' /\ Aged'
  <2>1. \A v \in Writers : writer[v].place = "mined" => writer'[v] = writer[v]
    BY <1>2, <1>4
  <2>2. CacheCurrent'
    BY <1>1, <1>2, <2>1 DEF CacheCurrent, Open
  <2>3. Aged'
    BY <1>1, <1>2 DEF Aged, Open
  <2> QED
    BY <2>2, <2>3
<1> QED
  BY <1>3, <1>5, <1>7, <1>8 DEF ViewInv

\* What a receipt does to the cache.
LEMMA ReceiptCache ==
  ASSUME ViewTypeOK, MarketInv, CacheCurrent, Aged, NEW w \in Writers,
         writer[w].place = "mined", NEW q, writer' = [writer EXCEPT ![w] = q],
         UNCHANGED <<onChain, closedFor>>,
         \/ Invalidate(w)
         \/ cache' = IF cache = Null THEN Null
                     ELSE [cache EXCEPT !.missed = @ \cup ({writer[w].listing} \ {Null})]
  PROVE  (cache' = Null \/ cache' \in Caches) /\ CacheCurrent' /\ Aged'
<1> USE DEF onChain
<1>1. PICK l : l = writer[w].listing
  OBVIOUS
<1>2. Sent(w)
  BY DEF MarketInv
<1>3. writer[w].kind = "redeem" => l = Null
  BY <1>1, <1>2 DEF Sent
<1>4. l = Null \/ l \in Listings
  BY <1>1 DEF ViewTypeOK, Changers
<1>5. writer[w].kind # "redeem" => l \in Listings
  BY <1>1, <1>2 DEF Sent, Kinds, ViewTypeOK
<1>6. Null \notin Listings
  BY NullIsNoOne
<1>7. CASE cache' = Null
  BY <1>7 DEF CacheCurrent, Aged
<1>8. CASE cache # Null /\ \E S \in SUBSET Listings :
             cache' = [cache EXCEPT !.missed = @ \cup S] /\ (l = Null \/ l \in S)
  <2>1. PICK S \in SUBSET Listings :
          cache' = [cache EXCEPT !.missed = @ \cup S] /\ (l = Null \/ l \in S)
    BY <1>8
  <2>2. cache \in Caches
    BY <1>8 DEF ViewTypeOK
  <2>3. /\ cache'.data = cache.data /\ cache'.age = cache.age /\ cache'.torn = cache.torn
        /\ cache'.missed = cache.missed \cup S
    BY <2>1, <2>2 DEF Caches
  <2>4. cache' \in Caches
    BY <2>1, <2>2 DEF Caches
  <2>5. cache' # Null => Aged'
    BY <1>8, <2>3 DEF Aged, Open
  <2>6. \A v \in Writers : v # w => writer'[v] = writer[v]
    BY DEF ViewTypeOK
  <2>7. ASSUME cache' # Null, ~cache'.torn, NEW m \in Listings
        PROVE  \/ m \in cache'.missed
               \/ \E v \in Writers : writer'[v].place = "mined" /\ writer'[v].listing = m
               \/ {p \in ToSet(cache'.data) : p.id = m \/ p.of = m} =
                    IF Open(m)' THEN {[id |-> m, of |-> m, left |-> left'[m]]} ELSE {}
    <3>1. \/ m \in cache.missed
          \/ \E v \in Writers : writer[v].place = "mined" /\ writer[v].listing = m
          \/ {p \in ToSet(cache.data) : p.id = m \/ p.of = m} =
               IF Open(m) THEN {[id |-> m, of |-> m, left |-> left[m]]} ELSE {}
      BY <1>8, <2>3, <2>7 DEF CacheCurrent
    <3>2. CASE m \in cache.missed
      BY <2>3, <3>2
    <3>3. CASE \E v \in Writers : writer[v].place = "mined" /\ writer[v].listing = m
      <4>1. PICK v \in Writers : writer[v].place = "mined" /\ writer[v].listing = m
        BY <3>3
      <4>2. CASE v = w
        BY <1>1, <1>6, <2>1, <2>3, <4>1, <4>2
      <4>3. CASE v # w
        BY <2>6, <4>1, <4>3
      <4> QED
        BY <4>2, <4>3
    <3>4. CASE {p \in ToSet(cache.data) : p.id = m \/ p.of = m} =
               IF Open(m) THEN {[id |-> m, of |-> m, left |-> left[m]]} ELSE {}
      BY <2>3, <3>4 DEF Open
    <3> QED
      BY <3>1, <3>2, <3>3, <3>4
  <2>8. CacheCurrent'
    BY <2>7 DEF CacheCurrent
  <2>9. Aged'
    BY <2>5 DEF Aged
  <2> QED
    BY <2>4, <2>8, <2>9
<1>9. cache' = Null \/ (cache # Null /\ \E S \in SUBSET Listings :
             cache' = [cache EXCEPT !.missed = @ \cup S] /\ (l = Null \/ l \in S))
  <2> SUFFICES ASSUME cache' # Null
               PROVE  cache # Null /\ \E S \in SUBSET Listings :
                        cache' = [cache EXCEPT !.missed = @ \cup S] /\ (l = Null \/ l \in S)
    OBVIOUS
  <2>1. cache # Null
    BY DEF Invalidate
  <2>2. cache \in Caches /\ cache = [cache EXCEPT !.missed = @ \cup {}]
    BY <2>1 DEF ViewTypeOK, Caches
  <2>3. CASE writer[w].kind = "redeem"
    <3>1. {writer[w].listing} \ {Null} = {}
      BY <1>1, <1>3, <2>3
    <3>2. cache' = [cache EXCEPT !.missed = @ \cup {}]
      <4>1. CASE Invalidate(w)
        <5>1. cache' = cache
          BY <2>3, <4>1 DEF Invalidate
        <5> QED
          BY <2>2, <5>1
      <4>2. CASE ~Invalidate(w)
        <5>1. cache' = [cache EXCEPT !.missed = @ \cup ({writer[w].listing} \ {Null})]
          BY <2>1, <4>2
        <5> QED
          BY <3>1, <5>1
      <4> QED
        BY <4>1, <4>2
    <3>3. l = Null /\ {} \in SUBSET Listings
      BY <1>1, <1>3, <2>3
    <3> QED
      BY <2>1, <3>2, <3>3
  <2>4. CASE writer[w].kind # "redeem"
    <3>1. l \in Listings /\ {writer[w].listing} \ {Null} = {l} /\ {writer[w].listing} = {l}
      BY <1>1, <1>5, <1>6, <2>4
    <3>2. cache' = [cache EXCEPT !.missed = @ \cup {l}]
      BY <2>1, <2>4, <3>1 DEF Invalidate
    <3>3. {l} \in SUBSET Listings /\ l \in {l}
      BY <3>1
    <3> QED
      BY <2>1, <3>2, <3>3
  <2> QED
    BY <2>3, <2>4
<1> QED
  BY <1>7, <1>8, <1>9

\* The receipt of a request arrives, or is lost.
LEMMA ReceiptStep ==
  ASSUME ViewInv, NEW w \in Writers, Receipt(w)
  PROVE  ViewInv'
<1> USE DEF onChain, rows
<1>1. /\ ViewTypeOK /\ MarketInv /\ CacheCurrent /\ Aged
      /\ \A r \in Readers : LookInv(r)
  BY DEF ViewInv
<1>2. /\ writer[w].place = "mined" /\ Disturb
      /\ UNCHANGED <<onChain, rows, closedFor, shared>>
  BY DEF Receipt
<1>3. /\ MarketInv' /\ writer' \in [Writers -> Changers] /\ lost' \subseteq Kinds
      /\ (UNCHANGED raised \/ CallRaises)
      /\ (cache' = Null \/ cache' \in Caches) /\ CacheCurrent' /\ Aged'
  <2>1. CASE /\ Invalidate(w)
             /\ writer' = [writer EXCEPT ![w].place = "record"]
             /\ UNCHANGED <<lost, raised>>
    <3>1. MarketInv' /\ writer' \in [Writers -> Changers]
      BY <1>1, <1>2, <2>1, ArrivedBooks
    <3>2. \E q : writer' = [writer EXCEPT ![w] = q]
      BY <2>1
    <3>3. (cache' = Null \/ cache' \in Caches) /\ CacheCurrent' /\ Aged'
      BY <1>1, <1>2, <2>1, <3>2, ReceiptCache
    <3> QED
      BY <1>1, <2>1, <3>1, <3>3 DEF ViewTypeOK
  <2>2. CASE /\ CallRaises
             /\ lost' = lost \cup {writer[w].kind}
             /\ cache' = IF cache = Null THEN Null
                         ELSE [cache EXCEPT !.missed = @ \cup ({writer[w].listing} \ {Null})]
             /\ writer' = [writer EXCEPT ![w] = Idle]
    <3>1. MarketInv' /\ lost' \subseteq Kinds
      BY <1>1, <1>2, <2>2, LostBooks
    <3>2. writer' \in [Writers -> Changers]
      BY <1>1, <2>2, EndShape
    <3>3. (cache' = Null \/ cache' \in Caches) /\ CacheCurrent' /\ Aged'
      BY <1>1, <1>2, <2>2, ReceiptCache
    <3> QED
      BY <2>2, <3>1, <3>2, <3>3
  <2> QED
    BY <2>1, <2>2 DEF Receipt
<1>4. reader' \in [Readers -> Lookers] /\ \A r \in Readers : LookInv(r)'
  BY <1>1, <1>2, DisturbedReaders
<1>5. raised' \in 0 .. MaxRaises
  BY <1>1, <1>3, RaisedTypes
<1>6. ViewTypeOK'
  BY <1>1, <1>2, <1>3, <1>4, <1>5 DEF ViewTypeOK, Open
<1> QED
  BY <1>3, <1>4, <1>6 DEF ViewInv

-----------------------------------------------------------------------------
(* What is shown of the marketplace: the theorems.                         *)

\* The empty marketplace satisfies the invariant.
LEMMA ViewInitInv ==
  ASSUME ViewInit
  PROVE  ViewInv
<1> USE DEF ViewInit
<1>1. {l \in Listings : Open(l)} = {} /\ {l \in Listings : Open(l)} \subseteq Listings
  BY DEF Open
<1>2. order \in SetToSeqs({l \in Listings : Open(l)})
  <2>1. Cardinality({}) = 0 /\ 1 .. 0 = {}
    BY FS_EmptySet
  <2>2. <<>> \in [1 .. 0 -> {}]
    BY <2>1
  <2> QED
    BY <1>1, <2>1, <2>2 DEF SetToSeqs
<1>3. ViewTypeOK
  <2>1. /\ Idle \in Changers /\ Waiting \in Lookers
    <3>1. Idle \in Changers
      BY DEF Idle, Changers
    <3>2. <<>> \in Seq(Pairs)
      OBVIOUS
    <3>3. Waiting \in Lookers
      BY <3>2 DEF Waiting, Lookers
    <3> QED
      BY <3>1, <3>3
  <2>2. Supply \in Nat /\ TTL \in Nat /\ MaxRaises \in Nat
    BY ViewBounds
  <2> QED
    BY <1>2, <2>1, <2>2 DEF ViewTypeOK
<1>4. /\ \A w \in Writers : writer[w] = Idle /\ Idle.kind = Null
      /\ Null \notin Kinds /\ Idle.place = "idle"
  BY NullIsNoOne DEF Idle
<1>5. Calm
  BY DEF Calm
<1>6. \A w \in Writers : Sent(w) /\ Made(w)
  BY <1>4 DEF Sent, Made, Making, Kinds
<1>7. \A w, v \in Writers : Alone(w, v)
  BY <1>4 DEF Alone, Making, Kinds
<1>8. \A l \in Listings : Stocked(l) /\ Enough(l) /\ Matched(l)
  BY <1>5, NothingInFlight DEF Stocked, Enough, Matched, Open
<1>9. \A k \in Buyers : coins[k] = 0 /\ unused[k] = 0
  BY NullIsNoOne
<1>10. Books
  <2>1. Held = 0 /\ Owned = 0
    <3> DEFINE c == [k \in Buyers |-> coins[k]]
    <3>1. Tallied(c) /\ Tallied(unused)
      BY <1>3, HoldingTypes
    <3>2. (\A k \in DOMAIN c : c[k] = 0) /\ \A k \in DOMAIN unused : unused[k] = 0
      BY <1>9
    <3> QED
      BY <3>1, <3>2, TallyZero DEF Held, Owned
  <2>2. /\ Cardinality(RedeemsDue) = 0 /\ Cardinality(BuysDue) = 0
        /\ \A k : Cardinality(BuysOf(k)) = 0 /\ Cardinality(RedeemsOf(k)) = 0
    BY <1>5, NothingInFlight
  <2>3. Lag = 0 /\ Gap = 0
    BY <2>1, <2>2 DEF Lag, Gap
  <2>4. \A k \in Buyers : Even(k)
    BY <1>9, <2>2 DEF Even
  <2> QED
    BY <2>3, <2>4 DEF Books, Spoilt
<1>11. MarketInv
  BY <1>6, <1>7, <1>8, <1>10 DEF MarketInv
<1>12. CacheCurrent /\ Aged
  BY DEF CacheCurrent, Aged
<1>13. \A r \in Readers : LookInv(r)
  BY DEF LookInv, Lists, Audits, Waiting
<1> QED
  BY <1>3, <1>11, <1>12, <1>13 DEF ViewInv

\* Every step keeps the invariant.
LEMMA ViewStepInv ==
  ASSUME ViewInv, [ViewNext]_viewVars
  PROVE  ViewInv'
<1>1. ASSUME NEW w \in Writers, Changes(w) PROVE ViewInv'
  <2>1. CASE \E l \in Listings : \E n \in Amounts : Offer(w, l, n)
    BY <2>1, OfferStep
  <2>2. CASE \E l \in Listings : Trade(w, l) \/ \E k \in Buyers : Buy(w, l, k)
    BY <2>2, TakeStep
  <2>3. CASE \E l \in Listings : DelistCoupon(w, l)
    BY <2>3, DelistStep
  <2>4. CASE \E k \in Buyers : Redeem(w, k)
    BY <2>4, RedeemStep
  <2>5. CASE Receipt(w)
    BY <2>5, ReceiptStep
  <2>6. CASE RecordChange(w)
    BY <2>6, RecordStep
  <2> QED
    BY <1>1, <2>1, <2>2, <2>3, <2>4, <2>5, <2>6 DEF Changes
<1>2. ASSUME NEW r \in Readers, Looks(r) PROVE ViewInv'
  BY <1>2, LookStep
<1>3. CASE Tick
  BY <1>3, TickStep
<1>4. CASE UNCHANGED viewVars
  <2> USE <1>4 DEF viewVars
  <2>1. ViewTypeOK'
    BY DEF ViewInv, ViewTypeOK, Open
  <2>2. MarketInv'
    BY SameBooks DEF ViewInv, Reads, onChain, rows
  <2>3. CacheCurrent' /\ Aged'
    BY DEF ViewInv, CacheCurrent, Aged, Open
  <2>4. \A r \in Readers : LookInv(r)'
    BY OtherReaders DEF ViewInv, Reads, onChain, rows
  <2> QED
    BY <2>1, <2>2, <2>3, <2>4 DEF ViewInv
<1> QED
  BY <1>1, <1>2, <1>3, <1>4 DEF ViewNext

\* The inductive invariant: what requests in flight have done on chain and
\* have yet to write accounts for every difference between both.
THEOREM ShownAccounted == ViewSpec => []ViewInv
<1>1. ViewInit => ViewInv
  BY ViewInitInv
<1>2. ViewInv /\ [ViewNext]_viewVars => ViewInv'
  BY ViewStepInv
<1> QED
  BY <1>1, <1>2, PTL DEF ViewSpec

\* The cache of a server is wrong only about listings it could not know of.
THEOREM CacheIsCurrent == ViewSpec => []CacheCurrent
<1>1. ViewInv => CacheCurrent
  BY DEF ViewInv
<1> QED
  BY <1>1, ShownAccounted, PTL

\* A list that nothing disturbed shows the open listings that have codes, and
\* nothing else; it never shows less than is left of one.
THEOREM CalmAnswersAreExact == ViewSpec => []CalmAnswerExact
<1>1. ASSUME ViewInv PROVE CalmAnswerExact
  <2>1. \A r \in Readers : Lists(r)
    BY <1>1 DEF ViewInv, LookInv
  <2> QED
    BY <2>1 DEF CalmAnswerExact, Lists
<1> QED
  BY <1>1, ShownAccounted, PTL

\* The audit of a voucher reports a lost record, and the rest is known.
THEOREM AuditsAreExact == ViewSpec => []AuditIsExact
<1>1. ASSUME ViewInv PROVE AuditIsExact
  <2>1. \A r \in Readers : Audits(r)
    BY <1>1 DEF ViewInv, LookInv
  <2>2. AuditFindsLosses
    BY <2>1 DEF AuditFindsLosses, Audits, Spoilt
  <2>3. AuditFalseAlarms
    BY <2>1 DEF AuditFalseAlarms, Audits, Spoilt
  <2> QED
    BY <1>1, <2>2, <2>3 DEF ViewInv, AuditIsExact
<1> QED
  BY <1>1, ShownAccounted, PTL

\* A request that changes the marketplace and the clock leave requests that
\* look at it where they are.
LEMMA PlacesStay ==
  ASSUME ViewTypeOK, Tick \/ \E w \in Writers : Changes(w), NEW r \in Readers
  PROVE  reader'[r].place = reader[r].place
<1>1. CASE Tick
  <2>1. reader[r] \in Lookers
    BY DEF ViewTypeOK
  <2>2. reader'[r] = [reader[r] EXCEPT !.torn = @ \/ reader[r].place = "fetch"]
    BY <1>1 DEF Tick
  <2> QED
    BY <2>1, <2>2 DEF Lookers
<1>2. CASE \E w \in Writers : Changes(w)
  <2>1. Disturb
    <3>1. PICK w \in Writers : Changes(w)
      BY <1>2
    <3>2. \A kind, l, k, n : Sends(w, kind, l, k, n) => Disturb
      BY DEF Sends
    <3>3. ASSUME NEW l \in Listings, NEW n \in Amounts, Offer(w, l, n) PROVE Disturb
      BY <3>2, <3>3 DEF Offer
    <3>4. ASSUME NEW l \in Listings, Trade(w, l) PROVE Disturb
      BY <3>2, <3>4 DEF Trade
    <3>5. ASSUME NEW l \in Listings, DelistCoupon(w, l) PROVE Disturb
      BY <3>2, <3>5 DEF DelistCoupon
    <3>6. ASSUME NEW l \in Listings, NEW k \in Buyers, Buy(w, l, k) PROVE Disturb
      BY <3>2, <3>6 DEF Buy
    <3>7. ASSUME NEW k \in Buyers, Redeem(w, k) PROVE Disturb
      BY <3>2, <3>7 DEF Redeem
    <3>8. ASSUME Receipt(w) \/ RecordChange(w) PROVE Disturb
      BY <3>8 DEF Receipt, RecordChange
    <3> QED
      BY <3>1, <3>3, <3>4, <3>5, <3>6, <3>7, <3>8 DEF Changes
  <2>2. reader[r] \in Lookers
    BY DEF ViewTypeOK
  <2>3. reader'[r] = [reader[r] EXCEPT !.calm = FALSE,
                                       !.torn = @ \/ reader[r].place = "fetch"]
    BY <2>1 DEF Disturb
  <2> QED
    BY <2>2, <2>3 DEF Lookers
<1> QED
  BY <1>1, <1>2

\* Only two steps give a request a list.
LEMMA ListObtained ==
  ASSUME ViewTypeOK, NEW r \in Readers, Looks(r), reader'[r].place = "details"
  PROVE  Store(r) \/ \E inPoints, thb \in BOOLEAN : StartList(r, inPoints, thb)
<1>1. reader \in [Readers -> Lookers] /\ reader[r] \in Lookers
  BY DEF ViewTypeOK
<1>2. \A q : Set(r, q) => reader'[r] = q
  BY <1>1 DEF Set
<1>3. Waiting.place = "idle"
  BY DEF Waiting
<1>4. CASE GetMarketplaceListings(r) \/ GetMarketplaceListingsEndUser(r) \/ ByMerchantRef(r)
  BY <1>4 DEF GetMarketplaceListings, GetMarketplaceListingsEndUser, ByMerchantRef
<1>5. CASE Store(r)
  BY <1>5
<1>6. ASSUME FetchIds(r) \/ FetchStructs(r) PROVE FALSE
  <2>1. reader[r].place = "fetch" /\ \E q : Set(r, q) /\ q.place \in {"fetch", "idle"}
    BY <1>1, <1>3, <1>6 DEF FetchIds, FetchStructs, Fails, Stands, Lookers
  <2> QED
    BY <1>2, <2>1
<1>7. ASSUME Details(r) PROVE FALSE
  <2>1. PICK S : Set(r, [reader[r] EXCEPT !.place = "counts", !.found = S])
    BY <1>7 DEF Details
  <2>2. reader'[r].place = "counts"
    BY <1>1, <1>2, <2>1 DEF Lookers
  <2> QED
    BY <2>2
<1>8. ASSUME Counts(r) \/ ReadOne(r) PROVE FALSE
  <2>1. \E s, S, T : Set(r, [reader[r] EXCEPT !.place = "answered", !.view = s,
                                              !.found = S, !.answer = T])
    <3>1. CASE Counts(r)
      BY <3>1 DEF Counts
    <3>2. CASE ReadOne(r)
      <4>1. PICK T : Set(r, [reader[r] EXCEPT !.place = "answered", !.view = <<>>,
                                              !.answer = T])
        BY <3>2 DEF ReadOne
      <4>2. [reader[r] EXCEPT !.place = "answered", !.view = <<>>, !.answer = T] =
              [reader[r] EXCEPT !.place = "answered", !.view = <<>>,
                                !.found = reader[r].found, !.answer = T]
        BY <1>1 DEF Lookers
      <4> QED
        BY <4>1, <4>2
    <3> QED
      BY <1>8, <3>1, <3>2
  <2>2. reader'[r].place = "answered"
    BY <1>1, <1>2, <2>1 DEF Lookers
  <2> QED
    BY <2>2
<1>9. ASSUME EndLook(r) PROVE FALSE
  BY <1>2, <1>3, <1>9 DEF EndLook
<1>10. ASSUME StartOne(r) PROVE FALSE
  <2>1. PICK l, s : Set(r, [Waiting EXCEPT !.place = "row", !.one = l, !.calm = Calm,
                                           !.view = s])
    BY <1>10 DEF StartOne
  <2>2. reader'[r].place = "row"
    BY <1>2, <2>1 DEF Waiting
  <2> QED
    BY <2>2
<1>11. ASSUME StartAudit(r) PROVE FALSE
  <2>1. Set(r, [Waiting EXCEPT !.place = "statsRead", !.redeemed = redeemed, !.calm = Calm])
    BY <1>11 DEF StartAudit
  <2>2. reader'[r].place = "statsRead"
    BY <1>2, <2>1 DEF Waiting
  <2> QED
    BY <2>2
<1>12. ASSUME AuditCodes(r) PROVE FALSE
  <2>1. PICK c : Set(r, [reader[r] EXCEPT !.place = "codesRead", !.used = used, !.codes = c])
    BY <1>12 DEF AuditCodes
  <2>2. reader'[r].place = "codesRead"
    BY <1>1, <1>2, <2>1 DEF Lookers
  <2> QED
    BY <2>2
<1>13. ASSUME AuditWallets(r) PROVE FALSE
  <2>1. \E h, b : Set(r, [reader[r] EXCEPT !.place = "heldRead", !.ok = b, !.held = h])
    <3>1. \A h : [reader[r] EXCEPT !.place = "heldRead", !.held = h] =
                   [reader[r] EXCEPT !.place = "heldRead", !.ok = reader[r].ok, !.held = h]
      BY <1>1 DEF Lookers
    <3>2. (\E h : Set(r, [reader[r] EXCEPT !.place = "heldRead", !.held = h]))
            \/ \E h : Set(r, [reader[r] EXCEPT !.place = "heldRead", !.ok = FALSE, !.held = h])
      BY <1>13 DEF AuditWallets
    <3> QED
      BY <3>1, <3>2
  <2>2. reader'[r].place = "heldRead"
    BY <1>1, <1>2, <2>1 DEF Lookers
  <2> QED
    BY <2>2
<1>14. ASSUME AuditMarket(r) PROVE FALSE
  <2>1. \E c, S, b : Set(r, [[Waiting EXCEPT !.place = "audited", !.calm = c] EXCEPT
                                !.alarms = S, !.ok = b])
    BY <1>14 DEF AuditMarket
  <2>2. reader'[r].place = "audited"
    BY <1>2, <2>1 DEF Waiting
  <2> QED
    BY <2>2
<1> QED
  BY <1>4, <1>5, <1>6, <1>7, <1>8, <1>9, <1>10, <1>11, <1>12,
     <1>13, <1>14 DEF Looks

\* What a list starts from was open less than the life of the cache ago, unless
\* it was fetched while something changed.
LEMMA ListFresh ==
  ASSUME ViewInv, NEW r \in Readers, Looks(r), reader'[r].place = "details", ~cache'.torn
  PROVE  \A p \in ToSet(reader'[r].view) : Open(p.id) \/ closedFor[p.id] < TTL
<1>1. ViewTypeOK /\ Aged /\ LookInv(r)
  BY DEF ViewInv
<1>2. reader \in [Readers -> Lookers] /\ reader[r] \in Lookers
  BY <1>1 DEF ViewTypeOK
<1>3. CASE \E inPoints, thb \in BOOLEAN : StartList(r, inPoints, thb)
  <2>1. PICK inPoints \in BOOLEAN, thb \in BOOLEAN : StartList(r, inPoints, thb)
    BY <1>3
  <2>2. PICK calm \in BOOLEAN : calm = (Calm /\ (Fresh => cache.missed = {} /\ ~cache.torn))
    OBVIOUS
  <2>3. reader'[r] = [Waiting EXCEPT
               !.pointOnly = inPoints, !.sellerOnly = thb,
               !.place = IF Fresh THEN "details" ELSE "fetch",
               !.view  = IF Fresh THEN cache.data ELSE <<>>,
               !.calm  = calm]
    BY <1>2, <2>1, <2>2 DEF StartList, Set
  <2>4. /\ reader'[r].place = IF Fresh THEN "details" ELSE "fetch"
        /\ reader'[r].view = IF Fresh THEN cache.data ELSE <<>>
    BY <2>3 DEF Waiting
  <2>5. Fresh /\ reader'[r].view = cache.data /\ cache' = cache
    BY <2>1, <2>4 DEF StartList
  <2>6. cache # Null /\ cache \in Caches /\ cache.age < TTL
    BY <1>1, <2>5 DEF Fresh, ViewTypeOK
  <2>7. cache.data \in Seq(Pairs) /\ cache.age \in Nat
    BY <2>6, ViewBounds DEF Caches
  <2> SUFFICES ASSUME NEW p \in ToSet(cache.data)
               PROVE  Open(p.id) \/ closedFor[p.id] < TTL
    BY <2>5
  <2>8. p \in Pairs
    BY <2>7 DEF ToSet
  <2>9. closedFor[p.id] \in Nat /\ TTL \in Nat
    BY <1>1, <2>8, ViewBounds DEF Pairs, ViewTypeOK
  <2>10. Open(p.id) \/ closedFor[p.id] <= cache.age
    BY <1>1, <2>5, <2>6 DEF Aged
  <2> QED
    BY <2>6, <2>7, <2>9, <2>10
<1>4. CASE Store(r)
  <2>1. PICK q \in Lookers : q = reader[r]
    BY <1>2
  <2>2. /\ Stands(r, "fetch") /\ q.ids # Null /\ q.structs # Null
    BY <1>4, <2>1 DEF Store
  <2>3. ~Set(r, Waiting)
    BY <1>2 DEF Set, Waiting
  <2>4. /\ Len(q.structs) >= Len(q.ids)
        /\ cache' = [data |-> PairUp(q.ids, q.structs), age |-> 0, missed |-> {},
                     torn |-> q.torn]
        /\ reader'[r] = [q EXCEPT !.place = "details", !.view = PairUp(q.ids, q.structs),
                                  !.ids = Null, !.structs = Null, !.torn = FALSE]
    BY <1>2, <1>4, <2>1, <2>3 DEF Store, Set
  <2>5. ~q.torn /\ reader'[r].view = PairUp(q.ids, q.structs)
    BY <2>4 DEF Lookers
  <2>6. ToSet(reader'[r].view) = OnOffer
    BY <1>1, <2>1, <2>2, <2>4, <2>5, StorePairs
  <2> QED
    BY <2>6 DEF OnOffer, Exactly
<1> QED
  BY <1>1, <1>3, <1>4, ListObtained

\* What a list starts from was open less than the life of the cache ago, unless
\* it was fetched while something changed.
THEOREM ListsAreFresh == ViewSpec => FreshEnough
<1> DEFINE Fine == \A r \in Readers :
       reader[r].place # "details" /\ reader'[r].place = "details" /\ ~cache'.torn =>
         \A p \in ToSet(reader'[r].view) :
           Open(p.id) \/ closedFor[p.id] < TTL
<1>1. ASSUME ViewInv, ViewNext PROVE Fine
  <2> SUFFICES ASSUME NEW r \in Readers, reader[r].place # "details",
                      reader'[r].place = "details", ~cache'.torn
               PROVE  \A p \in ToSet(reader'[r].view) :
                        Open(p.id) \/ closedFor[p.id] < TTL
    OBVIOUS
  <2>1. ViewTypeOK
    BY <1>1 DEF ViewInv
  <2>2. PICK s \in Readers : Looks(s)
    BY <1>1, <2>1, PlacesStay DEF ViewNext
  <2>3. r = s
    BY <2>1, <2>2, LookFrame DEF Set, ViewTypeOK
  <2> QED
    BY <1>1, <2>2, <2>3, ListFresh
<1>2. ViewInv /\ [ViewNext]_viewVars => [Fine]_viewVars
  BY <1>1
<1> QED
  BY <1>2, ShownAccounted, PTL DEF ViewSpec, FreshEnough
=============================================================================
