------------------------- MODULE VoucherActivation -------------------------
(***************************************************************************)
(* ActivateVoucher: a merchant puts coupons of a voucher up for points.    *)
(* The codes were bought from a seller, or the voucher is the merchant's   *)
(* own: then its codes are made by the activation, numbered by how many    *)
(* there are.  What happens to activated codes is in VoucherMarketplace;   *)
(* here the points they are priced in are deleted and moved, and the       *)
(* voucher is deleted.                                                     *)
(*                                                                         *)
(* One merchant and one voucher.  Activations are in a workload of their   *)
(* own, without transfers of points: all that they share is the row of the *)
(* point and the operator.                                                 *)
(***************************************************************************)
EXTENDS PointTransfer

CONSTANTS
  Activations,   \* HTTP requests
  Coupons,       \* coupons of the voucher in the merchant's wallet
  Issued,        \* Voucher.totalIssued in the beginning
  MaxAmount      \* bound: coupons of one activation

ASSUME Amounts   == {Coupons, Issued, MaxAmount} \subseteq Nat
ASSUME Shelves   == IsFiniteSet(Activations) /\ None \notin Activations
ASSUME NullIsNoRow == None \notin [amount : Nat, token : Nat]

VARIABLES
  work,     \* the workload
  own,      \* whether the voucher is the merchant's own
  left,     \* Voucher.totalIssued
  code,     \* VoucherCode rows, by their number
  nft,      \* coupons in the wallet
  shelf,    \* listings on chain, named after their activation
  gone,     \* whether the voucher was deleted
  batch,    \* the activations that have a ListingBatch row
  act, at,  \* what an activation has read, where it stands
  deleted   \* history: whether a point was deleted

sheet      == <<left, code, gone, batch>>
activation == <<act, at>>
marketVars == <<sheet, nft, shelf, activation, deleted>>
fixed      == <<work, own>>
allVars    == <<vars, marketVars, fixed>>

Codes   == 1 .. Coupons
NoCode  == [group |-> "absent"]
Present == {c \in Codes : code[c] # NoCode}
Running == {a \in Activations : at[a] \in {"fetch", "list", "persist"}}

\* Codes of the merchant that are not activated; a group is not looked at.
Unactivated == {c \in Present : code[c].point = None}

MarketTypeOK ==
  /\ TypeOK
  /\ work \in {"points", "vouchers"} /\ own \in BOOLEAN
  /\ left \in 0 .. Issued
  /\ \A c \in Present : /\ code[c].group \in Activations \cup {None}
                        /\ code[c].point \in Points \cup {None}
  /\ nft \in 0 .. Coupons
  /\ \A a \in Activations : shelf[a] # None => shelf[a].token \in Addresses
  /\ batch \subseteq {a \in Activations : shelf[a] # None}
  /\ at \in [Activations -> {"idle", "fetch", "list", "persist", "over"}]
  /\ gone \in BOOLEAN /\ deleted \in BOOLEAN

MarketInit ==
  /\ Init
  /\ work \in {"points", "vouchers"} /\ own \in BOOLEAN
  /\ work = "points" => ~own
  /\ left = Issued
  /\ code = [c \in Codes |-> IF own THEN NoCode ELSE [group |-> None, point |-> None]]
  /\ nft = Coupons
  /\ shelf = [a \in Activations |-> None] /\ batch = {}
  /\ act = [a \in Activations |-> None] /\ at = [a \in Activations |-> "idle"]
  /\ gone = FALSE /\ deleted = FALSE

Step(a, place) == at' = [at EXCEPT ![a] = place]
Over(a) == Step(a, "over") /\ act' = [act EXCEPT ![a] = None]

(***************************************************************************)
(* ActivateVoucher.execute.  A point of another merchant is refused.       *)
(***************************************************************************)
\* Voucher and point are read, with what is left, before the transaction.
Activate(a) ==
  /\ at[a] = "idle" /\ ~gone /\ Step(a, "fetch")
  /\ polite => Running = {}
  /\ \E p \in Points, n \in 1 .. MaxAmount :
       /\ point[p] # NoPoint
       /\ n <= (IF own THEN left ELSE Cardinality(Unactivated))
       /\ act' = [act EXCEPT ![a] = [point |-> p, token |-> point[p].addr,
                                     amount |-> n, seen |-> left, codes |-> {}]]
  /\ UNCHANGED <<sheet, nft, shelf, bounds>>

\* generateSequentialCodes.
NewNumbers(a) == Cardinality(Present) + 1 .. Cardinality(Present) + act[a].amount

\* Seeded fault: the codes are fetched without a limit.
FetchAllCodes(a) ==
  /\ at[a] = "fetch" /\ CanSign /\ Step(a, "list")
  /\ act' = [act EXCEPT ![a].codes = IF own THEN NewNumbers(a) ELSE Unactivated]
  /\ UNCHANGED <<sheet, nft, shelf, bounds>>

\* The codes, without a lock and perhaps fewer than asked for; then the
\* wallet of the merchant, and the key.
FetchCodes(a) ==
  /\ at[a] = "fetch"
  /\ IF CanSign
       THEN /\ \E S \in IF own THEN {NewNumbers(a)} ELSE SUBSET Unactivated :
                 /\ \/ own \/ Cardinality(S) = act[a].amount
                    \/ S = Unactivated /\ Cardinality(S) < act[a].amount
                 /\ act' = [act EXCEPT ![a].codes = S]
            /\ Step(a, "list")
       ELSE Over(a)
  /\ UNCHANGED <<sheet, nft, shelf, bounds>>

Listed(a) ==
  /\ nft >= act[a].amount
  /\ nft' = nft - act[a].amount
  /\ shelf' = [shelf EXCEPT ![a] = [amount |-> act[a].amount, token |-> act[a].token]]

\* The coupons in the wallet, which can only become fewer, are checked before.
ListCoupon(a) ==
  /\ at[a] = "list"
  /\ \/ Listed(a) /\ Step(a, "persist") /\ UNCHANGED <<act, bounds>>
     \/ nft < act[a].amount /\ Over(a) /\ UNCHANGED <<nft, shelf, bounds>>
     \/ Raises /\ Over(a) /\ (Listed(a) \/ UNCHANGED <<nft, shelf>>)
  /\ UNCHANGED sheet

\* A new code is unique and has a voucher; the codes that are still there are
\* updated by their ids.  The point a code is priced in must be there.
Written(a) == IF own THEN act[a].codes ELSE act[a].codes \cap Present

Acceptable(a) ==
  /\ Written(a) # {} => point[act[a].point] # NoPoint
  /\ own => ~gone /\ Written(a) \cap Present = {}

Rewritten(a) ==
  [c \in Codes |-> IF c \in Written(a)
                     THEN [group |-> a, point |-> act[a].point] ELSE code[c]]

\* The rest of the transaction: an error takes the rows back, the listing
\* stays.  What is left is counted from what was read at first.
Persist(a) ==
  /\ at[a] = "persist" /\ Over(a)
  /\ \/ /\ Acceptable(a)
        /\ code' = Rewritten(a) /\ batch' = batch \cup {a}
        /\ left' = IF own THEN act[a].seen - act[a].amount ELSE left
        /\ UNCHANGED <<gone, bounds>>
     \/ ~Acceptable(a) /\ UNCHANGED <<sheet, bounds>>
     \/ Raises /\ UNCHANGED sheet
  /\ UNCHANGED <<nft, shelf>>

ActivationStep(a) ==
  /\ Activate(a) \/ FetchCodes(a) \/ ListCoupon(a) \/ Persist(a)
  /\ UNCHANGED <<books, chain, requests, history, deleted>>

\* Codes that are priced in a point lose it, and keep their group.
DeletePriced(p) ==
  /\ code' = [c \in Codes |-> IF c \in Present /\ code[c].point = p
                                THEN [code[c] EXCEPT !.point = None] ELSE code[c]]
  /\ deleted' = TRUE
  /\ UNCHANGED <<left, gone, batch, nft, shelf, activation>>

\* VoucherDBService.deleteVoucher: its codes go with it; coupons and listings
\* on chain stay, and so do the rows of the listings.
DeleteVoucher ==
  /\ ~gone /\ gone' = TRUE
  /\ code' = [c \in Codes |-> NoCode]
  /\ Operation
  /\ UNCHANGED <<books, moved, left, batch, nft, shelf, activation, deleted>>

\* Bound: one more kind of points.  polite: an operator waits for activations,
\* too.
PointStep ==
  \/ \E r \in Requests :
       /\ \A q \in Requests \ {r} : pc[q] = "idle"
       /\ Create(r)
       /\ UNCHANGED marketVars
  \/ /\ polite => Running = {}
     /\ \/ \E p \in Points : DeletePoint(p) /\ DeletePriced(p)
        \/ \E p \in Points : UpdatePointContractAddress(p) /\ UNCHANGED marketVars
        \/ DeleteVoucher

MarketNext ==
  /\ \/ work = "points" /\ Next /\ UNCHANGED marketVars
     \/ /\ work = "vouchers"
        /\ PointStep \/ \E a \in Activations : ActivationStep(a)
  /\ UNCHANGED fixed

MarketSpec == MarketInit /\ [][MarketNext]_allVars

(***************************************************************************)
(* getVouchersByMerchant: the codes of a group, and what can still be      *)
(* activated; of a voucher of one's own, whose codes all have a group,     *)
(* that is read from the chain.                                            *)
(***************************************************************************)
CodesInGroup(a) == Cardinality({c \in Present : code[c].group = a})

UpcomingCount ==
  IF own THEN nft
         ELSE Cardinality({c \in Unactivated : code[c].group = None})

\* getActiveVouchers, for the voucher: upcoming is what the row has left.
GetActiveVouchers ==
  LET active == Cardinality({c \in Present : code[c].group # None})
  IN [active |-> active, upcoming |-> left, totalCodes |-> active + left]

(***************************************************************************)
(* Properties.                                                             *)
(***************************************************************************)
\* What the merchant is shown as active is in escrow, listing by listing.  For
\* a voucher of the merchant's own this holds in any interleaving and whatever
\* is deleted, because codes are unique; bought codes need activations one at
\* a time and points that stay: a deleted point makes its codes look new, and
\* another activation may take them out of their group.
ActiveIsInEscrow ==
  ~gone /\ (own \/ (polite /\ ~deleted)) =>
    \A a \in batch : CodesInGroup(a) = shelf[a].amount

\* What the merchant is shown as upcoming is in the wallet, but for listings
\* whose activation failed after it, or is about to write.  Of bought codes
\* this needs the same conditions: otherwise codes are offered to direct
\* transfers whose coupons are in escrow.
UpcomingIsInWallet ==
  LET stranded == {a \in Activations : shelf[a] # None /\ a \notin batch}
      inEscrow == Tally([a \in stranded |-> shelf[a].amount])
  IN ~gone =>
     IF own THEN UpcomingCount + Tally([a \in batch |-> CodesInGroup(a)]) + inEscrow = Coupons
            ELSE (polite /\ ~deleted => UpcomingCount = nft + inEscrow)

\* The codes of a voucher of one's own are numbered without a gap, and the
\* total that everybody is shown of it is no less than what was announced:
\* activations in each other's way can only raise it, since what is left is
\* read long before it is written, and alone they keep it.
IssuedIsKept ==
  own /\ ~gone =>
    /\ Present = 1 .. Cardinality(Present)
    /\ GetActiveVouchers.totalCodes >= Issued
    /\ polite => GetActiveVouchers.totalCodes = Issued

\* A voucher that is deleted while an activation waits for the chain gets no
\* codes afterwards.
NoCodesOfDeleted == gone => Present = {}

\* An activated code names the point that its coupon is sold for, unless the
\* operator has moved that point: what a customer needs to have is what the
\* contract takes.
PricedInItsPoint ==
  \A c \in Present : code[c].point # None /\ code[c].point \notin moved =>
    shelf[code[c].group].token = point[code[c].point].addr

\* The table of transactions and the chain, whatever raises and whoever is in
\* whose way.
RecordsFollowTransfers == MarketTypeOK /\ TransfersAreRecorded /\ RecordsAreTransfers

\* What customers have in the database and in the contract.
BalancesFollowTransfers == BalanceIsOnChain /\ NeverOverdrawn /\ CreditWasSent

\* What merchants and customers are shown of points.
ShownPointsAgree == DashboardAddsUp /\ ListsAgree /\ JoinedOnce

\* A kind of points, its contract and the coupons sold for it.
ContractsFit == OwnContract /\ WindowsReachTheEnd /\ PricedInItsPoint

\* The codes of a voucher and its coupons in wallet and escrow.
ShelfIsOnChain ==
  ActiveIsInEscrow /\ UpcomingIsInWallet /\ IssuedIsKept /\ NoCodesOfDeleted
=============================================================================
