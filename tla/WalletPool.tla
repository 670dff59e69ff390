----------------------------- MODULE WalletPool -----------------------------
(***************************************************************************)
(* Voucher codes and their coupons on chain, as those who hand them out    *)
(* and those who look at them see them.  A code is in the wallet pool of   *)
(* the merchant that owns it until a transfer claims it or an activation   *)
(* lists it on the marketplace.  An activation does not look at claims and *)
(* a ledger takes a listed code off its listing, so the two may cross: the *)
(* listing's coupon stays in escrow, and its code is a customer's.  The    *)
(* operations here are those of other parts of the system, each in one     *)
(* step: VoucherMarketplace and VoucherRedemption have theirs.  A transfer *)
(* is what DirectTransfer makes of it; its operation is a pair of a        *)
(* request and a row.                                                      *)
(***************************************************************************)
EXTENDS Integers, FiniteSets

CONSTANTS
  Codes,        \* ids of the voucher codes; a transfer takes the lowest
  Vouchers, Customers, Merchants,
  Requests,     \* HTTP requests
  MaxRows,      \* bound: rows of a file
  None,         \* SQL NULL
  VoucherOf,    \* the voucher of each code
  HolderOf,     \* the merchant that has the code in the beginning
  MaxOthers,    \* bound: steps of the rest of the system
  MaxFaults     \* bound: calls that raise, and stops of the server

ASSUME CodesOK  == Codes \subseteq Nat /\ IsFiniteSet(Codes)
ASSUME StockOK  == VoucherOf \in [Codes -> Vouchers] /\ HolderOf \in [Codes -> Merchants]
ASSUME Apart    == Customers \cap Merchants = {}
ASSUME FewOf    == IsFiniteSet(Merchants) /\ IsFiniteSet(Vouchers)
ASSUME BoundsOK == MaxRows \in Nat /\ MaxOthers \in Nat /\ MaxFaults \in Nat

VARIABLES
  owner,       \* VoucherCode.currentOwnerId
  shelved,     \* codes with a voucherGroupId
  used,        \* codes with isUsed
  claim,       \* VoucherCode.directTransferOperationId
  tokens,      \* coupons of a voucher each wallet has on chain
  settled,     \* operations whose coupons moved on chain
  delivered,   \* the codes each operation handed over
  receiver,    \* DirectTransferOperation.customerId
  others,      \* steps of the rest of the system that are left
  pc,          \* where a request stands
  crossed,     \* history: codes listed while a transfer had claimed them
  calm,        \* history: requests in whose time nobody else did anything
  faults       \* calls that may still raise, and stops of the server

poolVars == <<owner, shelved, used, claim, tokens, settled, delivered,
              receiver, others, crossed>>

Ops     == Requests \X (1 .. MaxRows)
Holders == Customers \cup Merchants

ASSUME NoneIsNull == None \notin Ops \cup Customers

PoolTypeOK ==
  /\ owner \in [Codes -> Holders]
  /\ shelved \subseteq Codes /\ used \subseteq Codes /\ crossed \subseteq Codes
  /\ claim \in [Codes -> Ops \cup {None}]
  /\ tokens \in [Vouchers \X Holders -> Nat]
  /\ settled \subseteq Ops
  /\ delivered \in [Ops -> SUBSET Codes]
  /\ receiver \in [Ops -> Customers \cup {None}]
  /\ others \in Nat /\ faults \in Nat
  /\ calm \subseteq Requests

PoolInit ==
  /\ owner = HolderOf
  /\ shelved = {} /\ used = {} /\ crossed = {}
  /\ claim = [c \in Codes |-> None]
  /\ tokens = [x \in Vouchers \X Holders |->
                 Cardinality({c \in Codes : VoucherOf[c] = x[1] /\ HolderOf[c] = x[2]})]
  /\ settled = {}
  /\ delivered = [o \in Ops |-> {}]
  /\ receiver = [o \in Ops |-> None]
  /\ others = MaxOthers /\ faults = MaxFaults
  /\ pc = [r \in Requests |-> "idle"]
  /\ calm = {}

Goto(r, place) == pc' = [pc EXCEPT ![r] = place]
InFlight == {r \in Requests : pc[r] \notin {"idle", "over", "dead"}}

\* Whoever else is under way is no longer alone.
Begins(r)  == calm' = (IF InFlight = {} THEN {r} ELSE {}) /\ UNCHANGED faults
Quietly(r) == calm' = calm \cap {r} /\ UNCHANGED faults
Raises(r)  == faults > 0 /\ faults' = faults - 1 /\ calm' = {}

\* directTransferWalletPoolWhere
WalletPool(v, m) ==
  {c \in Codes : /\ VoucherOf[c] = v /\ owner[c] = m
                 /\ c \notin shelved \cup used /\ claim[c] = None}

Lowest(S, n) == {c \in S : Cardinality({d \in S : d <= c}) <= n}
Claimed(o)   == {c \in Codes : claim[c] = o}
OpenClaim(o) == Claimed(o) # {} /\ delivered[o] = {}

(***************************************************************************)
(* The parts of executeDirectVoucherTransfer.                              *)
(***************************************************************************)
Claim(o, S, k) ==
  /\ claim' = [c \in Codes |-> IF c \in S THEN o ELSE claim[c]]
  /\ receiver' = [receiver EXCEPT ![o] = k]
  /\ UNCHANGED <<owner, shelved, used, tokens, settled, delivered, others, crossed>>

\* The coupons of an operation pass from the merchant to the customer.
Moved(o) ==
  LET c == CHOOSE d \in Claimed(o) : TRUE
      v == VoucherOf[c]  m == owner[c]  n == Cardinality(Claimed(o)) IN
  /\ tokens[<<v, m>>] >= n
  /\ tokens' = [tokens EXCEPT ![<<v, m>>] = @ - n, ![<<v, receiver[o]>>] = @ + n]
  /\ settled' = settled \cup {o}
  /\ UNCHANGED <<shelved, used, claim, receiver, others, crossed>>

\* The ledger sets voucherGroupId to null, whatever it was.
WriteLedger(o) ==
  /\ owner' = [c \in Codes |-> IF c \in Claimed(o) THEN receiver[o] ELSE owner[c]]
  /\ delivered' = [delivered EXCEPT ![o] = Claimed(o)]
  /\ shelved' = shelved \ Claimed(o)

Release(o) ==
  /\ claim' = [c \in Codes |-> IF claim[c] = o THEN None ELSE claim[c]]
  /\ UNCHANGED <<owner, shelved, used, tokens, settled, delivered, receiver, others,
                 crossed>>

(***************************************************************************)
(* The rest of the system.                                                 *)
(***************************************************************************)
Other == /\ others > 0 /\ others' = others - 1
         /\ calm' = {}
         /\ UNCHANGED <<pc, faults>>

\* fetchOwnedCodesToActivate looks at pointId, which a listing sets with the
\* voucherGroupId, and not at directTransferOperationId.
Activate(c) ==
  /\ owner[c] \in Merchants /\ c \notin shelved
  /\ tokens[<<VoucherOf[c], owner[c]>>] >= 1
  /\ shelved' = shelved \cup {c}
  /\ crossed' = (IF claim[c] # None THEN crossed \cup {c} ELSE crossed)
  /\ tokens' = [tokens EXCEPT ![<<VoucherOf[c], owner[c]>>] = @ - 1]
  /\ UNCHANGED <<owner, used, claim, settled, delivered, receiver>>
  /\ Other

Redeem(c) ==
  /\ owner[c] \in Customers /\ c \notin used
  /\ tokens[<<VoucherOf[c], owner[c]>>] >= 1
  /\ used' = used \cup {c}
  /\ tokens' = [tokens EXCEPT ![<<VoucherOf[c], owner[c]>>] = @ - 1]
  /\ UNCHANGED <<owner, shelved, claim, settled, delivered, receiver, crossed>>
  /\ Other
=============================================================================
