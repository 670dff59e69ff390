------------------------- MODULE DistributionProofs -------------------------
(***************************************************************************)
(* Proofs about Distribution, for every set of codes, vouchers, customers, *)
(* merchants, requests and files: coupons follow codes, answers and logs   *)
(* are true, forecasts hold, and what customers, marketers and merchants   *)
(* are shown fits the chain.  Sections 1 and 2 are about the pool of       *)
(* codes, 3 about those who ask for transfers, 4 about those who look, 5   *)
(* about forecasts; 6 has the invariant and what follows from it, and 7    *)
(* the refinement of VoucherDelivery.                                      *)
(***************************************************************************)
EXTENDS Distribution, TallyProofs

-----------------------------------------------------------------------------
(* The inductive invariant.                                                *)

\* A code whose coupon has moved, a code whose ledger is written, whose wallet
\* has the coupon of a code, and a code without a coupon: used, or listed
\* before a transfer could take its coupon.  Off a transfer that moved for a
\* listed code the merchant has lost a coupon.
Sent(c)   == claim[c] # None /\ claim[c] \in settled
Given(c)  == claim[c] # None /\ delivered[claim[c]] # {}
Keeper(c) == IF Sent(c) THEN receiver[claim[c]] ELSE HolderOf[c]
Off(c)    == c \in used \/ (c \in shelved /\ ~Sent(c))
Held(v, h) == {c \in Codes : VoucherOf[c] = v /\ ~Off(c) /\ Keeper(c) = h}
Lost(v, h) == {c \in crossed : VoucherOf[c] = v /\ HolderOf[c] = h /\ Sent(c)}

\* A code passes to the receiver of its claim, and to nobody else; what is
\* listed was not handed over, and if it is claimed it crossed a transfer.
OwnerInv ==
  /\ \A c \in Codes : owner[c] = IF Given(c) THEN receiver[claim[c]] ELSE HolderOf[c]
  /\ \A c \in used : Given(c)
  /\ \A c \in shelved : ~Given(c) /\ (claim[c] # None => c \in crossed)
  /\ \A c \in crossed : c \in shelved \/ Given(c)

\* An operation has codes of one voucher from one merchant, hands over all it
\* has claimed, and only after it moved their coupons.
OpInv ==
  /\ \A o \in Ops :
       /\ delivered[o] \in {{}, Claimed(o)}
       /\ delivered[o] # {} => o \in settled
       /\ Claimed(o) # {} => receiver[o] \in Customers
       /\ o \in settled => Claimed(o) # {}
  /\ \A c, d \in Codes : claim[c] # None /\ claim[c] = claim[d] =>
       VoucherOf[c] = VoucherOf[d] /\ HolderOf[c] = HolderOf[d]

\* The coupons of a wallet.
TokenInv ==
  \A v \in Vouchers, h \in Holders :
    tokens[<<v, h>>] + Cardinality(Lost(v, h)) = Cardinality(Held(v, h))

PoolInv == PoolTypeOK /\ OwnerInv /\ OpInv /\ TokenInv

\* What a request has not come to is untouched.
Untouched(o) == Claimed(o) = {} /\ o \notin settled
FutureOf(r) ==
  \A i \in 1 .. MaxRows :
    \/ i > Current(r)
    \/ i = Current(r) /\ pc[r] \notin {"transfer", "ledger", "dead"}
    => Untouched(<<r, i>>)

\* What a request knows at its place.
Working == {"prepare", "transfer", "ledger"}
Places  == Calling \cup {"idle", "balances", "over", "dead"}
PlaceOf(r) ==
  /\ pc[r] \in {"idle", "balances"} => results[r] = <<>> /\ file[r] = None /\ log[r] = None
  /\ pc[r] \in {"idle"} \cup Calling => view[r] = None
  /\ file[r] # None => /\ pc[r] \in Calling \cup {"over", "dead"} /\ view[r] = None
                       /\ Len(results[r]) <= Len(Rows(r))
                       /\ file[r].f.kind \in {"json", "single"} =>
                            \A i \in DOMAIN Rows(r) : Reachable(Rows(r)[i])
  /\ pc[r] \in Calling => file[r] # None /\ seller[r] \in Merchants
  /\ pc[r] \in Working => Current(r) <= Len(Rows(r)) /\ Valid(ThisRow(r))
  /\ pc[r] = "log" => file[r].f.kind = "csv" /\ Len(results[r]) = Len(Rows(r))
  /\ view[r] # None => pc[r] \in {"balances", "over", "dead"}

\* An operation has what its row asks for.
AskedFor(r, i) ==
  /\ receiver[<<r, i>>] = Rows(r)[i].to
  /\ Cardinality(Claimed(<<r, i>>)) = Rows(r)[i].quantity
  /\ \A c \in Claimed(<<r, i>>) : VoucherOf[c] = Rows(r)[i].voucher

\* The operation of the current row.
TransferOf(r) ==
  \A i \in 1 .. MaxRows : i = Current(r) /\ pc[r] \in {"transfer", "ledger"} =>
    /\ AskedFor(r, i) /\ delivered[<<r, i>>] = {} /\ Claimed(<<r, i>>) # {}
    /\ pc[r] = "ledger" <=> <<r, i>> \in settled

\* What the rows have come to.
ReportAt(r, i) ==
  /\ results[r][i] = "SUCCESS" => AskedFor(r, i) /\ delivered[<<r, i>>] # {}
  /\ results[r][i] = "DESYNCED" => <<r, i>> \in settled
  /\ results[r][i] = "FAILED" /\ file[r].f.kind = "csv" => Untouched(<<r, i>>)
ReportOf(r) == \A i \in 1 .. MaxRows : i < Current(r) => ReportAt(r, i)

\* A log is written once all rows have a result, and says what they are.
LogOf(r) ==
  log[r] # None => /\ pc[r] = "over" /\ file[r] # None /\ file[r].f.kind = "csv"
                   /\ Len(results[r]) = Len(Rows(r))
                   /\ log[r] = Status(r)

CallOf(r) == PlaceOf(r) /\ FutureOf(r) /\ TransferOf(r) /\ ReportOf(r) /\ LogOf(r)
CallInv   == /\ CallTypeOK /\ pc \in [Requests -> Places]
             /\ \A r \in Requests : CallOf(r)

\* The dry run has found every row for which a merchant still has a code.
Stocked(v) == \E c \in Codes : VoucherOf[c] = v /\ owner[c] \in Merchants
DryOf(r) ==
  file[r] # None /\ file[r].f.kind = "rewards" =>
    /\ \A i \in DOMAIN Rows(r) :
         Rows(r)[i].to # Stranger /\ Stocked(Rows(r)[i].voucher) => i \in file[r].ready
    /\ pc[r] \in Working => Current(r) \in file[r].ready
    /\ \A i \in DOMAIN results[r] : results[r][i] = "SUCCESS" => i \in file[r].ready
DryInv == \A r \in Requests : DryOf(r)

\* A request in whose time nobody does anything is alone.
AloneInv == \A r \in calm : InFlight \subseteq {r}

\* The row a request comes to next, what the rows from there to another one
\* need of its voucher, and that a merchant has it.
Upcoming(r) == IF pc[r] \in {"transfer", "ledger"} THEN Current(r) + 1 ELSE Current(r)
ToCome(rows, u, i) == {j \in RowsOf(rows, rows[i].voucher) : u <= j /\ j <= i}
Lasts(rows, u, m) ==
  \A i \in DOMAIN rows : i >= u =>
    Asked(rows, ToCome(rows, u, i)) <= Cardinality(WalletPool(rows[i].voucher, m))

\* The stock of a previewed file lasts, if its merchant has listed no code a
\* transfer had claimed.
Kept(r) == /\ file[r] # None /\ file[r].f.kind = "csv" /\ file[r].ready = DOMAIN Rows(r)
           /\ \A c \in crossed : HolderOf[c] # seller[r]
KeptOf(r) ==
  r \in calm /\ Kept(r) =>
    /\ \A i \in DOMAIN Rows(r) : Valid(Rows(r)[i])
    /\ \A rows \in {Rows(r)}, u \in {Upcoming(r)}, m \in {seller[r]} : Lasts(rows, u, m)
    /\ \A i \in 1 .. MaxRows : i < Current(r) => results[r][i] = "SUCCESS"
    /\ \A i \in 1 .. MaxRows : i = Current(r) /\ pc[r] = "transfer" =>
         \A c \in Claimed(<<r, i>>) : HolderOf[c] = seller[r]
KeptInv == \A r \in Requests : KeptOf(r)

ForecastInv == DryInv /\ AloneInv /\ KeptInv

\* What a request has seen belongs to the customer; if it is alone, it is all.
LookOf(r) ==
  /\ pc[r] = "balances" => view[r] # None
  /\ view[r] # None =>
       /\ \A c \in view[r].unused \cup view[r].used : owner[c] = view[r].by
       /\ view[r].unused \cap view[r].used = {}
       /\ view[r].used \subseteq used
       /\ view[r].shown \subseteq view[r].unused \cup view[r].used
       /\ pc[r] = "over" => Filtered(r, view[r].used) \subseteq view[r].shown
       /\ r \in calm => /\ view[r].unused = {c \in Codes : owner[c] = view[r].by} \ used
                        /\ view[r].used = {c \in Codes : owner[c] = view[r].by} \cap used
       /\ r \in calm /\ pc[r] = "over" =>
            view[r].shown = Filtered(r, {c \in Codes : owner[c] = view[r].by})
LookInv == \A r \in Requests : LookOf(r)

ViewInv == ViewTypeOK /\ LookInv

IInv == PoolInv /\ CallInv /\ ForecastInv /\ ViewInv

-----------------------------------------------------------------------------
(* 1. The pool of codes.                                                   *)

DataTypes ==
  /\ owner \in [Codes -> Holders]
  /\ shelved \subseteq Codes /\ used \subseteq Codes /\ crossed \subseteq Codes
  /\ claim \in [Codes -> Ops \cup {None}]
  /\ tokens \in [Vouchers \X Holders -> Nat]
  /\ settled \subseteq Ops
  /\ delivered \in [Ops -> SUBSET Codes]
  /\ receiver \in [Ops -> Customers \cup {None}]

\* The parts of PoolInv that are about codes and operations.
DataInv == DataTypes /\ OwnerInv /\ OpInv /\ TokenInv

\* The coupons of a wallet are finitely many.
LEMMA HeldFinite ==
  ASSUME NEW v, NEW h
  PROVE  IsFiniteSet(Held(v, h)) /\ Cardinality(Held(v, h)) \in Nat
<1>1. Held(v, h) \subseteq Codes
  BY DEF Held
<1> QED
  BY <1>1, CodesOK, FS_Subset, FS_CardinalityType

\* And so are those a merchant has lost.
LEMMA LostFinite ==
  ASSUME DataInv, NEW v, NEW h
  PROVE  IsFiniteSet(Lost(v, h)) /\ Cardinality(Lost(v, h)) \in Nat
<1>1. Lost(v, h) \subseteq Codes
  BY DEF Lost, DataInv, DataTypes
<1> QED
  BY <1>1, CodesOK, FS_Subset, FS_CardinalityType

\* What held and lost coupons come to in the next state.
LEMMA NextFinite ==
  ASSUME DataTypes', NEW v, NEW h
  PROVE  /\ IsFiniteSet(Held(v, h)') /\ Cardinality(Held(v, h)') \in Nat
         /\ IsFiniteSet(Lost(v, h)') /\ Cardinality(Lost(v, h)') \in Nat
<1>1. Held(v, h)' \subseteq Codes
  BY DEF Held
<1>2. Lost(v, h)' \subseteq Codes
  BY DEF Lost, DataTypes
<1> QED
  BY <1>1, <1>2, CodesOK, FS_Subset, FS_CardinalityType

\* What the writes of a step do to the pool.
NewClaim(o) ==
  /\ Untouched(o)
  /\ \E v \in Vouchers, m \in Merchants, k \in Customers :
       \E S \in SUBSET WalletPool(v, m) : S # {} /\ Claim(o, S, k)
Move(o) ==
  /\ o \notin settled /\ Claimed(o) # {} /\ Moved(o) /\ UNCHANGED <<owner, delivered>>
Write(o) ==
  /\ o \in settled /\ OpenClaim(o) /\ WriteLedger(o)
  /\ UNCHANGED <<used, claim, tokens, settled, receiver, crossed>>
Free(o) ==
  /\ o \notin settled /\ OpenClaim(o)
  /\ claim' = [c \in Codes |-> IF claim[c] = o THEN None ELSE claim[c]]
  /\ UNCHANGED <<owner, shelved, used, tokens, settled, delivered, receiver, crossed>>
Stays ==
  UNCHANGED <<owner, shelved, used, claim, tokens, settled, delivered, receiver, crossed>>

\* Codes in the pool were never sold.
LEMMA PoolCodes ==
  ASSUME DataInv, NEW v, NEW m, NEW c \in WalletPool(v, m)
  PROVE  /\ c \in Codes /\ VoucherOf[c] = v /\ HolderOf[c] = m /\ owner[c] = m
         /\ claim[c] = None /\ c \notin shelved \cup used
  BY DEF WalletPool, DataInv, OwnerInv, Given

\* A claim leaves every coupon where it is.
LEMMA ClaimKeeps ==
  ASSUME DataInv, NEW o \in Ops, NewClaim(o)
  PROVE  DataInv'
<1>1. PICK v \in Vouchers, m \in Merchants, k \in Customers :
        \E S \in SUBSET WalletPool(v, m) : S # {} /\ Claim(o, S, k)
  BY DEF NewClaim
<1>2. PICK S \in SUBSET WalletPool(v, m) : S # {} /\ Claim(o, S, k)
  BY <1>1
<1>3. \A c \in S : /\ c \in Codes /\ VoucherOf[c] = v /\ HolderOf[c] = m
                   /\ claim[c] = None /\ c \notin shelved \cup used
  BY <1>2, PoolCodes
<1>4. /\ claim' = [c \in Codes |-> IF c \in S THEN o ELSE claim[c]]
      /\ receiver' = [receiver EXCEPT ![o] = k]
      /\ UNCHANGED <<owner, shelved, used, tokens, settled, delivered, crossed>>
  BY <1>2 DEF Claim
<1>5. DataTypes'
  BY <1>4 DEF DataInv, DataTypes
<1>6. o \notin settled /\ o # None /\ delivered[o] = {} /\ \A c \in Codes : claim[c] # o
  BY NoneIsNull DEF NewClaim, Untouched, DataInv, OpInv, Claimed
<1>7. /\ \A c \in Codes : claim'[c] = IF c \in S THEN o ELSE claim[c]
      /\ \A p \in Ops : receiver'[p] = IF p = o THEN k ELSE receiver[p]
  BY <1>4 DEF DataInv, DataTypes
<1>8. \A c \in Codes : /\ Given(c)' <=> Given(c)
                       /\ Sent(c)' <=> Sent(c)
                       /\ claim[c] # None => claim'[c] = claim[c] /\ claim[c] # o
  BY <1>3, <1>4, <1>6, <1>7 DEF Given, Sent
<1>9. OwnerInv'
  <2>1. ASSUME NEW c \in Codes
        PROVE  owner'[c] = IF Given(c)' THEN receiver'[claim'[c]] ELSE HolderOf[c]
    <3>1. Given(c) => claim[c] \in Ops /\ receiver'[claim'[c]] = receiver[claim[c]]
      BY <1>7, <1>8 DEF Given, DataInv, DataTypes
    <3> QED
      BY <1>4, <1>8, <3>1 DEF DataInv, OwnerInv
  <2>2. \A c \in used' : Given(c)'
    BY <1>4, <1>8 DEF DataInv, OwnerInv, DataTypes
  <2>3. \A c \in shelved' : ~Given(c)' /\ (claim'[c] # None => c \in crossed')
    BY <1>3, <1>4, <1>7, <1>8 DEF DataInv, OwnerInv, DataTypes
  <2>4. \A c \in crossed' : c \in shelved' \/ Given(c)'
    BY <1>4, <1>8 DEF DataInv, OwnerInv, DataTypes
  <2> QED
    BY <2>1, <2>2, <2>3, <2>4 DEF OwnerInv
<1>10. OpInv'
  <2>1. Claimed(o)' = S /\ \A p \in Ops : p # o => Claimed(p)' = Claimed(p)
    <3>1. Claimed(o)' = S
      BY <1>3, <1>6, <1>7 DEF Claimed
    <3>2. ASSUME NEW p \in Ops, p # o PROVE Claimed(p)' = Claimed(p)
      BY <1>3, <1>7, <3>2, NoneIsNull DEF Claimed
    <3> QED
      BY <3>1, <3>2
  <2>2. ASSUME NEW p \in Ops
        PROVE  /\ delivered'[p] \in {{}, Claimed(p)'}
               /\ delivered'[p] # {} => p \in settled'
               /\ Claimed(p)' # {} => receiver'[p] \in Customers
               /\ p \in settled' => Claimed(p)' # {}
    BY <1>2, <1>4, <1>6, <1>7, <2>1 DEF DataInv, OpInv
  <2>3. ASSUME NEW c \in Codes, NEW d \in Codes, claim'[c] # None, claim'[c] = claim'[d]
        PROVE  VoucherOf[c] = VoucherOf[d] /\ HolderOf[c] = HolderOf[d]
    BY <1>3, <1>6, <1>7, <2>3 DEF DataInv, OpInv
  <2> QED
    BY <2>2, <2>3 DEF OpInv
<1>11. TokenInv'
  <2>1. ASSUME NEW w, NEW h PROVE Held(w, h)' = Held(w, h) /\ Lost(w, h)' = Lost(w, h)
    <3>1. ASSUME NEW c \in Codes PROVE Keeper(c)' = Keeper(c)
      <4>1. Sent(c) => claim[c] \in Ops /\ claim'[c] = claim[c] /\ claim[c] # o
        BY <1>8 DEF Sent, DataInv, DataTypes
      <4> QED
        BY <1>7, <1>8, <4>1 DEF Keeper
    <3>2. Held(w, h)' = Held(w, h)
      BY <1>4, <1>8, <3>1 DEF Held, Off
    <3>3. Lost(w, h)' = Lost(w, h)
      BY <1>4, <1>8 DEF Lost, DataInv, DataTypes
    <3> QED
      BY <3>2, <3>3
  <2> QED
    BY <1>4, <2>1 DEF DataInv, TokenInv
<1> QED
  BY <1>5, <1>9, <1>10, <1>11 DEF DataInv

\* Taking codes out of a wallet takes as many coupons.
LEMMA TakeOut ==
  ASSUME NEW H, NEW S, IsFiniteSet(H), S \subseteq H
  PROVE  /\ IsFiniteSet(S) /\ IsFiniteSet(H \ S)
         /\ Cardinality(H \ S) \in Nat /\ Cardinality(S) \in Nat
         /\ Cardinality(H) = Cardinality(H \ S) + Cardinality(S)
<1> DEFINE R == H \ S
<1>1. IsFiniteSet(S) /\ IsFiniteSet(R)
  BY FS_Subset
<1>2. S \cup R = H /\ S \cap R = {}
  OBVIOUS
<1> HIDE DEF R
<1>3. Cardinality(S \cup R) = Cardinality(S) + Cardinality(R) - Cardinality(S \cap R)
  BY <1>1, FS_Union
<1>4. Cardinality({}) = 0 /\ Cardinality(S) \in Nat /\ Cardinality(R) \in Nat
  BY <1>1, FS_EmptySet, FS_CardinalityType
<1>5. Cardinality(H) = Cardinality(S) + Cardinality(R) - Cardinality({})
  BY ONLY <1>2, <1>3, Zenon
<1>6. Cardinality(H) = Cardinality(R) + Cardinality(S)
  BY ONLY <1>4, <1>5, SMT
<1> QED
  BY <1>1, <1>4, <1>6 DEF R

\* The coupons of an operation pass from its merchant to its receiver.
LEMMA MoveKeeps ==
  ASSUME DataInv, NEW o \in Ops, Move(o)
  PROVE  DataInv'
<1>0. PICK b, v, m, k, n :
        /\ b = CHOOSE d \in Claimed(o) : TRUE
        /\ v = VoucherOf[b] /\ m = HolderOf[b] /\ k = receiver[o]
        /\ n = Cardinality(Claimed(o))
  OBVIOUS
<1>1. b \in Claimed(o)
  BY <1>0 DEF Move
<1>2. b \in Codes /\ claim[b] = o /\ o # None
  BY <1>1, NoneIsNull DEF Claimed
<1>3. /\ v \in Vouchers /\ m \in Merchants /\ k \in Customers /\ m # k
      /\ m \in Holders /\ k \in Holders
  BY <1>0, <1>1, <1>2, StockOK, Apart DEF DataInv, OpInv, Move, Holders
<1>4. delivered[o] = {}
  BY DEF DataInv, OpInv, Move
<1>5. owner[b] = m
  BY <1>0, <1>2, <1>4 DEF DataInv, OwnerInv, Given
<1>6. /\ tokens[<<v, m>>] >= n
      /\ tokens' = [tokens EXCEPT ![<<v, m>>] = @ - n, ![<<v, k>>] = @ + n]
      /\ settled' = settled \cup {o}
      /\ UNCHANGED <<owner, shelved, used, claim, delivered, receiver, crossed>>
  BY <1>0, <1>5 DEF Move, Moved
<1>7. \A c \in Claimed(o) : /\ c \in Codes /\ claim[c] = o /\ VoucherOf[c] = v
                            /\ HolderOf[c] = m /\ c \notin used
                            /\ c \in shelved <=> c \in crossed
  BY <1>0, <1>2, <1>4 DEF Claimed, DataInv, OpInv, OwnerInv, Given
<1>8. IsFiniteSet(Claimed(o)) /\ n \in Nat
  BY <1>0, CodesOK, FS_Subset, FS_CardinalityType DEF Claimed
<1>9. \A w \in Vouchers, h \in Holders :
        tokens'[<<w, h>>] = IF w = v /\ h = m THEN tokens[<<w, h>>] - n
                            ELSE IF w = v /\ h = k THEN tokens[<<w, h>>] + n
                            ELSE tokens[<<w, h>>]
  BY <1>3, <1>6 DEF DataInv, DataTypes
<1>10. DataTypes'
  <2>1. tokens' \in [Vouchers \X Holders -> Nat]
    <3>1. tokens' \in [Vouchers \X Holders -> Int]
      BY <1>3, <1>6, <1>8 DEF DataInv, DataTypes
    <3>2. ASSUME NEW w \in Vouchers, NEW h \in Holders PROVE tokens'[<<w, h>>] \in Nat
      <4>1. tokens[<<w, h>>] \in Nat
        BY DEF DataInv, DataTypes
      <4>2. CASE w = v /\ h = m
        <5>1. tokens'[<<w, h>>] = tokens[<<w, h>>] - n /\ tokens[<<w, h>>] >= n
          BY <1>6, <1>9, <4>2
        <5> QED
          BY <1>8, <4>1, <5>1
      <4>3. CASE ~(w = v /\ h = m)
        <5>1. tokens'[<<w, h>>] \in {tokens[<<w, h>>], tokens[<<w, h>>] + n}
          BY <1>9, <4>3
        <5> QED
          BY <1>8, <4>1, <5>1
      <4> QED
        BY <4>2, <4>3
    <3> QED
      BY <3>1, <3>2
  <2> QED
    BY <1>6, <2>1 DEF DataInv, DataTypes
<1>11. \A c \in Codes : /\ Given(c)' <=> Given(c)
                        /\ Sent(c)' <=> Sent(c) \/ c \in Claimed(o)
                        /\ c \in Claimed(o) => ~Sent(c)
  BY <1>2, <1>6 DEF Given, Sent, Claimed, Move
<1>12. OwnerInv'
  BY <1>6, <1>11 DEF DataInv, DataTypes, OwnerInv
<1>13. OpInv'
  <2>1. \A p \in Ops : Claimed(p)' = Claimed(p)
    BY <1>6 DEF Claimed
  <2> QED
    BY <1>6, <2>1 DEF DataInv, OpInv, Move
<1>14. TokenInv'
  <2> DEFINE A == Claimed(o) \cap shelved
  <2>1. \A c \in Codes : Keeper(c)' = IF c \in Claimed(o) THEN k ELSE Keeper(c)
    BY <1>0, <1>6, <1>7, <1>11 DEF Keeper, Sent
  <2>2. \A c \in Claimed(o) : /\ Keeper(c) = m
                              /\ Off(c) <=> c \in A
                              /\ ~Off(c)'
    BY <1>6, <1>7, <1>11 DEF Keeper, Off
  <2>20. \A c \in Codes \ Claimed(o) : Off(c)' <=> Off(c)
    BY <1>6, <1>11 DEF Off
  <2>21. ASSUME NEW w, NEW h, NEW c
         PROVE  /\ c \in Held(w, h) <=> /\ c \in Codes /\ VoucherOf[c] = w
                                        /\ ~Off(c) /\ Keeper(c) = h
                /\ c \in Held(w, h)' <=>
                     /\ c \in Codes /\ VoucherOf[c] = w
                     /\ IF c \in Claimed(o) THEN k = h ELSE ~Off(c) /\ Keeper(c) = h
    <3>1. c \in Held(w, h) <=> c \in Codes /\ VoucherOf[c] = w /\ ~Off(c) /\ Keeper(c) = h
      BY DEF Held
    <3>2. c \in Held(w, h)' <=>
            c \in Codes /\ VoucherOf[c] = w /\ ~Off(c)' /\ Keeper(c)' = h
      BY DEF Held
    <3> QED
      BY <2>1, <2>2, <2>20, <3>1, <3>2
  <2>22. ASSUME NEW w, NEW h, NEW c
         PROVE  c \in Lost(w, h)' <=> \/ c \in Lost(w, h)
                                      \/ c \in A /\ VoucherOf[c] = w /\ HolderOf[c] = h
    <3>1. c \in Lost(w, h)' <=> /\ c \in crossed /\ VoucherOf[c] = w /\ HolderOf[c] = h
                                /\ Sent(c)'
      BY <1>6 DEF Lost
    <3>2. c \in Lost(w, h) <=> /\ c \in crossed /\ VoucherOf[c] = w /\ HolderOf[c] = h
                               /\ Sent(c)
      BY DEF Lost
    <3>3. c \in crossed => c \in Codes
      BY DEF DataInv, DataTypes
    <3> QED
      BY <1>7, <1>11, <3>1, <3>2, <3>3
  <2>3. Held(v, m)' = Held(v, m) \ (Claimed(o) \ A) /\ Claimed(o) \ A \subseteq Held(v, m)
    BY <1>3, <1>7, <2>2, <2>21
  <2>4. Held(v, k)' \ Claimed(o) = Held(v, k) /\ Claimed(o) \subseteq Held(v, k)'
    BY <1>3, <1>7, <2>2, <2>21
  <2>5. ASSUME NEW w \in Vouchers, NEW h \in Holders, ~(w = v /\ h \in {m, k})
        PROVE  Held(w, h)' = Held(w, h) /\ Lost(w, h)' = Lost(w, h)
    <3>1. ASSUME NEW c PROVE c \in Held(w, h)' <=> c \in Held(w, h)
      <4>1. c \in Claimed(o) => VoucherOf[c] = v /\ Keeper(c) = m
        BY <1>7, <2>2
      <4> QED
        BY <2>21, <2>5, <4>1
    <3>2. ASSUME NEW c PROVE c \in Lost(w, h)' <=> c \in Lost(w, h)
      <4>1. c \in A => VoucherOf[c] = v /\ HolderOf[c] = m
        BY <1>7
      <4> QED
        BY <2>22, <2>5, <4>1
    <3> QED
      BY <3>1, <3>2
  <2>51. Lost(v, k)' = Lost(v, k)
    <3>1. ASSUME NEW c PROVE c \in Lost(v, k)' <=> c \in Lost(v, k)
      <4>1. c \in A => HolderOf[c] = m
        BY <1>7
      <4> QED
        BY <1>3, <2>22, <4>1
    <3> QED
      BY <3>1
  <2>52. Lost(v, m)' \ A = Lost(v, m) /\ A \subseteq Lost(v, m)'
    <3>1. ASSUME NEW c \in A PROVE c \notin Lost(v, m)
      BY <1>7, <1>11 DEF Lost
    <3>2. \A c \in A : VoucherOf[c] = v /\ HolderOf[c] = m
      BY <1>7
    <3>3. \A c : c \in Lost(v, m)' <=> c \in Lost(v, m) \/ c \in A
      BY <2>22, <3>2
    <3> QED
      BY <3>1, <3>3
  <2>6. Cardinality(Held(v, m)) = Cardinality(Held(v, m)') + Cardinality(Claimed(o) \ A)
    BY <2>3, HeldFinite, TakeOut
  <2>61. n = Cardinality(Claimed(o) \ A) + Cardinality(A) /\ Cardinality(A) \in Nat
         /\ Cardinality(Claimed(o) \ A) \in Nat
    BY <1>0, <1>8, TakeOut
  <2>62. Cardinality(Lost(v, m)') = Cardinality(Lost(v, m)) + Cardinality(A)
    BY <1>10, <2>52, NextFinite, TakeOut
  <2>7. Cardinality(Held(v, k)') = Cardinality(Held(v, k)) + n
    BY <1>0, <1>10, <2>4, NextFinite, TakeOut
  <2> HIDE DEF A
  <2>8. /\ tokens[<<v, m>>] + Cardinality(Lost(v, m)) = Cardinality(Held(v, m))
        /\ tokens[<<v, k>>] + Cardinality(Lost(v, k)) = Cardinality(Held(v, k))
    BY <1>3 DEF DataInv, TokenInv
  <2>9. /\ tokens'[<<v, m>>] + Cardinality(Lost(v, m)') = Cardinality(Held(v, m)')
        /\ tokens'[<<v, k>>] + Cardinality(Lost(v, k)') = Cardinality(Held(v, k)')
    <3>1. /\ Cardinality(Held(v, m)') \in Nat /\ Cardinality(Held(v, k)) \in Nat
          /\ Cardinality(Lost(v, m)) \in Nat /\ Cardinality(Lost(v, k)) \in Nat
          /\ Cardinality(Held(v, m)) \in Nat /\ Cardinality(Held(v, k)') \in Nat
      BY <1>10, HeldFinite, LostFinite, NextFinite
    <3>2. /\ tokens'[<<v, m>>] = tokens[<<v, m>>] - n
          /\ tokens'[<<v, k>>] = tokens[<<v, k>>] + n
      BY <1>3, <1>9
    <3>3. tokens[<<v, m>>] \in Nat /\ tokens[<<v, k>>] \in Nat
      BY <1>3 DEF DataInv, DataTypes
    <3>4. tokens'[<<v, m>>] + Cardinality(Lost(v, m)') = Cardinality(Held(v, m)')
      BY <1>8, <2>6, <2>61, <2>62, <2>8, <3>1, <3>2, <3>3
    <3>5. tokens'[<<v, k>>] + Cardinality(Lost(v, k)') = Cardinality(Held(v, k)')
      BY <1>8, <2>51, <2>7, <2>8, <3>1, <3>2, <3>3
    <3> QED
      BY <3>4, <3>5
  <2>10. ASSUME NEW w \in Vouchers, NEW h \in Holders, ~(w = v /\ h \in {m, k})
         PROVE  tokens'[<<w, h>>] + Cardinality(Lost(w, h)') = Cardinality(Held(w, h)')
    BY <1>9, <2>5, <2>10 DEF DataInv, TokenInv
  <2>11. ASSUME NEW w \in Vouchers, NEW h \in Holders
         PROVE  tokens'[<<w, h>>] + Cardinality(Lost(w, h)') = Cardinality(Held(w, h)')
    BY <2>9, <2>10
  <2> QED
    BY <2>11 DEF TokenInv
<1> QED
  BY <1>10, <1>12, <1>13, <1>14 DEF DataInv

\* A ledger gives the codes to whom their coupons went.
LEMMA WriteKeeps ==
  ASSUME DataInv, NEW o \in Ops, Write(o)
  PROVE  DataInv'
<1>1. /\ owner' = [c \in Codes |-> IF c \in Claimed(o) THEN receiver[o] ELSE owner[c]]
      /\ delivered' = [delivered EXCEPT ![o] = Claimed(o)]
      /\ shelved' = shelved \ Claimed(o)
      /\ UNCHANGED <<used, claim, tokens, settled, receiver, crossed>>
      /\ o \in settled /\ Claimed(o) # {} /\ delivered[o] = {}
  BY DEF Write, WriteLedger, OpenClaim
<1>2. Claimed(o) \subseteq Codes /\ receiver[o] \in Customers /\ o # None
  BY <1>1, NoneIsNull DEF Claimed, DataInv, OpInv
<1>3. DataTypes'
  BY <1>1, <1>2 DEF DataInv, DataTypes, Holders
<1>4. \A p \in Ops : delivered'[p] = IF p = o THEN Claimed(o) ELSE delivered[p]
  BY <1>1 DEF DataInv, DataTypes
<1>5. \A c \in Codes : /\ Given(c)' <=> Given(c) \/ c \in Claimed(o)
                       /\ c \in Claimed(o) <=> claim[c] = o
                       /\ Sent(c)' <=> Sent(c)
  <2> SUFFICES ASSUME NEW c \in Codes
      PROVE  /\ Given(c)' <=> Given(c) \/ c \in Claimed(o)
             /\ c \in Claimed(o) <=> claim[c] = o
             /\ Sent(c)' <=> Sent(c)
    OBVIOUS
  <2>1. claim[c] # None => claim[c] \in Ops
    BY DEF DataInv, DataTypes
  <2>2. c \in Claimed(o) <=> claim[c] = o
    BY DEF Claimed
  <2>3. Sent(c)' <=> Sent(c)
    BY <1>1 DEF Sent
  <2>4. Given(c)' <=> claim[c] # None /\ delivered'[claim[c]] # {}
    BY <1>1 DEF Given
  <2>5. Given(c)' <=> Given(c) \/ c \in Claimed(o)
    BY <1>1, <1>2, <1>4, <2>1, <2>2, <2>4 DEF Given
  <2> QED
    BY <2>2, <2>3, <2>5
<1>6. OwnerInv'
  <2>1. \A c \in Codes : owner'[c] = IF Given(c)' THEN receiver'[claim'[c]] ELSE HolderOf[c]
    BY <1>1, <1>5 DEF DataInv, OwnerInv
  <2> QED
    BY <1>1, <1>5, <2>1 DEF DataInv, OwnerInv, DataTypes
<1>7. OpInv'
  <2>1. \A p \in Ops : Claimed(p)' = Claimed(p)
    BY <1>1 DEF Claimed
  <2> QED
    BY <1>1, <1>4, <2>1 DEF DataInv, OpInv
<1>8. TokenInv'
  <2>1. \A c \in Codes : Keeper(c)' = Keeper(c) /\ (Off(c)' <=> Off(c))
    BY <1>1, <1>2, <1>5 DEF Keeper, Off, Sent
  <2>2. \A w, h : Held(w, h)' = Held(w, h) /\ Lost(w, h)' = Lost(w, h)
    BY <1>1, <1>5, <2>1 DEF Held, Lost, DataInv, DataTypes
  <2> QED
    BY <1>1, <2>2 DEF DataInv, TokenInv
<1> QED
  BY <1>3, <1>6, <1>7, <1>8 DEF DataInv

\* Codes that are given back were not handed over.
LEMMA FreeKeeps ==
  ASSUME DataInv, NEW o \in Ops, Free(o)
  PROVE  DataInv'
<1>1. /\ claim' = [c \in Codes |-> IF claim[c] = o THEN None ELSE claim[c]]
      /\ UNCHANGED <<owner, shelved, used, tokens, settled, delivered, receiver, crossed>>
      /\ o \notin settled /\ delivered[o] = {} /\ o # None
  BY NoneIsNull DEF Free, OpenClaim
<1>2. DataTypes'
  BY <1>1 DEF DataInv, DataTypes
<1>3. \A c \in Codes : claim'[c] = IF claim[c] = o THEN None ELSE claim[c]
  BY <1>1
<1>4. \A c \in Codes : (Given(c)' <=> Given(c)) /\ (Sent(c)' <=> Sent(c))
  BY <1>1, <1>3 DEF Given, Sent
<1>5. OwnerInv'
  <2>1. \A c \in Codes : owner'[c] = IF Given(c)' THEN receiver'[claim'[c]] ELSE HolderOf[c]
    BY <1>1, <1>3, <1>4 DEF DataInv, OwnerInv, Given
  <2> QED
    BY <1>1, <1>3, <1>4, <2>1 DEF DataInv, OwnerInv, DataTypes
<1>6. OpInv'
  <2>1. \A p \in Ops : Claimed(p)' = IF p = o THEN {} ELSE Claimed(p)
    BY <1>1, <1>3, NoneIsNull DEF Claimed
  <2>2. \A p \in Ops : /\ delivered'[p] \in {{}, Claimed(p)'}
                       /\ delivered'[p] # {} => p \in settled'
                       /\ Claimed(p)' # {} => receiver'[p] \in Customers
                       /\ p \in settled' => Claimed(p)' # {}
    BY <1>1, <2>1 DEF DataInv, OpInv
  <2>3. \A c, d \in Codes : claim'[c] # None /\ claim'[c] = claim'[d] =>
          VoucherOf[c] = VoucherOf[d] /\ HolderOf[c] = HolderOf[d]
    BY <1>3 DEF DataInv, OpInv
  <2> QED
    BY <2>2, <2>3 DEF OpInv
<1>7. TokenInv'
  <2>1. \A c \in Codes : Keeper(c)' = Keeper(c) /\ (Off(c)' <=> Off(c))
    BY <1>1, <1>3, <1>4 DEF Keeper, Sent, Off
  <2>2. \A w, h : Held(w, h)' = Held(w, h) /\ Lost(w, h)' = Lost(w, h)
    BY <1>1, <1>4, <2>1 DEF Held, Lost, DataInv, DataTypes
  <2> QED
    BY <1>1, <2>2 DEF DataInv, TokenInv
<1> QED
  BY <1>2, <1>5, <1>6, <1>7 DEF DataInv

\* An activation or a redemption takes one coupon of a wallet.
LEMMA LeaveKeeps ==
  ASSUME DataInv, NEW v \in Vouchers, NEW h \in Holders, tokens[<<v, h>>] >= 1,
         tokens' = [tokens EXCEPT ![<<v, h>>] = @ - 1],
         \A w \in Vouchers, j \in Holders : ~(w = v /\ j = h) =>
           Held(w, j)' = Held(w, j) /\ Lost(w, j)' = Lost(w, j),
         Cardinality(Held(v, h)') \in Nat, Cardinality(Lost(v, h)') \in Nat,
         Cardinality(Held(v, h)) + Cardinality(Lost(v, h)') =
           Cardinality(Held(v, h)') + Cardinality(Lost(v, h)) + 1
  PROVE  TokenInv' /\ tokens' \in [Vouchers \X Holders -> Nat]
<1>1. tokens \in [Vouchers \X Holders -> Nat]
  BY DEF DataInv, DataTypes
<1>2. \A w \in Vouchers, j \in Holders :
        tokens'[<<w, j>>] = IF w = v /\ j = h THEN tokens[<<w, j>>] - 1 ELSE tokens[<<w, j>>]
  BY <1>1
<1>3. tokens' \in [Vouchers \X Holders -> Nat]
  <2>1. tokens' \in [Vouchers \X Holders -> Int]
    BY <1>1
  <2>2. ASSUME NEW w \in Vouchers, NEW j \in Holders PROVE tokens'[<<w, j>>] \in Nat
    <3>1. tokens[<<w, j>>] \in Nat
      BY <1>1
    <3>2. CASE w = v /\ j = h
      <4>1. tokens'[<<w, j>>] = tokens[<<w, j>>] - 1 /\ tokens[<<w, j>>] >= 1
        BY <1>2, <3>2
      <4> QED
        BY <3>1, <4>1
    <3> QED
      BY <1>2, <3>1, <3>2
  <2> QED
    BY <2>1, <2>2
<1>4. tokens'[<<v, h>>] + Cardinality(Lost(v, h)') = Cardinality(Held(v, h)')
  <2>1. tokens[<<v, h>>] + Cardinality(Lost(v, h)) = Cardinality(Held(v, h))
    BY DEF DataInv, TokenInv
  <2>2. Cardinality(Lost(v, h)) \in Nat /\ Cardinality(Held(v, h)) \in Nat
    BY LostFinite, HeldFinite
  <2>3. tokens'[<<v, h>>] = tokens[<<v, h>>] - 1 /\ tokens[<<v, h>>] \in Nat
    BY <1>1, <1>2
  <2> QED
    BY <2>1, <2>2, <2>3
<1>5. ASSUME NEW w \in Vouchers, NEW j \in Holders, ~(w = v /\ j = h)
      PROVE  tokens'[<<w, j>>] + Cardinality(Lost(w, j)') = Cardinality(Held(w, j)')
  BY <1>2, <1>5 DEF DataInv, TokenInv
<1> QED
  BY <1>3, <1>4, <1>5 DEF TokenInv

\* A code that leaves a wallet with its coupon.
LEMMA OneLess ==
  ASSUME NEW H, NEW c, IsFiniteSet(H), c \in H
  PROVE  Cardinality(H) = Cardinality(H \ {c}) + 1 /\ Cardinality(H \ {c}) \in Nat
<1>1. {c} \subseteq H /\ Cardinality({c}) = 1
  BY FS_Singleton
<1> QED
  BY <1>1, TakeOut

\* A listed code takes a coupon out of its merchant's wallet: its own, or if a
\* transfer has moved that one, another.
LEMMA ActivateKeeps ==
  ASSUME DataInv, NEW c \in Codes, Activate(c)
  PROVE  DataInv'
<1> DEFINE v == VoucherOf[c]
           m == HolderOf[c]
<1>1. /\ owner[c] \in Merchants /\ c \notin shelved
      /\ tokens[<<v, owner[c]>>] >= 1
      /\ shelved' = shelved \cup {c}
      /\ crossed' = (IF claim[c] # None THEN crossed \cup {c} ELSE crossed)
      /\ tokens' = [tokens EXCEPT ![<<v, owner[c]>>] = @ - 1]
      /\ UNCHANGED <<owner, used, claim, settled, delivered, receiver>>
  BY DEF Activate
<1>2. ~Given(c) /\ owner[c] = m /\ m \in Merchants /\ v \in Vouchers /\ m \in Holders
  <2>1. Given(c) => receiver[claim[c]] \in Customers
    BY DEF Given, DataInv, DataTypes, OpInv, Claimed
  <2> QED
    BY <1>1, <2>1, StockOK, Apart DEF DataInv, OwnerInv, Holders
<1>3. c \notin used /\ c \notin crossed
  BY <1>1, <1>2 DEF DataInv, OwnerInv
<1> HIDE DEF v, m
<1>4. \A d : /\ Keeper(d)' = Keeper(d) /\ (Sent(d)' <=> Sent(d))
             /\ (Given(d)' <=> Given(d))
  BY <1>1 DEF Keeper, Sent, Given
<1>5. OwnerInv'
  BY <1>1, <1>2, <1>4 DEF DataInv, OwnerInv
<1>6. OpInv'
  BY <1>1 DEF DataInv, OpInv, Claimed
<1>7. shelved' \subseteq Codes /\ crossed' \subseteq Codes
  BY <1>1 DEF DataInv, DataTypes
<1>8. \A w, j : Held(w, j)' = IF Sent(c) THEN Held(w, j) ELSE Held(w, j) \ {c}
  <2>1. \A d : Off(d)' <=> Off(d) \/ (d = c /\ ~Sent(c))
    BY <1>1, <1>4 DEF Off
  <2> QED
    BY <1>1, <1>4, <2>1 DEF Held
<1>9. \A w, j : Lost(w, j)' = IF Sent(c) /\ w = v /\ j = m THEN Lost(w, j) \cup {c}
                              ELSE Lost(w, j)
  <2> SUFFICES ASSUME NEW w, NEW j
      PROVE  Lost(w, j)' = IF Sent(c) /\ w = v /\ j = m THEN Lost(w, j) \cup {c}
                           ELSE Lost(w, j)
    OBVIOUS
  <2>1. \A d : d \in crossed' <=> d \in crossed \/ (d = c /\ claim[c] # None)
    BY <1>1
  <2>2. Sent(c) => claim[c] # None
    BY DEF Sent
  <2>3. \A d : d \in Lost(w, j)' <=> /\ d \in crossed' /\ VoucherOf[d] = w
                                     /\ HolderOf[d] = j /\ Sent(d)
    BY <1>4 DEF Lost
  <2>4. \A d : d \in Lost(w, j) <=> /\ d \in crossed /\ VoucherOf[d] = w
                                    /\ HolderOf[d] = j /\ Sent(d)
    BY DEF Lost
  <2>5. v = VoucherOf[c] /\ m = HolderOf[c]
    BY DEF v, m
  <2> QED
    BY <2>1, <2>2, <2>3, <2>4, <2>5
<1>10. \A w, j : ~Sent(c) /\ ~(w = v /\ j = m) => c \notin Held(w, j)
  BY DEF Held, Keeper, v, m
<1>11. ~Sent(c) => c \in Held(v, m)
  BY <1>1, <1>3 DEF Held, Keeper, Off, v, m
<1>12. c \notin Lost(v, m)
  BY <1>3 DEF Lost
<1>13. \A w \in Vouchers, j \in Holders : ~(w = v /\ j = m) =>
         Held(w, j)' = Held(w, j) /\ Lost(w, j)' = Lost(w, j)
  BY <1>8, <1>9, <1>10
<1>14. /\ Cardinality(Held(v, m)') \in Nat /\ Cardinality(Lost(v, m)') \in Nat
       /\ Cardinality(Held(v, m)) + Cardinality(Lost(v, m)') =
            Cardinality(Held(v, m)') + Cardinality(Lost(v, m)) + 1
  <2>1. /\ IsFiniteSet(Held(v, m)) /\ Cardinality(Held(v, m)) \in Nat
        /\ IsFiniteSet(Lost(v, m)) /\ Cardinality(Lost(v, m)) \in Nat
    BY HeldFinite, LostFinite
  <2>2. CASE Sent(c)
    <3>1. Held(v, m)' = Held(v, m) /\ Lost(v, m)' = Lost(v, m) \cup {c}
      BY <1>8, <1>9, <2>2
    <3>2. Cardinality(Lost(v, m)') = Cardinality(Lost(v, m)) + 1
      BY <1>12, <2>1, <3>1, FS_AddElement
    <3> QED
      BY <2>1, <3>1, <3>2
  <2>3. CASE ~Sent(c)
    <3>1. Held(v, m)' = Held(v, m) \ {c} /\ Lost(v, m)' = Lost(v, m)
      BY <1>8, <1>9, <2>3
    <3>2. /\ Cardinality(Held(v, m)) = Cardinality(Held(v, m)') + 1
          /\ Cardinality(Held(v, m)') \in Nat
      BY <1>11, <2>1, <2>3, <3>1, OneLess
    <3> QED
      BY <2>1, <3>1, <3>2
  <2> QED
    BY <2>2, <2>3
<1>15. TokenInv' /\ tokens' \in [Vouchers \X Holders -> Nat]
  BY <1>1, <1>2, <1>13, <1>14, LeaveKeeps
<1>16. DataTypes'
  BY <1>1, <1>7, <1>15 DEF DataInv, DataTypes
<1> QED
  BY <1>5, <1>6, <1>15, <1>16 DEF DataInv

\* A sold code was given to its owner, after its coupon.
LEMMA SoldCodes ==
  ASSUME DataInv, NEW c \in Codes, owner[c] \in Customers
  PROVE  /\ claim[c] \in Ops /\ Given(c) /\ Sent(c) /\ c \notin shelved
         /\ c \in delivered[claim[c]] /\ delivered[claim[c]] = Claimed(claim[c])
         /\ owner[c] = receiver[claim[c]] /\ Keeper(c) = owner[c]
<1>1. HolderOf[c] \in Merchants
  BY StockOK
<1>2. Given(c) /\ owner[c] = receiver[claim[c]]
  BY <1>1, Apart DEF DataInv, OwnerInv
<1>3. claim[c] \in Ops /\ delivered[claim[c]] # {} /\ claim[c] # None
  BY <1>2 DEF Given, DataInv, DataTypes
<1>4. claim[c] \in settled /\ delivered[claim[c]] = Claimed(claim[c])
  BY <1>3 DEF DataInv, OpInv
<1>5. c \notin shelved
  BY <1>2 DEF DataInv, OwnerInv
<1> QED
  BY <1>2, <1>3, <1>4, <1>5 DEF Sent, Claimed, Keeper

\* A redemption takes a customer's code with its coupon.
LEMMA RedeemKeeps ==
  ASSUME DataInv, NEW c \in Codes, Redeem(c)
  PROVE  DataInv'
<1> DEFINE v == VoucherOf[c]
<1>0. PICK k : k = owner[c]
  OBVIOUS
<1>1. /\ c \notin used /\ k \in Customers
      /\ tokens[<<v, k>>] >= 1
      /\ used' = used \cup {c}
      /\ tokens' = [tokens EXCEPT ![<<v, k>>] = @ - 1]
      /\ UNCHANGED <<owner, shelved, claim, settled, delivered, receiver, crossed>>
  BY <1>0 DEF Redeem
<1>2. Given(c) /\ Keeper(c) = k /\ c \notin shelved
  BY <1>0, <1>1, SoldCodes
<1>3. c \in Held(v, k) /\ k \in Holders /\ v \in Vouchers
  BY <1>1, <1>2, StockOK DEF Held, Holders, Off
<1>4. \A w, j : (w = v /\ j = k) \/ c \notin Held(w, j)
  BY <1>2 DEF Held
<1> HIDE DEF v
<1>5. \A w, j : Held(w, j)' = Held(w, j) \ {c} /\ Lost(w, j)' = Lost(w, j)
  <2>1. \A d : /\ Off(d)' <=> Off(d) \/ d = c
               /\ Keeper(d)' = Keeper(d) /\ (Sent(d)' <=> Sent(d))
    BY <1>1 DEF Off, Keeper, Sent
  <2> QED
    BY <1>1, <2>1 DEF Held, Lost
<1>6. /\ Cardinality(Held(v, k)) = Cardinality(Held(v, k)') + 1
      /\ Cardinality(Held(v, k)') \in Nat
  BY <1>3, <1>5, HeldFinite, OneLess
<1>7. Cardinality(Lost(v, k)') \in Nat /\ Lost(v, k)' = Lost(v, k)
  BY <1>5, LostFinite
<1>8. /\ Cardinality(Held(v, k)) + Cardinality(Lost(v, k)') =
           Cardinality(Held(v, k)') + Cardinality(Lost(v, k)) + 1
      /\ \A w \in Vouchers, j \in Holders : ~(w = v /\ j = k) =>
           Held(w, j)' = Held(w, j) /\ Lost(w, j)' = Lost(w, j)
  <2>1. Cardinality(Lost(v, k)) \in Nat
    BY LostFinite
  <2>2. Cardinality(Held(v, k)) + Cardinality(Lost(v, k)') =
           Cardinality(Held(v, k)') + Cardinality(Lost(v, k)) + 1
    BY <1>6, <1>7, <2>1
  <2>3. ASSUME NEW w \in Vouchers, NEW j \in Holders, ~(w = v /\ j = k)
        PROVE  Held(w, j)' = Held(w, j) /\ Lost(w, j)' = Lost(w, j)
    BY <1>4, <1>5, <2>3
  <2> QED
    BY <2>2, <2>3
<1>9. TokenInv' /\ tokens' \in [Vouchers \X Holders -> Nat]
  BY <1>1, <1>3, <1>6, <1>7, <1>8, LeaveKeeps
<1>10. DataTypes'
  BY <1>1, <1>9 DEF DataInv, DataTypes
<1>11. OwnerInv'
  BY <1>1, <1>2 DEF DataInv, OwnerInv, Given
<1>12. OpInv'
  BY <1>1 DEF DataInv, OpInv, Claimed
<1> QED
  BY <1>9, <1>10, <1>11, <1>12 DEF DataInv

\* A step writes for one operation, or for none.
Writes(o) == NewClaim(o) \/ Move(o) \/ Write(o) \/ Free(o)
Elsewhere == Stays \/ \E c \in Codes : Activate(c) \/ Redeem(c)
DataStep  == Elsewhere \/ \E o \in Ops : Writes(o)

\* Nothing written, nothing lost.
LEMMA StaysKeeps == DataInv /\ Stays => DataInv'
<1> SUFFICES ASSUME DataInv, Stays PROVE DataInv'
  OBVIOUS
<1>1. DataTypes' /\ OwnerInv' /\ OpInv'
  BY DEF Stays, DataInv, DataTypes, OwnerInv, OpInv, Given, Claimed
<1>2. \A v, h : Held(v, h)' = Held(v, h) /\ Lost(v, h)' = Lost(v, h)
  BY DEF Stays, Held, Lost, Keeper, Sent, Off
<1>3. TokenInv'
  BY <1>2 DEF Stays, DataInv, TokenInv
<1> QED
  BY <1>1, <1>3 DEF DataInv

\* Any of them keeps codes, operations and coupons together.
LEMMA DataStepKeeps == DataInv /\ DataStep => DataInv'
<1> SUFFICES ASSUME DataInv, DataStep PROVE DataInv'
  OBVIOUS
<1>1. CASE Stays
  BY <1>1, StaysKeeps
<1>2. CASE \E c \in Codes : Activate(c) \/ Redeem(c)
  BY <1>2, ActivateKeeps, RedeemKeeps
<1>3. CASE \E o \in Ops : Writes(o)
  BY <1>3, ClaimKeeps, MoveKeeps, WriteKeeps, FreeKeeps DEF Writes
<1> QED
  BY <1>1, <1>2, <1>3 DEF DataStep, Elsewhere

\* What a step leaves of an operation that is not its own.
OpSame(p) ==
  /\ Claimed(p)' = Claimed(p) /\ delivered'[p] = delivered[p]
  /\ receiver'[p] = receiver[p] /\ (p \in settled' <=> p \in settled)

\* Activations and redemptions are about no operation.
LEMMA ElsewhereSame ==
  ASSUME Elsewhere, NEW p
  PROVE  OpSame(p)
  BY DEF Elsewhere, Stays, Activate, Redeem, OpSame, Claimed

\* A write for one operation is about no other.
LEMMA OthersSame ==
  ASSUME DataInv, NEW o \in Ops, Writes(o), NEW p \in Ops, p # o
  PROVE  OpSame(p)
<1>0. p # None
  BY NoneIsNull
<1>1. CASE NewClaim(o)
  <2>1. PICK v \in Vouchers, m \in Merchants, k \in Customers :
          \E S \in SUBSET WalletPool(v, m) : S # {} /\ Claim(o, S, k)
    BY <1>1 DEF NewClaim
  <2>2. PICK S \in SUBSET WalletPool(v, m) : Claim(o, S, k)
    BY <2>1
  <2>3. \A c \in S : claim[c] = None
    BY <2>2 DEF WalletPool
  <2>4. /\ claim' = [c \in Codes |-> IF c \in S THEN o ELSE claim[c]]
        /\ receiver' = [receiver EXCEPT ![o] = k]
        /\ settled' = settled /\ delivered' = delivered
    BY <2>2 DEF Claim
  <2>5. Claimed(p)' = Claimed(p)
    BY <1>0, <2>3, <2>4 DEF Claimed
  <2>6. receiver'[p] = receiver[p]
    BY <2>4 DEF DataInv, DataTypes
  <2> QED
    BY <2>4, <2>5, <2>6 DEF OpSame
<1>2. CASE Move(o)
  BY <1>2 DEF Move, Moved, OpSame, Claimed
<1>3. CASE Write(o)
  BY <1>3 DEF Write, WriteLedger, OpSame, Claimed, DataInv, DataTypes
<1>4. CASE Free(o)
  <2>1. Claimed(p)' = Claimed(p)
    BY <1>0, <1>4 DEF Free, Claimed
  <2> QED
    BY <1>4, <2>1 DEF Free, OpSame
<1> QED
  BY <1>1, <1>2, <1>3, <1>4 DEF Writes

\* Sold codes stay sold, used ones used, and no code comes back to a merchant.
LEMMA NoWayBack ==
  ASSUME DataInv, DataStep
  PROVE  /\ \A c \in Codes : owner[c] \in Customers => owner'[c] = owner[c]
         /\ \A c \in Codes : owner'[c] \in Merchants => owner[c] = owner'[c]
         /\ used \subseteq used'
<1>1. CASE Elsewhere
  BY <1>1 DEF Elsewhere, Stays, Activate, Redeem
<1>2. ASSUME NEW o \in Ops, NewClaim(o) \/ Move(o) \/ Free(o)
      PROVE  owner' = owner /\ used' = used
  BY <1>2 DEF NewClaim, Claim, Move, Moved, Free
<1>3. ASSUME NEW o \in Ops, Write(o)
      PROVE  /\ \A c \in Codes : owner[c] \in Customers => owner'[c] = owner[c]
             /\ \A c \in Codes : owner'[c] \in Merchants => owner[c] = owner'[c]
             /\ used \subseteq used'
  <2>1. /\ owner' = [c \in Codes |-> IF c \in Claimed(o) THEN receiver[o] ELSE owner[c]]
        /\ used' = used /\ delivered[o] = {} /\ Claimed(o) # {}
    BY <1>3 DEF Write, WriteLedger, OpenClaim
  <2>2. receiver[o] \in Customers
    BY <2>1 DEF DataInv, OpInv
  <2>3. ASSUME NEW c \in Codes, owner[c] \in Customers PROVE c \notin Claimed(o)
    BY <2>1, <2>3, SoldCodes DEF Claimed, Given
  <2> QED
    BY <2>1, <2>2, <2>3, Apart
<1> QED
  BY <1>1, <1>2, <1>3 DEF DataStep, Writes

-----------------------------------------------------------------------------
(* 2. The lowest codes of a pool.                                          *)

\* The members of a set up to one of them, and how many they are.
UpTo(S, c) == {d \in S : d <= c}
Rank(S)    == [c \in S |-> Cardinality(UpTo(S, c))]

\* Ranks tell the members of a finite set of numbers apart, and are all
\* numbers up to its size.
LEMMA RankIsOnto ==
  ASSUME NEW S, S \subseteq Nat, IsFiniteSet(S)
  PROVE  /\ Rank(S) \in [S -> 1 .. Cardinality(S)]
         /\ \A c, d \in S : c # d => Rank(S)[c] # Rank(S)[d]
         /\ \A k \in 1 .. Cardinality(S) : \E c \in S : Rank(S)[c] = k
<1> DEFINE T == 1 .. Cardinality(S)
<1>0. Cardinality(S) \in Nat /\ IsFiniteSet(T) /\ Cardinality(T) = Cardinality(S)
  <2>1. Cardinality(S) \in Nat
    BY FS_CardinalityType
  <2>2. IsFiniteSet(T) /\ Cardinality(T) =
          IF 1 > Cardinality(S) THEN 0 ELSE Cardinality(S) - 1 + 1
    BY <2>1, FS_Interval
  <2> QED
    BY <2>1, <2>2
<1>1. \A c \in S : /\ UpTo(S, c) \subseteq S /\ c \in UpTo(S, c)
                   /\ IsFiniteSet(UpTo(S, c)) /\ Cardinality(UpTo(S, c)) \in Nat
                   /\ Cardinality(UpTo(S, c)) <= Cardinality(S)
  <2> SUFFICES ASSUME NEW c \in S
      PROVE  /\ UpTo(S, c) \subseteq S /\ c \in UpTo(S, c)
             /\ IsFiniteSet(UpTo(S, c)) /\ Cardinality(UpTo(S, c)) \in Nat
             /\ Cardinality(UpTo(S, c)) <= Cardinality(S)
    OBVIOUS
  <2>1. UpTo(S, c) \subseteq S /\ c \in UpTo(S, c)
    BY DEF UpTo
  <2> QED
    BY <2>1, FS_Subset, FS_CardinalityType
<1>2. \A c \in S : Cardinality(UpTo(S, c)) \in T
  <2> SUFFICES ASSUME NEW c \in S PROVE Cardinality(UpTo(S, c)) \in T
    OBVIOUS
  <2>1. Cardinality(UpTo(S, c)) # 0
    BY <1>1, FS_EmptySet
  <2> QED
    BY <1>0, <1>1, <2>1
<1>3. ASSUME NEW c \in S, NEW d \in S, c < d
      PROVE  Cardinality(UpTo(S, c)) # Cardinality(UpTo(S, d))
  <2>0. c \in Nat /\ d \in Nat /\ \A x \in S : x \in Nat
    OBVIOUS
  <2>1. /\ \A x \in S : x <= c => x <= d
        /\ d <= d /\ ~(d <= c)
    BY <1>3, <2>0
  <2>2. UpTo(S, c) \in SUBSET UpTo(S, d) /\ d \in UpTo(S, d) /\ d \notin UpTo(S, c)
    BY <2>1 DEF UpTo
  <2>3. IsFiniteSet(UpTo(S, d))
    BY <1>1
  <2> QED
    BY <2>2, <2>3, FS_Subset
<1>4. \A c, d \in S : c # d => Cardinality(UpTo(S, c)) # Cardinality(UpTo(S, d))
  <2> SUFFICES ASSUME NEW c \in S, NEW d \in S, c # d
      PROVE  Cardinality(UpTo(S, c)) # Cardinality(UpTo(S, d))
    OBVIOUS
  <2>1. c < d \/ d < c
    OBVIOUS
  <2> QED
    BY <1>3, <2>1
<1>5. Rank(S) \in Injection(S, T)
  <2>1. Rank(S) \in [S -> T]
    BY <1>2 DEF Rank
  <2>2. \A c, d \in S : Rank(S)[c] = Rank(S)[d] => c = d
    BY <1>4 DEF Rank
  <2> QED
    BY <2>1, <2>2 DEF Injection, IsInjective
<1>6. Rank(S) \in Surjection(S, T)
  BY <1>0, <1>5, FS_Injection
<1> QED
  BY <1>2, <1>4, <1>6 DEF Rank, Surjection

\* So many lowest members there are as are asked for.
LEMMA LowestSize ==
  ASSUME NEW S, S \subseteq Nat, IsFiniteSet(S), NEW n \in Nat, n <= Cardinality(S)
  PROVE  Lowest(S, n) \subseteq S /\ Cardinality(Lowest(S, n)) = n
<1> DEFINE L == Lowest(S, n)
           f == [c \in L |-> Rank(S)[c]]
<1>1. L = {c \in S : Rank(S)[c] <= n} /\ L \subseteq S
  BY DEF Lowest, Rank, UpTo
<1>2. /\ Rank(S) \in [S -> 1 .. Cardinality(S)] /\ Cardinality(S) \in Nat
      /\ \A c, d \in S : c # d => Rank(S)[c] # Rank(S)[d]
      /\ \A k \in 1 .. Cardinality(S) : \E c \in S : Rank(S)[c] = k
  BY RankIsOnto, FS_CardinalityType
<1>3. IsFiniteSet(L)
  BY <1>1, FS_Subset
<1> HIDE DEF L
<1>4. f \in [L -> 1 .. n]
  <2>1. \A c \in L : Rank(S)[c] \in 1 .. n
    BY <1>1, <1>2
  <2> QED
    BY <2>1
<1>5. \A k \in 1 .. n : \E c \in L : f[c] = k
  <2> SUFFICES ASSUME NEW k \in 1 .. n PROVE \E c \in L : f[c] = k
    OBVIOUS
  <2>1. k \in 1 .. Cardinality(S)
    BY <1>2
  <2>2. PICK c \in S : Rank(S)[c] = k
    BY <1>2, <2>1
  <2>3. c \in L
    BY <1>1, <2>2
  <2> QED
    BY <2>2, <2>3
<1>6. \A c, d \in L : f[c] = f[d] => c = d
  BY <1>1, <1>2
<1> HIDE DEF f
<1>7. f \in Bijection(L, 1 .. n)
  BY <1>4, <1>5, <1>6 DEF Bijection, Injection, Surjection, IsInjective
<1>8. ExistsBijection(L, 1 .. n)
  BY <1>7 DEF ExistsBijection
<1>9. Cardinality(1 .. n) = Cardinality(L)
  BY <1>3, <1>8, FS_Bijection
<1>10. Cardinality(1 .. n) = n
  <2>1. Cardinality(1 .. n) = IF 1 > n THEN 0 ELSE n - 1 + 1
    BY FS_Interval
  <2> QED
    BY <2>1
<1> QED
  BY <1>1, <1>9, <1>10 DEF L

\* A finite set of numbers that is not empty has a greatest one.
LEMMA GreatestNumber ==
  ASSUME NEW S, S \subseteq Nat, IsFiniteSet(S), S # {}
  PROVE  \E c \in S : \A d \in S : d <= c
<1>1. Cardinality(S) \in 1 .. Cardinality(S)
  <2>1. Cardinality(S) \in Nat /\ Cardinality(S) # 0
    BY FS_CardinalityType, FS_EmptySet
  <2> QED
    BY <2>1
<1>2. PICK c \in S : Rank(S)[c] = Cardinality(S)
  BY <1>1, RankIsOnto
<1>3. Cardinality(UpTo(S, c)) = Cardinality(S)
  BY <1>2 DEF Rank
<1>4. UpTo(S, c) \subseteq S
  BY DEF UpTo
<1>5. UpTo(S, c) = S
  BY <1>3, <1>4, FS_Subset
<1> QED
  BY <1>5 DEF UpTo

\* As many coupons as codes, or more, show all codes.
LEMMA NewestAll ==
  ASSUME NEW S, S \subseteq Nat, IsFiniteSet(S), NEW n \in Nat, Cardinality(S) <= n
  PROVE  Newest(S, n) = S
<1>1. ASSUME NEW c \in S
      PROVE  Cardinality({d \in S : d >= c}) <= n
  <2>1. {d \in S : d >= c} \subseteq S
    OBVIOUS
  <2>2. /\ Cardinality({d \in S : d >= c}) <= Cardinality(S)
        /\ Cardinality({d \in S : d >= c}) \in Nat /\ Cardinality(S) \in Nat
    BY <2>1, FS_Subset, FS_CardinalityType
  <2> QED
    BY <2>2
<1> QED
  BY <1>1 DEF Newest

-----------------------------------------------------------------------------
(* 3. Those who ask for transfers.                                         *)

\* What a file is made of.
LEMMA FileRows ==
  ASSUME CallTypeOK, NEW r \in Requests, file[r] # None
  PROVE  /\ file[r] \in Tasks /\ file[r].f \in Files /\ file[r].ready \subseteq 1 .. MaxRows
         /\ file[r].f.kind \in Kinds /\ file[r].f.merchant \in Merchants
         /\ Rows(r) \in Seq(Row) /\ Len(Rows(r)) \in 1 .. MaxRows
         /\ DOMAIN Rows(r) = 1 .. Len(Rows(r))
         /\ \A i \in 1 .. Len(Rows(r)) :
              /\ Rows(r)[i].to \in Customers \cup {Stranger}
              /\ Rows(r)[i].voucher \in Vouchers \cup {Unminted}
              /\ Rows(r)[i].quantity \in Int
              /\ file[r].f.kind # "csv" => Rows(r)[i].quantity >= 1
              /\ file[r].f.kind = "rewards" => Rows(r)[i].quantity = 1
<1>1. file[r] \in Tasks
  BY DEF CallTypeOK
<1>2. file[r].f \in Files /\ file[r].ready \subseteq 1 .. MaxRows
  BY <1>1 DEF Tasks
<1>3. PICK f \in Files : f = file[r].f
  BY <1>2
<1>4. /\ f.kind \in Kinds /\ f.merchant \in Merchants
      /\ f.rows \in Seq(Row) /\ Len(f.rows) \in 1 .. MaxRows
      /\ f.kind # "csv" => \A i \in DOMAIN f.rows : f.rows[i].quantity >= 1
      /\ f.kind = "rewards" => \A i \in DOMAIN f.rows : f.rows[i].quantity = 1
  BY <1>3, FilesOK
<1>5. Rows(r) = f.rows
  BY <1>3 DEF Rows
<1>6. DOMAIN f.rows = 1 .. Len(f.rows) /\ \A i \in 1 .. Len(f.rows) : f.rows[i] \in Row
  BY <1>4
<1>7. \A i \in 1 .. Len(f.rows) : /\ f.rows[i].to \in Customers \cup {Stranger}
                                  /\ f.rows[i].voucher \in Vouchers \cup {Unminted}
                                  /\ f.rows[i].quantity \in Int
  BY <1>6 DEF Row
<1> QED
  BY <1>1, <1>2, <1>3, <1>4, <1>5, <1>6, <1>7

\* What a request has reported.
LEMMA ResultsType ==
  ASSUME CallTypeOK, NEW r \in Requests
  PROVE  /\ results[r] \in Seq(Outcomes) /\ Len(results[r]) \in Nat
         /\ Current(r) = Len(results[r]) + 1 /\ Current(r) \in Nat /\ Current(r) >= 1
         /\ DOMAIN results[r] = 1 .. Len(results[r])
         /\ \A i \in 1 .. Len(results[r]) : results[r][i] \in Outcomes
<1>1. results[r] \in Seq(Outcomes)
  BY DEF CallTypeOK
<1> QED
  BY <1>1 DEF Current

\* A step that does not touch a request, nor its operations.
ControlSame(q) ==
  /\ pc'[q] = pc[q] /\ file'[q] = file[q] /\ seller'[q] = seller[q]
  /\ results'[q] = results[q] /\ log'[q] = log[q] /\ view'[q] = view[q]

\* What is said of a request stays so while others act.
LEMMA BystanderKeeps ==
  ASSUME NEW q, CallOf(q), ControlSame(q), \A i \in 1 .. MaxRows : OpSame(<<q, i>>)
  PROVE  CallOf(q)'
<1>1. /\ Rows(q)' = Rows(q) /\ Current(q)' = Current(q) /\ ThisRow(q)' = ThisRow(q)
      /\ Status(q)' = Status(q)
  BY DEF ControlSame, Rows, Current, ThisRow, Status
<1>2. PlaceOf(q)'
  BY <1>1 DEF CallOf, PlaceOf, ControlSame
<1>3. \A i \in 1 .. MaxRows : AskedFor(q, i)' = AskedFor(q, i)
                              /\ Untouched(<<q, i>>)' = Untouched(<<q, i>>)
  BY <1>1 DEF AskedFor, Untouched, OpSame
<1>4. FutureOf(q)'
  BY <1>1, <1>3 DEF CallOf, FutureOf, ControlSame
<1>5. TransferOf(q)'
  BY <1>1, <1>3 DEF CallOf, TransferOf, ControlSame, OpSame
<1>6. ReportOf(q)'
  BY <1>1, <1>3 DEF CallOf, ReportOf, ReportAt, ControlSame, OpSame
<1>7. LogOf(q)'
  BY <1>1 DEF CallOf, LogOf, ControlSame
<1> QED
  BY <1>2, <1>4, <1>5, <1>6, <1>7 DEF CallOf

\* A row that has come to its end: what is said of it is checked once.
LEMMA ReportKeeps ==
  ASSUME CallTypeOK, pc \in [Requests -> Places], NEW r \in Requests, CallOf(r),
         file[r] # None, pc[r] \in {"row"} \cup Working, Current(r) <= Len(Rows(r)),
         NEW outcome \in Outcomes, Report(r, outcome), view' = view,
         \A i \in 1 .. MaxRows : i # Current(r) => OpSame(<<r, i>>),
         \A i \in 1 .. MaxRows : i = Current(r) =>
           /\ outcome = "SUCCESS" => AskedFor(r, i)' /\ delivered'[<<r, i>>] # {}
           /\ outcome = "DESYNCED" => <<r, i>> \in settled'
           /\ outcome = "FAILED" => Untouched(<<r, i>>)'
  PROVE  CallOf(r)' /\ CallTypeOK' /\ pc' \in [Requests -> Places]
<1> DEFINE told == Told(r, outcome)
<1>1. /\ results' = [results EXCEPT ![r] = Append(results[r], told)]
      /\ pc' = [pc EXCEPT ![r] = "row"]
      /\ UNCHANGED <<file, seller, log>>
  BY DEF Report, Goto
<1>2. told \in Outcomes
  BY DEF Told, Outcomes
<1>3. told = "SUCCESS" <=> outcome = "SUCCESS"
  BY DEF Told
<1>4. told # outcome => told = "FAILED" /\ file[r].f.kind # "csv"
  BY DEF Told
<1> HIDE DEF told
<1>5. /\ results[r] \in Seq(Outcomes) /\ Len(results[r]) \in Nat
      /\ Current(r) = Len(results[r]) + 1 /\ Current(r) \in Nat
  BY ResultsType
<1>6. results'[r] = Append(results[r], told) /\ pc'[r] = "row"
  BY <1>1 DEF CallTypeOK
<1>7. /\ Len(results'[r]) = Len(results[r]) + 1
      /\ results'[r][Current(r)] = told
      /\ \A i \in 1 .. Len(results[r]) : results'[r][i] = results[r][i]
      /\ results'[r] \in Seq(Outcomes)
  BY <1>2, <1>5, <1>6
<1>8. Current(r)' = Current(r) + 1 /\ Rows(r)' = Rows(r) /\ Len(Rows(r)) \in 1 .. MaxRows
  BY <1>1, <1>5, <1>7, FileRows DEF Current, Rows
<1>9. CallTypeOK' /\ pc' \in [Requests -> Places]
  <2>1. results' \in [Requests -> Seq(Outcomes)]
    BY <1>1, <1>6, <1>7 DEF CallTypeOK
  <2>2. pc' \in [Requests -> Places]
    BY <1>1 DEF Places, Calling
  <2> QED
    BY <1>1, <2>1, <2>2 DEF CallTypeOK
<1>10. PlaceOf(r)'
  <2>1. /\ view'[r] = None /\ seller'[r] \in Merchants /\ file'[r] = file[r] /\ file[r] # None
        /\ Len(results'[r]) <= Len(Rows(r))
        /\ file[r].f.kind \in {"json", "single"} =>
             \A i \in DOMAIN Rows(r) : Reachable(Rows(r)[i])
    BY <1>1, <1>5, <1>7 DEF CallOf, PlaceOf, Calling, Working
  <2>2. "row" \in Calling /\ "row" \notin Working /\ "row" \notin {"idle", "balances", "log"}
    BY DEF Calling, Working
  <2> QED
    BY <1>6, <1>8, <2>1, <2>2 DEF PlaceOf
<1>11. FutureOf(r)'
  <2> SUFFICES ASSUME NEW i \in 1 .. MaxRows, i >= Current(r) + 1
      PROVE  Untouched(<<r, i>>)'
    BY <1>5, <1>6, <1>8 DEF FutureOf
  <2>1. Untouched(<<r, i>>) /\ i # Current(r)
    BY <1>5 DEF CallOf, FutureOf
  <2> QED
    BY <2>1 DEF Untouched, OpSame
<1>12. TransferOf(r)'
  BY <1>6 DEF TransferOf
<1>13. ReportOf(r)'
  <2> SUFFICES ASSUME NEW i \in 1 .. MaxRows, i < Current(r) + 1
      PROVE  ReportAt(r, i)'
    BY <1>8 DEF ReportOf
  <2>1. CASE i = Current(r)
    BY <1>1, <1>3, <1>4, <1>7, <2>1 DEF ReportAt
  <2>2. CASE i < Current(r)
    <3>1. ReportAt(r, i) /\ OpSame(<<r, i>>)
      BY <1>5, <2>2 DEF CallOf, ReportOf
    <3>2. results'[r][i] = results[r][i]
      BY <1>5, <1>7, <2>2
    <3>3. AskedFor(r, i)' = AskedFor(r, i) /\ Untouched(<<r, i>>)' = Untouched(<<r, i>>)
      BY <1>8, <3>1 DEF AskedFor, Untouched, OpSame
    <3> QED
      BY <1>1, <3>1, <3>2, <3>3 DEF ReportAt, OpSame
  <2> QED
    BY <1>5, <2>1, <2>2
<1>14. LogOf(r)'
  <2>1. log[r] = None
    BY DEF CallOf, LogOf, Working
  <2> QED
    BY <1>1, <2>1 DEF LogOf
<1> QED
  BY <1>9, <1>10, <1>11, <1>12, <1>13, <1>14 DEF CallOf

\* A request that moves on without a report.
LEMMA MovesOn ==
  ASSUME CallTypeOK, pc \in [Requests -> Places], NEW r \in Requests, NEW place \in Places,
         pc[r] \in Calling, Goto(r, place), UNCHANGED <<file, results, log, view>>
  PROVE  /\ pc'[r] = place /\ pc' \in [Requests -> Places]
         /\ Rows(r)' = Rows(r) /\ Current(r)' = Current(r) /\ ThisRow(r)' = ThisRow(r)
         /\ CallOf(r) => log[r] = None /\ view[r] = None /\ file[r] # None
<1>1. pc'[r] = place /\ pc' \in [Requests -> Places]
  BY DEF Goto
<1>2. CallOf(r) => log[r] = None /\ view[r] = None /\ file[r] # None
  BY DEF CallOf, LogOf, PlaceOf, Calling
<1> QED
  BY <1>1, <1>2 DEF Rows, Current, ThisRow

\* What a step of a request does to the codes, and that it keeps what is said
\* of the request.
Writing(r) == Elsewhere \/ \E i \in 1 .. MaxRows : i = Current(r) /\ Writes(<<r, i>>)
Keeps(r)   == Writing(r) /\ CallOf(r)' /\ CallTypeOK' /\ pc' \in [Requests -> Places]

LEMMA StartKeeps ==
  ASSUME DataInv, CallInv, NEW r \in Requests, Start(r), view' = view
  PROVE  Keeps(r)
<1>1. PICK f \in Files :
        /\ Admitted(f)
        /\ file' = [file EXCEPT ![r] = [f |-> f, ready |-> Ready(f)]]
        /\ seller' = [seller EXCEPT ![r] = f.merchant]
  BY DEF Start
<1>2. /\ pc[r] = "idle" /\ pc' = [pc EXCEPT ![r] = "row"]
      /\ UNCHANGED <<poolVars, results, log>>
  BY DEF Start, Goto
<1>3. /\ f.kind \in Kinds /\ f.merchant \in Merchants
      /\ f.rows \in Seq(Row) /\ Len(f.rows) \in 1 .. MaxRows
  BY FilesOK
<1>4. Ready(f) \subseteq 1 .. MaxRows
  <2>1. Ready(f) \subseteq DOMAIN f.rows
    BY DEF Ready
  <2> QED
    BY <1>3, <2>1, BoundsOK
<1>5. PICK t \in Tasks : t = [f |-> f, ready |-> Ready(f)]
  BY <1>4 DEF Tasks
<1>6. t # None /\ t.f = f
  BY <1>5, NoTaskIsNull
<1>7. /\ file'[r] = t /\ seller'[r] = f.merchant /\ pc'[r] = "row"
      /\ results'[r] = <<>> /\ log'[r] = None /\ view'[r] = None
  BY <1>1, <1>2, <1>5 DEF CallInv, CallTypeOK, CallOf, PlaceOf
<1>8. CallTypeOK' /\ pc' \in [Requests -> Places]
  <2>1. file' \in [Requests -> Tasks \cup {None}] /\ seller' \in [Requests -> Merchants \cup {None}]
    BY <1>1, <1>3, <1>5 DEF CallInv, CallTypeOK
  <2>2. pc' \in [Requests -> Places]
    BY <1>2 DEF CallInv, Places, Calling
  <2> QED
    BY <1>2, <2>1, <2>2 DEF CallInv, CallTypeOK
<1>9. Rows(r)' = f.rows /\ Current(r)' = 1 /\ Current(r) = 1
  BY <1>2, <1>6, <1>7 DEF Rows, Current
<1>10. PlaceOf(r)'
  <2>1. f.kind \in {"json", "single"} => \A i \in DOMAIN f.rows : Reachable(f.rows[i])
    BY <1>1 DEF Admitted
  <2> QED
    BY <1>3, <1>6, <1>7, <1>9, <2>1 DEF PlaceOf, Calling, Working
<1>11. FutureOf(r)'
  <2>1. \A i \in 1 .. MaxRows : Untouched(<<r, i>>)
    <3> SUFFICES ASSUME NEW i \in 1 .. MaxRows PROVE Untouched(<<r, i>>)
      OBVIOUS
    <3>1. i > 1 \/ i = 1
      OBVIOUS
    <3> QED
      BY <1>2, <1>9, <3>1 DEF CallInv, CallOf, FutureOf
  <2> QED
    BY <1>2, <2>1 DEF FutureOf, Untouched, Claimed, poolVars
<1>12. TransferOf(r)' /\ ReportOf(r)' /\ LogOf(r)'
  BY <1>7, <1>9 DEF TransferOf, ReportOf, LogOf
<1>13. Stays
  BY <1>2 DEF poolVars, Stays
<1> QED
  BY <1>8, <1>10, <1>11, <1>12, <1>13 DEF Keeps, Writing, Elsewhere, CallOf

\* Where a row begins, what is said before the transfer stays true.
LEMMA MovesOnKeeps ==
  ASSUME CallInv, NEW r \in Requests, NEW place \in Places, pc[r] \in {"row", "prepare"},
         Goto(r, place), UNCHANGED <<file, results, log, view>>,
         \A i \in 1 .. MaxRows : OpSame(<<r, i>>),
         place \in {"prepare", "log", "over"},
         place = "prepare" => /\ seller'[r] \in Merchants
                              /\ Current(r) <= Len(Rows(r)) /\ Valid(ThisRow(r)),
         place = "log" => file[r].f.kind = "csv" /\ seller' = seller,
         place \in {"log", "over"} => Len(results[r]) = Len(Rows(r))
  PROVE  CallOf(r)'
<1>0. pc[r] \in Calling
  BY DEF Calling
<1>1. /\ pc'[r] = place /\ pc' \in [Requests -> Places]
      /\ Rows(r)' = Rows(r) /\ Current(r)' = Current(r) /\ ThisRow(r)' = ThisRow(r)
      /\ log[r] = None /\ view[r] = None /\ file[r] # None
  BY <1>0, MovesOn DEF CallInv
<1>2. \A i \in 1 .. MaxRows : /\ AskedFor(r, i)' = AskedFor(r, i)
                              /\ Untouched(<<r, i>>)' = Untouched(<<r, i>>)
  BY <1>1 DEF AskedFor, Untouched, OpSame
<1>3. PlaceOf(r)'
  BY <1>1 DEF CallInv, CallOf, PlaceOf, Calling, Working
<1>4. FutureOf(r)'
  BY <1>1, <1>2 DEF CallInv, CallOf, FutureOf
<1>5. TransferOf(r)'
  BY <1>1 DEF TransferOf
<1>6. ReportOf(r)'
  BY <1>1, <1>2 DEF CallInv, CallOf, ReportOf, ReportAt, OpSame
<1>7. LogOf(r)'
  BY <1>1 DEF LogOf
<1> QED
  BY <1>3, <1>4, <1>5, <1>6, <1>7 DEF CallOf

\* A step that leaves the codes alone.
LEMMA StaysSame ==
  ASSUME UNCHANGED poolVars
  PROVE  Stays /\ \A p : OpSame(p)
<1>1. Stays
  BY DEF poolVars, Stays
<1> QED
  BY <1>1, ElsewhereSame DEF Elsewhere

\* Who is at a row has its file.
LEMMA AtRow ==
  ASSUME CallInv, NEW r \in Requests, pc[r] \in Calling
  PROVE  /\ file[r] # None /\ seller[r] \in Merchants /\ view[r] = None /\ log[r] = None
         /\ Len(results[r]) <= Len(Rows(r)) /\ Current(r) <= Len(Rows(r)) + 1
         /\ Current(r) <= Len(Rows(r)) => Current(r) \in 1 .. MaxRows
         /\ pc[r] \in Working => Current(r) <= Len(Rows(r)) /\ Valid(ThisRow(r))
<1>1. /\ file[r] # None /\ seller[r] \in Merchants /\ view[r] = None
      /\ Len(results[r]) <= Len(Rows(r))
      /\ pc[r] \in Working => Current(r) <= Len(Rows(r)) /\ Valid(ThisRow(r))
  BY DEF CallInv, CallOf, PlaceOf
<1>2. log[r] = None
  BY DEF CallInv, CallOf, LogOf, Calling
<1>3. Len(Rows(r)) \in 1 .. MaxRows
  BY <1>1, FileRows DEF CallInv
<1>4. Len(results[r]) \in Nat /\ Current(r) = Len(results[r]) + 1
  BY ResultsType DEF CallInv
<1> QED
  BY <1>1, <1>2, <1>3, <1>4, BoundsOK

\* A file is sent with its stock looked at, and rows are taken one by one.
LEMMA BeginRowKeeps ==
  ASSUME DataInv, CallInv, NEW r \in Requests, BeginRow(r), view' = view
  PROVE  Keeps(r)
<1>1. /\ pc[r] = "row" /\ Current(r) <= Len(Rows(r)) /\ file[r].f.kind # "rewards"
      /\ IF file[r].f.kind = "csv" /\ ~Valid(ThisRow(r))
           THEN Report(r, "FAILED")
           ELSE Goto(r, "prepare") /\ UNCHANGED callVars
      /\ Stays /\ \A p : OpSame(p)
  BY StaysSame DEF BeginRow
<1>2. /\ file[r] # None /\ seller[r] \in Merchants /\ Current(r) \in 1 .. MaxRows
  BY <1>1, AtRow DEF Calling
<1>3. Writing(r)
  BY <1>1 DEF Writing, Elsewhere
<1>4. CASE file[r].f.kind = "csv" /\ ~Valid(ThisRow(r))
  <2>1. Report(r, "FAILED")
    BY <1>1, <1>4
  <2>2. Untouched(<<r, Current(r)>>)
    BY <1>1, <1>2 DEF CallInv, CallOf, FutureOf
  <2>3. \A i \in 1 .. MaxRows : i = Current(r) => Untouched(<<r, i>>)'
    BY <1>1, <2>2 DEF Untouched, OpSame
  <2>4. CallOf(r)' /\ CallTypeOK' /\ pc' \in [Requests -> Places]
    BY <1>1, <1>2, <2>1, <2>3, ReportKeeps DEF CallInv, Outcomes
  <2> QED
    BY <1>3, <2>4 DEF Keeps
<1>5. CASE ~(file[r].f.kind = "csv" /\ ~Valid(ThisRow(r)))
  <2>1. Goto(r, "prepare") /\ UNCHANGED callVars
    BY <1>1, <1>5
  <2>2. Valid(ThisRow(r))
    <3>1. /\ Current(r) \in 1 .. Len(Rows(r)) /\ DOMAIN Rows(r) = 1 .. Len(Rows(r))
          /\ file[r].f.kind \in Kinds
          /\ Rows(r)[Current(r)].quantity \in Int
          /\ file[r].f.kind # "csv" => Rows(r)[Current(r)].quantity >= 1
      BY <1>1, <1>2, FileRows DEF CallInv
    <3>2. file[r].f.kind # "csv" => file[r].f.kind \in {"json", "single"}
      BY <1>1, <3>1 DEF Kinds
    <3>3. file[r].f.kind # "csv" => Reachable(Rows(r)[Current(r)])
      BY <1>2, <3>1, <3>2 DEF CallInv, CallOf, PlaceOf
    <3>4. file[r].f.kind # "csv" => Rows(r)[Current(r)].quantity > 0
      BY <3>1
    <3> QED
      BY <1>5, <3>3, <3>4 DEF Valid, ThisRow
  <2>3. CallOf(r)'
    BY <1>1, <1>2, <2>1, <2>2, MovesOnKeeps DEF callVars, Places, Calling
  <2>4. CallTypeOK' /\ pc' \in [Requests -> Places]
    BY <2>1 DEF CallInv, CallTypeOK, callVars, Goto, Places, Calling
  <2> QED
    BY <1>3, <2>3, <2>4 DEF Keeps
<1> QED
  BY <1>4, <1>5

\* The merchants' pool of a voucher.
AnyPool(v) == UNION {WalletPool(v, m) : m \in Merchants}

\* A reward is taken from whoever has a code.
LEMMA FindRewardKeeps ==
  ASSUME DataInv, CallInv, NEW r \in Requests, FindReward(r), view' = view
  PROVE  Keeps(r)
<1>1. /\ pc[r] = "row" /\ Current(r) <= Len(Rows(r)) /\ file[r].f.kind = "rewards"
      /\ IF ThisRow(r).to = Stranger \/ AnyPool(ThisRow(r).voucher) = {}
           THEN Report(r, "FAILED")
           ELSE /\ seller' = [seller EXCEPT ![r] =
                     owner[CHOOSE c \in Lowest(AnyPool(ThisRow(r).voucher), 1) : TRUE]]
                /\ Goto(r, "prepare")
                /\ UNCHANGED <<file, results, log>>
      /\ Stays /\ \A p : OpSame(p)
  BY StaysSame DEF FindReward, AnyPool
<1>2. /\ file[r] # None /\ seller[r] \in Merchants /\ Current(r) \in 1 .. MaxRows
  BY <1>1, AtRow DEF Calling
<1>3. Writing(r)
  BY <1>1 DEF Writing, Elsewhere
<1>4. CASE ThisRow(r).to = Stranger \/ AnyPool(ThisRow(r).voucher) = {}
  <2>1. Report(r, "FAILED")
    BY <1>1, <1>4
  <2>2. Untouched(<<r, Current(r)>>)
    BY <1>1, <1>2 DEF CallInv, CallOf, FutureOf
  <2>3. \A i \in 1 .. MaxRows : i = Current(r) => Untouched(<<r, i>>)'
    BY <1>1, <2>2 DEF Untouched, OpSame
  <2>4. CallOf(r)' /\ CallTypeOK' /\ pc' \in [Requests -> Places]
    BY <1>1, <1>2, <2>1, <2>3, ReportKeeps DEF CallInv, Outcomes
  <2> QED
    BY <1>3, <2>4 DEF Keeps
<1>5. CASE ~(ThisRow(r).to = Stranger \/ AnyPool(ThisRow(r).voucher) = {})
  <2>1. PICK P : P = AnyPool(ThisRow(r).voucher)
    OBVIOUS
  <2>2. PICK c : c = CHOOSE d \in Lowest(P, 1) : TRUE
    OBVIOUS
  <2>3. /\ seller' = [seller EXCEPT ![r] = owner[c]]
        /\ Goto(r, "prepare") /\ UNCHANGED <<file, results, log>>
    BY <1>1, <1>5, <2>1, <2>2
  <2>4. c \in P
    <3>1. P \subseteq Nat /\ IsFiniteSet(P) /\ P # {}
      <4>1. P \subseteq Codes
        BY <2>1 DEF AnyPool, WalletPool
      <4> QED
        BY <1>5, <2>1, <4>1, CodesOK, FS_Subset
    <3>2. 1 <= Cardinality(P)
      <4>1. Cardinality(P) \in Nat /\ Cardinality(P) # 0
        BY <3>1, FS_CardinalityType, FS_EmptySet
      <4> QED
        BY <4>1
    <3>3. Lowest(P, 1) \subseteq P /\ Cardinality(Lowest(P, 1)) = 1
      BY <3>1, <3>2, LowestSize
    <3>4. Lowest(P, 1) # {}
      BY <3>3, FS_EmptySet
    <3> QED
      BY <2>2, <3>3, <3>4
  <2>5. c \in Codes /\ VoucherOf[c] = ThisRow(r).voucher /\ owner[c] \in Merchants
    BY <2>1, <2>4 DEF AnyPool, WalletPool
  <2>6. Valid(ThisRow(r))
    <3>1. /\ Rows(r)[Current(r)].to \in Customers \cup {Stranger}
          /\ Rows(r)[Current(r)].quantity = 1
      BY <1>1, <1>2, FileRows DEF CallInv
    <3> QED
      BY <1>5, <2>5, <3>1, StockOK DEF Valid, Reachable, ThisRow
  <2>7. seller' \in [Requests -> Merchants \cup {None}] /\ seller'[r] \in Merchants
    BY <2>3, <2>5 DEF CallInv, CallTypeOK
  <2>8. CallOf(r)'
    BY <1>1, <2>3, <2>6, <2>7, MovesOnKeeps DEF Places, Calling
  <2>9. CallTypeOK' /\ pc' \in [Requests -> Places]
    BY <2>3, <2>7 DEF CallInv, CallTypeOK, Goto, Places, Calling
  <2> QED
    BY <1>3, <2>8, <2>9 DEF Keeps
<1> QED
  BY <1>4, <1>5

\* The last row behind it, a request ends or writes its log.
LEMMA FinishKeeps ==
  ASSUME DataInv, CallInv, NEW r \in Requests, Finish(r), view' = view
  PROVE  Keeps(r)
<1> DEFINE place == IF file[r].f.kind = "csv" THEN "log" ELSE "over"
<1>1. /\ pc[r] = "row" /\ Current(r) > Len(Rows(r)) /\ Goto(r, place)
      /\ UNCHANGED callVars /\ Stays /\ \A p : OpSame(p)
  BY StaysSame DEF Finish
<1>2. file[r] # None /\ seller[r] \in Merchants /\ Current(r) <= Len(Rows(r)) + 1
  BY <1>1, AtRow DEF Calling
<1>3. Len(results[r]) = Len(Rows(r))
  <2>1. Len(Rows(r)) \in Nat /\ Len(results[r]) \in Nat /\ Current(r) = Len(results[r]) + 1
    BY <1>2, FileRows, ResultsType DEF CallInv
  <2> QED
    BY <1>1, <1>2, <2>1
<1>4. place \in {"log", "over"} /\ place \in Places /\ (place = "log" => file[r].f.kind = "csv")
  BY DEF Places, Calling
<1> HIDE DEF place
<1>5. CallOf(r)'
  BY <1>1, <1>3, <1>4, MovesOnKeeps DEF callVars
<1>6. CallTypeOK' /\ pc' \in [Requests -> Places]
  BY <1>1, <1>4 DEF CallInv, CallTypeOK, callVars, Goto
<1> QED
  BY <1>1, <1>5, <1>6 DEF Keeps, Writing, Elsewhere

\* The log is written of results that are not added to any more.
LEMMA WriteLogKeeps ==
  ASSUME DataInv, CallInv, NEW r \in Requests, WriteLog(r), view' = view
  PROVE  Keeps(r)
<1>1. /\ pc[r] = "log" /\ Goto(r, "over")
      /\ log' = [log EXCEPT ![r] = Status(r)] \/ log' = log
      /\ UNCHANGED <<file, seller, results>> /\ Stays /\ \A p : OpSame(p)
  BY StaysSame DEF WriteLog
<1>2. /\ file[r] # None /\ seller[r] \in Merchants /\ view[r] = None /\ log[r] = None
  BY <1>1, AtRow DEF Calling
<1>3. /\ pc'[r] = "over" /\ pc' \in [Requests -> Places]
      /\ log'[r] \in {None, Status(r)}
      /\ log' \in [Requests -> LogStatuses \cup {None}]
  <2>1. Status(r) \in LogStatuses
    BY DEF Status, LogStatuses
  <2> QED
    BY <1>1, <1>2, <2>1 DEF CallInv, CallTypeOK, Goto, Places
<1>4. Rows(r)' = Rows(r) /\ Current(r)' = Current(r) /\ Status(r)' = Status(r)
  BY <1>1 DEF Rows, Current, Status
<1>5. \A i \in 1 .. MaxRows : /\ AskedFor(r, i)' = AskedFor(r, i)
                              /\ Untouched(<<r, i>>)' = Untouched(<<r, i>>)
  BY <1>1, <1>4 DEF AskedFor, Untouched, OpSame
<1>6. PlaceOf(r)'
  BY <1>1, <1>2, <1>3, <1>4 DEF CallInv, CallOf, PlaceOf, Calling, Working
<1>7. FutureOf(r)' /\ TransferOf(r)' /\ ReportOf(r)'
  BY <1>1, <1>3, <1>4, <1>5
     DEF CallInv, CallOf, FutureOf, TransferOf, ReportOf, ReportAt, OpSame
<1>8. LogOf(r)'
  BY <1>1, <1>2, <1>3, <1>4 DEF CallInv, CallOf, PlaceOf, LogOf
<1>9. CallTypeOK'
  BY <1>1, <1>3 DEF CallInv, CallTypeOK
<1> QED
  BY <1>1, <1>3, <1>6, <1>7, <1>8, <1>9 DEF Keeps, Writing, Elsewhere, CallOf

\* Pools are finite sets of numbers.
LEMMA PoolFinite ==
  ASSUME NEW v, NEW m
  PROVE  /\ WalletPool(v, m) \subseteq Nat /\ IsFiniteSet(WalletPool(v, m))
         /\ Cardinality(WalletPool(v, m)) \in Nat
<1>1. WalletPool(v, m) \subseteq Codes
  BY DEF WalletPool
<1> QED
  BY <1>1, CodesOK, FS_Subset, FS_CardinalityType

\* What a valid row asks for.
LEMMA ValidRow ==
  ASSUME CallInv, NEW r \in Requests, pc[r] \in Working
  PROVE  /\ Rows(r)[Current(r)].to \in Customers
         /\ Rows(r)[Current(r)].voucher \in Vouchers
         /\ Rows(r)[Current(r)].quantity \in Nat /\ Rows(r)[Current(r)].quantity > 0
<1>1. /\ file[r] # None /\ Current(r) \in 1 .. MaxRows /\ Current(r) <= Len(Rows(r))
      /\ Valid(ThisRow(r))
  BY AtRow DEF Working, Calling
<1>2. Rows(r)[Current(r)].quantity \in Int
  BY <1>1, FileRows DEF CallInv
<1> QED
  BY <1>1, <1>2 DEF Valid, Reachable, ThisRow

\* The codes a row claims are as many as it asks for, of its voucher.
LEMMA ClaimIsAsked ==
  ASSUME DataInv, CallInv, NEW r \in Requests, pc[r] = "prepare",
         NEW i, i = Current(r), NEW S,
         S = Lowest(WalletPool(ThisRow(r).voucher, seller[r]), ThisRow(r).quantity),
         Cardinality(WalletPool(ThisRow(r).voucher, seller[r])) >= ThisRow(r).quantity,
         Claim(<<r, i>>, S, ThisRow(r).to)
  PROVE  /\ NewClaim(<<r, i>>) /\ <<r, i>> \in Ops
         /\ S \subseteq WalletPool(ThisRow(r).voucher, seller[r])
         /\ Cardinality(S) = ThisRow(r).quantity
         /\ Claimed(<<r, i>>)' = S /\ S # {}
         /\ receiver'[<<r, i>>] = ThisRow(r).to
         /\ \A p \in Ops : p # <<r, i>> => OpSame(p)
<1>1. PICK o : o = <<r, i>>
  OBVIOUS
<1>2. PICK v, m, k, n : v = ThisRow(r).voucher /\ m = seller[r] /\ k = ThisRow(r).to
                        /\ n = ThisRow(r).quantity
  OBVIOUS
<1>3. /\ k \in Customers /\ v \in Vouchers /\ n \in Nat /\ n > 0
      /\ m \in Merchants /\ i \in 1 .. MaxRows /\ o \in Ops
  BY <1>1, <1>2, ValidRow, AtRow DEF ThisRow, Ops, Working, Calling
<1>4. S \subseteq WalletPool(v, m) /\ Cardinality(S) = n
  BY <1>2, <1>3, PoolFinite, LowestSize
<1>5. S # {}
  BY <1>3, <1>4, FS_EmptySet
<1>6. Untouched(o)
  BY <1>1, <1>3 DEF CallInv, CallOf, FutureOf
<1>7. Claim(o, S, k)
  BY <1>1, <1>2
<1>8. NewClaim(o)
  BY <1>3, <1>4, <1>5, <1>6, <1>7 DEF NewClaim
<1>9. Claimed(o)' = S
  <2>1. \A c \in S : c \in Codes
    BY <1>4 DEF WalletPool
  <2>2. claim' = [c \in Codes |-> IF c \in S THEN o ELSE claim[c]]
    BY <1>7 DEF Claim
  <2> QED
    BY <1>6, <2>1, <2>2 DEF Claimed, Untouched
<1>10. receiver'[o] = k
  BY <1>3, <1>7 DEF Claim, DataInv, DataTypes
<1>11. \A p \in Ops : p # o => OpSame(p)
  BY <1>3, <1>8, OthersSame DEF Writes
<1> QED
  BY <1>1, <1>2, <1>3, <1>4, <1>5, <1>8, <1>9, <1>10, <1>11

\* Codes are claimed for a row, or it is refused.
LEMMA PrepareKeeps ==
  ASSUME DataInv, CallInv, NEW r \in Requests, Prepare(r), view' = view
  PROVE  Keeps(r)
<1>1. pc[r] = "prepare"
  BY DEF Prepare
<1>2. PICK i \in 1 .. MaxRows : i = Current(r)
  BY <1>1, AtRow DEF Working, Calling
<1>3. /\ file[r] # None /\ seller[r] \in Merchants /\ view[r] = None /\ log[r] = None
      /\ Current(r) <= Len(Rows(r)) /\ Valid(ThisRow(r)) /\ Op(r) = <<r, i>>
  BY <1>1, <1>2, AtRow DEF Working, Calling, Op
<1>4. Untouched(<<r, i>>)
  BY <1>1, <1>2 DEF CallInv, CallOf, FutureOf
<1>5. CASE /\ Cardinality(WalletPool(ThisRow(r).voucher, seller[r])) >= ThisRow(r).quantity
           /\ Claim(Op(r), Lowest(WalletPool(ThisRow(r).voucher, seller[r]),
                                  ThisRow(r).quantity), ThisRow(r).to)
           /\ Goto(r, "transfer") /\ UNCHANGED callVars
  <2>1. PICK S : S = Lowest(WalletPool(ThisRow(r).voucher, seller[r]), ThisRow(r).quantity)
    OBVIOUS
  <2>2. /\ NewClaim(<<r, i>>) /\ <<r, i>> \in Ops
        /\ S \subseteq WalletPool(ThisRow(r).voucher, seller[r])
        /\ Cardinality(S) = ThisRow(r).quantity
        /\ Claimed(<<r, i>>)' = S /\ S # {}
        /\ receiver'[<<r, i>>] = ThisRow(r).to
        /\ \A p \in Ops : p # <<r, i>> => OpSame(p)
    BY <1>1, <1>2, <1>3, <1>5, <2>1, ClaimIsAsked
  <2>3. /\ pc'[r] = "transfer" /\ pc' \in [Requests -> Places]
        /\ Rows(r)' = Rows(r) /\ Current(r)' = Current(r) /\ ThisRow(r)' = ThisRow(r)
    <3>1. "transfer" \in Places /\ pc[r] \in Calling
      BY <1>1 DEF Places, Calling
    <3> QED
      BY <1>5, <3>1, MovesOn DEF callVars, CallInv
  <2>4. /\ file'[r] = file[r] /\ seller'[r] = seller[r] /\ results'[r] = results[r]
        /\ log'[r] = log[r] /\ view'[r] = view[r] /\ delivered' = delivered /\ settled' = settled
    BY <1>5 DEF callVars, Claim
  <2>5. \A j \in 1 .. MaxRows : j # i =>
          /\ OpSame(<<r, j>>)
          /\ AskedFor(r, j)' = AskedFor(r, j)
          /\ Untouched(<<r, j>>)' = Untouched(<<r, j>>)
    <3> SUFFICES ASSUME NEW j \in 1 .. MaxRows, j # i
        PROVE  /\ OpSame(<<r, j>>)
               /\ AskedFor(r, j)' = AskedFor(r, j)
               /\ Untouched(<<r, j>>)' = Untouched(<<r, j>>)
      OBVIOUS
    <3>1. OpSame(<<r, j>>)
      BY <2>2 DEF Ops
    <3> QED
      BY <2>3, <3>1 DEF AskedFor, Untouched, OpSame
  <2>6. Current(r) \in Nat /\ i \in Nat
    BY <1>2
  <2>7. PlaceOf(r)'
    BY <1>1, <1>3, <2>3, <2>4 DEF CallInv, CallOf, PlaceOf, Calling, Working
  <2>8. FutureOf(r)'
    BY <1>1, <1>2, <2>3, <2>5, <2>6 DEF CallInv, CallOf, FutureOf
  <2>9. TransferOf(r)'
    <3>1. delivered[<<r, i>>] = {} /\ <<r, i>> \notin settled
      BY <1>4, <2>2 DEF Untouched, DataInv, OpInv
    <3>2. AskedFor(r, i)'
      <4>1. \A c \in S : VoucherOf[c] = ThisRow(r).voucher
        BY <2>2 DEF WalletPool
      <4>2. Rows(r)'[i] = ThisRow(r)
        BY <1>2, <2>3 DEF ThisRow
      <4> QED
        BY <2>2, <4>1, <4>2 DEF AskedFor
    <3> QED
      BY <1>2, <2>2, <2>3, <2>4, <3>1, <3>2 DEF TransferOf
  <2>10. ReportOf(r)'
    BY <1>2, <2>3, <2>4, <2>5, <2>6 DEF CallInv, CallOf, ReportOf, ReportAt, OpSame
  <2>11. LogOf(r)'
    BY <1>3, <2>4 DEF LogOf
  <2>12. CallTypeOK'
    BY <1>5 DEF CallInv, CallTypeOK, callVars
  <2>13. Writing(r)
    BY <1>2, <2>2 DEF Writing, Writes
  <2> QED
    BY <2>3, <2>7, <2>8, <2>9, <2>10, <2>11, <2>12, <2>13 DEF Keeps, CallOf
<1>6. CASE Report(r, "FAILED") /\ UNCHANGED poolVars
  <2>1. Stays /\ \A p : OpSame(p)
    BY <1>6, StaysSame
  <2>2. \A j \in 1 .. MaxRows : j = Current(r) => Untouched(<<r, j>>)'
    BY <1>2, <1>4, <2>1 DEF Untouched, OpSame
  <2>3. CallOf(r)' /\ CallTypeOK' /\ pc' \in [Requests -> Places]
    BY <1>1, <1>3, <1>6, <2>1, <2>2, ReportKeeps DEF CallInv, Outcomes, Working
  <2> QED
    BY <2>1, <2>3 DEF Keeps, Writing, Elsewhere
<1> QED
  BY <1>5, <1>6 DEF Prepare

\* The operation of a request that is in a transfer.
LEMMA AtTransfer ==
  ASSUME DataInv, CallInv, NEW r \in Requests, pc[r] \in {"transfer", "ledger"}
  PROVE  /\ Current(r) \in 1 .. MaxRows /\ Op(r) = <<r, Current(r)>> /\ Op(r) \in Ops
         /\ \A i \in 1 .. MaxRows : i = Current(r) =>
              /\ <<r, i>> \in Ops /\ Op(r) = <<r, i>> /\ AskedFor(r, i)
              /\ delivered[<<r, i>>] = {} /\ Claimed(<<r, i>>) # {} /\ OpenClaim(<<r, i>>)
              /\ pc[r] = "ledger" <=> <<r, i>> \in settled
<1>1. Current(r) \in 1 .. MaxRows
  BY AtRow DEF Working, Calling
<1>2. Op(r) = <<r, Current(r)>>
  BY DEF Op
<1>3. ASSUME NEW i \in 1 .. MaxRows, i = Current(r)
      PROVE  /\ AskedFor(r, i) /\ delivered[<<r, i>>] = {} /\ Claimed(<<r, i>>) # {}
             /\ pc[r] = "ledger" <=> <<r, i>> \in settled
  BY <1>3 DEF CallInv, CallOf, TransferOf
<1> QED
  BY <1>1, <1>2, <1>3 DEF Ops, OpenClaim

\* A request in a transfer that reports is done with its operation.
LEMMA TransferReports ==
  ASSUME DataInv, CallInv, NEW r \in Requests, pc[r] \in {"transfer", "ledger"}, view' = view,
         NEW outcome \in Outcomes, Report(r, outcome), outcome # "FAILED",
         NEW i \in 1 .. MaxRows, i = Current(r),
         Stays \/ Writes(<<r, i>>),
         outcome = "SUCCESS" => AskedFor(r, i)' /\ delivered'[<<r, i>>] # {},
         outcome = "DESYNCED" => <<r, i>> \in settled'
  PROVE  Keeps(r)
<1>1. \A j \in 1 .. MaxRows : j # i => OpSame(<<r, j>>)
  <2> SUFFICES ASSUME NEW j \in 1 .. MaxRows, j # i PROVE OpSame(<<r, j>>)
    OBVIOUS
  <2>1. <<r, i>> \in Ops /\ <<r, j>> \in Ops /\ <<r, j>> # <<r, i>>
    BY DEF Ops
  <2> QED
    BY <2>1, OthersSame, ElsewhereSame DEF Elsewhere
<1>2. file[r] # None /\ Current(r) <= Len(Rows(r)) /\ pc[r] \in {"row"} \cup Working
  BY AtRow DEF Working, Calling
<1>3. CallOf(r)' /\ CallTypeOK' /\ pc' \in [Requests -> Places]
  BY <1>1, <1>2, ReportKeeps DEF CallInv
<1> QED
  BY <1>3 DEF Keeps, Writing, Elsewhere

\* A transfer moves the coupons, or it raises.
LEMMA TransferKeeps ==
  ASSUME DataInv, CallInv, NEW r \in Requests, Transfer(r), view' = view
  PROVE  Keeps(r)
<1>1. pc[r] = "transfer"
  BY DEF Transfer
<1>2. PICK i \in 1 .. MaxRows : i = Current(r)
  BY <1>1, AtTransfer
<1>3. PICK o \in Ops : o = <<r, i>>
  BY <1>1, <1>2, AtTransfer
<1>4. /\ Op(r) = o /\ AskedFor(r, i) /\ delivered[o] = {} /\ Claimed(o) # {}
      /\ OpenClaim(o) /\ o \notin settled
  BY <1>1, <1>2, <1>3, AtTransfer
<1>5. ASSUME Moved(o), UNCHANGED <<owner, delivered>>
      PROVE  Writes(o)
  BY <1>4, <1>5 DEF Writes, Move
<1>6. CASE /\ Moved(o) /\ Goto(r, "ledger")
           /\ UNCHANGED <<owner, delivered, callVars>>
  <2>1. Writes(o) /\ settled' = settled \cup {o} /\ UNCHANGED <<claim, receiver>>
    BY <1>5, <1>6 DEF Moved
  <2>2. /\ pc'[r] = "ledger" /\ pc' \in [Requests -> Places]
        /\ Rows(r)' = Rows(r) /\ Current(r)' = Current(r) /\ ThisRow(r)' = ThisRow(r)
        /\ log[r] = None /\ view[r] = None /\ file[r] # None
    <3>1. "ledger" \in Places /\ pc[r] \in Calling
      BY <1>1 DEF Places, Calling
    <3> QED
      BY <1>6, <3>1, MovesOn DEF callVars, CallInv
  <2>3. UNCHANGED <<file, seller, results, log, view, owner, delivered>>
    BY <1>6 DEF callVars
  <2>4. \A j \in 1 .. MaxRows : /\ AskedFor(r, j)' = AskedFor(r, j)
                                /\ Claimed(<<r, j>>)' = Claimed(<<r, j>>)
                                /\ j # i => Untouched(<<r, j>>)' = Untouched(<<r, j>>)
                                /\ j # i => (<<r, j>> \in settled' <=> <<r, j>> \in settled)
    BY <1>3, <2>1, <2>2 DEF AskedFor, Untouched, Claimed
  <2>5. PlaceOf(r)'
    BY <1>1, <2>2, <2>3 DEF CallInv, CallOf, PlaceOf, Calling, Working
  <2>6. Current(r) \in Nat /\ i \in Nat
    BY <1>2
  <2>7. FutureOf(r)'
    BY <1>1, <1>2, <2>2, <2>4, <2>6 DEF CallInv, CallOf, FutureOf
  <2>8. TransferOf(r)'
    BY <1>2, <1>3, <1>4, <2>1, <2>2, <2>3, <2>4 DEF TransferOf
  <2>9. ReportOf(r)'
    BY <1>2, <2>2, <2>3, <2>4, <2>6 DEF CallInv, CallOf, ReportOf, ReportAt
  <2>10. LogOf(r)'
    BY <2>2, <2>3 DEF LogOf
  <2>11. CallTypeOK'
    BY <2>3 DEF CallInv, CallTypeOK
  <2> QED
    BY <1>2, <1>3, <2>1, <2>2, <2>5, <2>7, <2>8, <2>9, <2>10, <2>11
       DEF Keeps, CallOf, Writing
<1>7. CASE Release(o) /\ Report(r, "REVIEW")
  <2>1. Writes(o)
    BY <1>4, <1>7 DEF Writes, Free, Release
  <2> QED
    BY <1>1, <1>2, <1>3, <1>7, <2>1, TransferReports DEF Outcomes
<1>8. CASE /\ Report(r, "REVIEW")
           /\ \/ UNCHANGED poolVars
              \/ Moved(o) /\ UNCHANGED <<owner, delivered>>
  <2>1. Stays \/ Writes(o)
    BY <1>5, <1>8, StaysSame
  <2> QED
    BY <1>1, <1>2, <1>3, <1>8, <2>1, TransferReports DEF Outcomes
<1> QED
  BY <1>4, <1>6, <1>7, <1>8 DEF Transfer

\* The ledger is written for a transfer that settled, or it raises.
LEMMA LedgerKeeps ==
  ASSUME DataInv, CallInv, NEW r \in Requests, Ledger(r), view' = view
  PROVE  Keeps(r)
<1>1. /\ pc[r] = "ledger"
      /\ UNCHANGED <<used, claim, tokens, settled, receiver, others, crossed>>
  BY DEF Ledger
<1>2. PICK i \in 1 .. MaxRows : i = Current(r)
  BY <1>1, AtTransfer
<1>3. PICK o \in Ops : o = <<r, i>>
  BY <1>1, <1>2, AtTransfer
<1>4. /\ Op(r) = o /\ AskedFor(r, i) /\ delivered[o] = {} /\ Claimed(o) # {}
      /\ OpenClaim(o) /\ o \in settled
  BY <1>1, <1>2, <1>3, AtTransfer
<1>5. CASE WriteLedger(o) /\ Report(r, "SUCCESS")
  <2>1. Writes(o)
    BY <1>1, <1>4, <1>5 DEF Writes, Write
  <2>2. delivered'[o] # {}
    BY <1>4, <1>5 DEF WriteLedger, DataInv, DataTypes
  <2>3. AskedFor(r, i)'
    <3>1. Rows(r)' = Rows(r) /\ Claimed(<<r, i>>)' = Claimed(<<r, i>>)
      BY <1>1, <1>5 DEF Report, Rows, Claimed
    <3> QED
      BY <1>1, <1>4, <3>1 DEF AskedFor
  <2> QED
    BY <1>1, <1>2, <1>3, <1>5, <2>1, <2>2, <2>3, TransferReports DEF Outcomes
<1>6. CASE UNCHANGED <<owner, delivered, shelved>> /\ Report(r, "DESYNCED")
  <2>1. Stays
    BY <1>1, <1>6 DEF Stays
  <2> QED
    BY <1>1, <1>2, <1>3, <1>4, <1>6, <2>1, TransferReports DEF Outcomes
<1> QED
  BY <1>4, <1>5, <1>6 DEF Ledger

\* The server stops, maybe while the chain moves the coupons.
LEMMA StopKeeps ==
  ASSUME DataInv, CallInv, NEW r \in Requests, Stop(r), view' = view
  PROVE  Keeps(r)
<1>1. pc[r] \in Calling /\ Goto(r, "dead") /\ UNCHANGED callVars
  BY DEF Stop
<1>2. /\ pc'[r] = "dead" /\ pc' \in [Requests -> Places]
      /\ Rows(r)' = Rows(r) /\ Current(r)' = Current(r)
      /\ log[r] = None /\ view[r] = None /\ file[r] # None
  <2>1. "dead" \in Places
    BY DEF Places
  <2> QED
    BY <1>1, <2>1, MovesOn DEF callVars, CallInv
<1>3. Writing(r) /\ \A j \in 1 .. MaxRows : j # Current(r) => OpSame(<<r, j>>)
  <2>1. CASE UNCHANGED poolVars
    BY <2>1, StaysSame DEF Writing, Elsewhere
  <2>2. CASE pc[r] = "transfer" /\ Moved(Op(r)) /\ UNCHANGED <<owner, delivered>>
    <3>1. PICK i \in 1 .. MaxRows : i = Current(r)
      BY <2>2, AtTransfer
    <3>2. PICK o \in Ops : o = <<r, i>>
      BY <2>2, <3>1, AtTransfer
    <3>3. Op(r) = o /\ Claimed(o) # {} /\ o \notin settled
      BY <2>2, <3>1, <3>2, AtTransfer
    <3>4. Writes(o)
      BY <2>2, <3>3 DEF Writes, Move
    <3>5. ASSUME NEW j \in 1 .. MaxRows, j # i PROVE OpSame(<<r, j>>)
      <4>1. <<r, j>> \in Ops /\ <<r, j>> # o
        BY <3>2, <3>5 DEF Ops
      <4> QED
        BY <3>4, <4>1, OthersSame
    <3> QED
      BY <3>1, <3>2, <3>4, <3>5 DEF Writing
  <2> QED
    BY <2>1, <2>2 DEF Stop
<1>4. UNCHANGED <<file, seller, results, log, view>>
  BY <1>1 DEF callVars
<1>5. PlaceOf(r)'
  BY <1>1, <1>2, <1>4 DEF CallInv, CallOf, PlaceOf, Calling, Working
<1>6. \A j \in 1 .. MaxRows : j # Current(r) =>
        /\ AskedFor(r, j)' = AskedFor(r, j)
        /\ Untouched(<<r, j>>)' = Untouched(<<r, j>>)
  BY <1>2, <1>3 DEF AskedFor, Untouched, OpSame
<1>7. Current(r) \in Nat
  BY ResultsType DEF CallInv
<1>8. FutureOf(r)'
  BY <1>2, <1>6, <1>7 DEF CallInv, CallOf, FutureOf
<1>9. TransferOf(r)' /\ LogOf(r)'
  BY <1>2, <1>4 DEF TransferOf, LogOf
<1>10. ReportOf(r)'
  BY <1>2, <1>3, <1>4, <1>6, <1>7 DEF CallInv, CallOf, ReportOf, ReportAt, OpSame
<1>11. CallTypeOK'
  BY <1>4 DEF CallInv, CallTypeOK
<1> QED
  BY <1>2, <1>3, <1>5, <1>8, <1>9, <1>10, <1>11 DEF Keeps, CallOf

\* What recovery does to an operation nobody works on changes nothing that
\* its request has said.
LEMMA RecoverKeeps ==
  ASSUME DataInv, CallInv, NEW o \in Ops, Recover(o), view' = view
  PROVE  Writes(o) /\ CallInv'
<1>1. /\ OpenClaim(o) /\ ~(pc[o[1]] \in {"transfer", "ledger"} /\ Op(o[1]) = o)
      /\ UNCHANGED <<used, tokens, settled, receiver, crossed, callVars, pc>>
  BY DEF Recover, Other
<1>2. Writes(o)
  BY <1>1 DEF Recover, Writes, Write, Free
<1>3. PICK r \in Requests, i \in 1 .. MaxRows : o = <<r, i>>
  BY DEF Ops
<1>4. \A q \in Requests : ControlSame(q)
  BY <1>1 DEF callVars, ControlSame
<1>5. \A q \in Requests, j \in 1 .. MaxRows : <<q, j>> # o => OpSame(<<q, j>>)
  BY <1>2, OthersSame DEF Ops
<1>6. ASSUME NEW q \in Requests, q # r PROVE CallOf(q)'
  BY <1>3, <1>4, <1>5, <1>6, BystanderKeeps DEF CallInv
<1>7. CallOf(r)'
  <2>1. /\ Rows(r)' = Rows(r) /\ Current(r)' = Current(r) /\ ThisRow(r)' = ThisRow(r)
        /\ Status(r)' = Status(r)
    BY <1>4 DEF ControlSame, Rows, Current, ThisRow, Status
  <2>2. PlaceOf(r)' /\ LogOf(r)'
    BY <1>4, <2>1 DEF CallInv, CallOf, PlaceOf, LogOf, ControlSame
  <2>3. ~Untouched(o) /\ delivered[o] = {}
    BY <1>1 DEF OpenClaim, Untouched
  <2>4. \A j \in 1 .. MaxRows : j # i =>
          /\ OpSame(<<r, j>>)
          /\ AskedFor(r, j)' = AskedFor(r, j)
          /\ Untouched(<<r, j>>)' = Untouched(<<r, j>>)
    <3> SUFFICES ASSUME NEW j \in 1 .. MaxRows, j # i
        PROVE  /\ OpSame(<<r, j>>)
               /\ AskedFor(r, j)' = AskedFor(r, j)
               /\ Untouched(<<r, j>>)' = Untouched(<<r, j>>)
      OBVIOUS
    <3>1. OpSame(<<r, j>>)
      BY <1>3, <1>5
    <3> QED
      BY <2>1, <3>1 DEF AskedFor, Untouched, OpSame
  <2>5. FutureOf(r)'
    <3> SUFFICES ASSUME NEW j \in 1 .. MaxRows,
                        \/ j > Current(r)
                        \/ j = Current(r) /\ pc[r] \notin {"transfer", "ledger", "dead"}
        PROVE  Untouched(<<r, j>>)'
      BY <1>4, <2>1 DEF FutureOf, ControlSame
    <3>1. Untouched(<<r, j>>)
      BY DEF CallInv, CallOf, FutureOf
    <3> QED
      BY <1>3, <2>3, <2>4, <3>1
  <2>6. TransferOf(r)'
    <3> SUFFICES ASSUME NEW j \in 1 .. MaxRows, j = Current(r), pc[r] \in {"transfer", "ledger"}
        PROVE  /\ AskedFor(r, j)' /\ delivered'[<<r, j>>] = {} /\ Claimed(<<r, j>>)' # {}
               /\ pc[r] = "ledger" <=> <<r, j>> \in settled'
      BY <1>4, <2>1 DEF TransferOf, ControlSame
    <3>1. j # i
      BY <1>1, <1>3 DEF Op
    <3> QED
      BY <2>4, <3>1 DEF CallInv, CallOf, TransferOf, OpSame
  <2>7. ReportOf(r)'
    <3> SUFFICES ASSUME NEW j \in 1 .. MaxRows, j < Current(r) PROVE ReportAt(r, j)'
      BY <2>1 DEF ReportOf
    <3>1. ReportAt(r, j)
      BY DEF CallInv, CallOf, ReportOf
    <3>2. results'[r] = results[r] /\ file'[r] = file[r] /\ settled' = settled
      BY <1>1, <1>4 DEF ControlSame
    <3>3. CASE j = i
      BY <1>3, <2>3, <3>1, <3>2, <3>3 DEF ReportAt
    <3>4. CASE j # i
      BY <2>4, <3>1, <3>2, <3>4 DEF ReportAt, OpSame
    <3> QED
      BY <3>3, <3>4
  <2> QED
    BY <2>2, <2>5, <2>6, <2>7 DEF CallOf
<1>8. CallTypeOK' /\ pc' \in [Requests -> Places]
  BY <1>1 DEF CallInv, CallTypeOK, callVars
<1> QED
  BY <1>2, <1>6, <1>7, <1>8 DEF CallInv

\* Who looks at a wallet has sent no file.
LEMMA ViewKeeps ==
  ASSUME DataInv, CallInv, ViewTypeOK, NEW r \in Requests, ViewStep(r), UNCHANGED callVars
  PROVE  Keeps(r)
<1>1. /\ UNCHANGED poolVars
      /\ \/ pc[r] = "idle" /\ pc' = [pc EXCEPT ![r] = "balances"]
         \/ pc[r] = "balances" /\ pc' = [pc EXCEPT ![r] = "over"]
  BY DEF ViewStep, FetchCodes, FetchBalances, Goto
<1>2. Stays /\ \A p : OpSame(p)
  BY <1>1, StaysSame
<1>3. file[r] = None /\ results[r] = <<>> /\ log[r] = None
  BY <1>1 DEF CallInv, CallOf, PlaceOf
<1>4. /\ pc' \in [Requests -> Places]
      /\ pc'[r] = IF pc[r] = "idle" THEN "balances" ELSE "over"
  BY <1>1 DEF CallInv, Places
<1>5. file'[r] = None /\ results'[r] = <<>> /\ log'[r] = None
  BY <1>3 DEF callVars
<1>6. Current(r) = 1 /\ Current(r)' = 1
  BY <1>3, <1>5 DEF Current
<1>7. PlaceOf(r)'
  BY <1>4, <1>5 DEF PlaceOf, Calling, Working
<1>8. FutureOf(r)'
  <2>1. \A i \in 1 .. MaxRows : Untouched(<<r, i>>)' = Untouched(<<r, i>>)
    BY <1>2 DEF Untouched, OpSame
  <2> QED
    BY <1>1, <1>4, <1>6, <2>1 DEF CallInv, CallOf, FutureOf
<1>9. TransferOf(r)' /\ ReportOf(r)' /\ LogOf(r)'
  BY <1>4, <1>5, <1>6 DEF TransferOf, ReportOf, LogOf
<1>10. CallTypeOK'
  BY DEF CallInv, CallTypeOK, callVars
<1> QED
  BY <1>2, <1>4, <1>7, <1>8, <1>9, <1>10 DEF Keeps, Writing, Elsewhere, CallOf

\* A step of one request touches no other.
LEMMA StepsAlone ==
  ASSUME CallTypeOK, ViewTypeOK, pc \in [Requests -> Places], NEW r \in Requests,
         \/ CallStep(r) /\ UNCHANGED view
         \/ ViewStep(r) /\ UNCHANGED callVars,
         NEW q \in Requests, q # r
  PROVE  ControlSame(q)
<1>1. CASE CallStep(r) /\ UNCHANGED view
  BY <1>1
     DEF CallStep, Start, BeginRow, FindReward, Prepare, Transfer, Ledger, Finish, WriteLog,
         Stop, Report, Goto, callVars, CallTypeOK, ControlSame
<1>2. CASE ViewStep(r) /\ UNCHANGED callVars
  <2>1. view'[q] = view[q]
    BY <1>2 DEF ViewStep, FetchCodes, FetchBalances, Show, ViewTypeOK
  <2>2. pc'[q] = pc[q]
    BY <1>2 DEF ViewStep, FetchCodes, FetchBalances, Goto
  <2> QED
    BY <1>2, <2>1, <2>2 DEF callVars, ControlSame
<1> QED
  BY <1>1, <1>2

\* The step of a request.
RequestStep(r) == \/ CallStep(r) /\ UNCHANGED view
                  \/ ViewStep(r) /\ UNCHANGED callVars

\* A request keeps what is said of it, and of the others.
LEMMA RequestKeeps ==
  ASSUME DataInv, CallInv, ViewTypeOK, NEW r \in Requests, RequestStep(r)
  PROVE  Keeps(r) /\ CallInv' /\ DataStep
<1>1. Keeps(r)
  BY StartKeeps, BeginRowKeeps, FindRewardKeeps, PrepareKeeps, TransferKeeps, LedgerKeeps,
     FinishKeeps, WriteLogKeeps, StopKeeps, ViewKeeps DEF RequestStep, CallStep
<1>2. ASSUME NEW q \in Requests, q # r PROVE CallOf(q)'
  <2>1. ControlSame(q)
    BY <1>2, StepsAlone DEF RequestStep, CallInv
  <2>2. \A i \in 1 .. MaxRows : OpSame(<<q, i>>)
    <3> SUFFICES ASSUME NEW i \in 1 .. MaxRows PROVE OpSame(<<q, i>>)
      OBVIOUS
    <3>1. CASE Elsewhere
      BY <3>1, ElsewhereSame
    <3>2. ASSUME NEW j \in 1 .. MaxRows, Writes(<<r, j>>) PROVE OpSame(<<q, i>>)
      <4>1. <<r, j>> \in Ops /\ <<q, i>> \in Ops /\ <<r, j>> # <<q, i>>
        BY <1>2 DEF Ops
      <4> QED
        BY <3>2, <4>1, OthersSame
    <3> QED
      BY <1>1, <3>1, <3>2 DEF Keeps, Writing
  <2> QED
    BY <2>1, <2>2, BystanderKeeps DEF CallInv
<1>3. DataStep
  BY <1>1 DEF Keeps, Writing, DataStep, Ops
<1> QED
  BY <1>1, <1>2, <1>3 DEF Keeps, CallInv

\* What a customer is shown is of the wallet's codes.
LEMMA ViewTypeKeeps ==
  ASSUME DataInv, ViewTypeOK, NEW r \in Requests, ViewStep(r), view[r] # None \/ pc[r] = "idle"
  PROVE  ViewTypeOK'
<1>1. ASSUME NEW k \in Customers, NEW status \in Statuses \cup {"all"},
             view' = [view EXCEPT ![r] = Look(k, status, {c \in Codes : owner[c] = k} \ used,
                                              {c \in Codes : owner[c] = k} \cap used, {})]
      PROVE  ViewTypeOK'
  <2>1. PICK l : l = Look(k, status, {c \in Codes : owner[c] = k} \ used,
                          {c \in Codes : owner[c] = k} \cap used, {})
    OBVIOUS
  <2>2. l \in Looks
    BY <2>1 DEF Look, Looks
  <2>3. view' = [view EXCEPT ![r] = l]
    BY <1>1, <2>1
  <2> QED
    BY <2>2, <2>3 DEF ViewTypeOK
<1>2. ASSUME view[r] # None, NEW S \in SUBSET Codes, Show(r, S)
      PROVE  ViewTypeOK'
  <2>1. view[r] \in Looks
    BY <1>2 DEF ViewTypeOK
  <2>2. PICK l : l = Look(view[r].by, view[r].asked, view[r].unused, view[r].used, S)
    OBVIOUS
  <2>3. l \in Looks
    BY <2>1, <2>2 DEF Look, Looks
  <2>4. view' = [view EXCEPT ![r] = l]
    BY <1>2, <2>2 DEF Show
  <2> QED
    BY <2>3, <2>4 DEF ViewTypeOK
<1>3. CASE FetchCodes(r)
  BY <1>1, <1>3 DEF FetchCodes
<1>4. CASE FetchBalances(r)
  <2>1. view[r] # None
    BY <1>4 DEF FetchBalances
  <2>2. view[r] \in Looks
    BY <2>1 DEF ViewTypeOK
  <2>3. PICK unread \in SUBSET Vouchers : Show(r, Filtered(r, Backed(r, unread) \cup view[r].used))
    BY <1>4 DEF FetchBalances
  <2>4. Filtered(r, Backed(r, unread) \cup view[r].used) \subseteq Codes
    <3>1. view[r].unused \subseteq Codes /\ view[r].used \subseteq Codes
      BY <2>2 DEF Looks
    <3>2. Backed(r, unread) \subseteq view[r].unused
      BY DEF Backed, Newest
    <3> QED
      BY <3>1, <3>2 DEF Filtered
  <2> QED
    BY <1>2, <2>1, <2>3, <2>4
<1> QED
  BY <1>3, <1>4 DEF ViewStep

-----------------------------------------------------------------------------
(* 4. Those who look.                                                      *)

\* Only the request that acts can be alone in its time.
LEMMA CalmIsOwn ==
  ASSUME NEW r \in Requests, RequestStep(r), NEW q \in calm'
  PROVE  q = r
  BY DEF RequestStep, CallStep, Start, BeginRow, FindReward, Prepare, Transfer, Ledger, Finish,
         WriteLog, Stop, ViewStep, FetchCodes, FetchBalances, Begins, Quietly, Raises, Fails

\* What a customer has seen stays true while others act.
LEMMA LookStays ==
  ASSUME DataInv, DataStep, ViewTypeOK, NEW q \in Requests, LookOf(q),
         view'[q] = view[q], pc'[q] = pc[q], q \notin calm'
  PROVE  LookOf(q)'
<1>1. CASE view[q] = None
  BY <1>1 DEF LookOf
<1>2. CASE view[q] # None
  <2>1. view[q] \in Looks
    BY <1>2 DEF ViewTypeOK
  <2>2. /\ view[q].by \in Customers /\ view[q].unused \subseteq Codes
        /\ view[q].used \subseteq Codes
    BY <2>1 DEF Looks
  <2>3. \A c \in view[q].unused \cup view[q].used : owner'[c] = view[q].by
    BY <1>2, <2>2, NoWayBack DEF LookOf
  <2>4. used \subseteq used'
    BY NoWayBack
  <2>5. Filtered(q, view[q].used)' = Filtered(q, view[q].used)
    BY DEF Filtered, Asks
  <2> QED
    BY <1>2, <2>3, <2>4, <2>5 DEF LookOf
<1> QED
  BY <1>1, <1>2

\* Only merchants lose coupons.
LEMMA CustomersLoseNone ==
  ASSUME DataInv, NEW v \in Vouchers, NEW k \in Customers
  PROVE  tokens[<<v, k>>] = Cardinality(Held(v, k)) /\ tokens[<<v, k>>] \in Nat
<1>1. Lost(v, k) = {}
  BY StockOK, Apart DEF Lost, DataInv, DataTypes
<1>2. tokens[<<v, k>>] + Cardinality(Lost(v, k)) = Cardinality(Held(v, k))
  BY DEF DataInv, TokenInv, Holders
<1>3. tokens[<<v, k>>] \in Nat
  BY DEF DataInv, DataTypes, Holders
<1> QED
  BY <1>1, <1>2, <1>3, FS_EmptySet

\* A customer's codes that are not used have their coupons.
LEMMA OwnedFits ==
  ASSUME DataInv, NEW v \in Vouchers, NEW k \in Customers, NEW D,
         D \subseteq {c \in Codes : owner[c] = k /\ VoucherOf[c] = v} \ used
  PROVE  /\ D \subseteq Nat /\ IsFiniteSet(D) /\ Cardinality(D) \in Nat
         /\ tokens[<<v, k>>] \in Nat /\ Cardinality(D) <= tokens[<<v, k>>]
<1>1. D \subseteq Held(v, k)
  <2> SUFFICES ASSUME NEW c \in D PROVE c \in Held(v, k)
    OBVIOUS
  <2>1. c \in Codes /\ owner[c] = k /\ VoucherOf[c] = v /\ c \notin used
    OBVIOUS
  <2>2. Keeper(c) = k /\ c \notin shelved
    BY <2>1, SoldCodes
  <2> QED
    BY <2>1, <2>2 DEF Held, Off
<1>2. IsFiniteSet(D) /\ Cardinality(D) \in Nat /\ Cardinality(D) <= Cardinality(Held(v, k))
  BY <1>1, HeldFinite, FS_Subset, FS_CardinalityType
<1>3. tokens[<<v, k>>] = Cardinality(Held(v, k)) /\ tokens[<<v, k>>] \in Nat
  BY CustomersLoseNone
<1>4. D \subseteq Nat
  BY CodesOK
<1> QED
  BY <1>2, <1>3, <1>4

\* The codes are read.
LEMMA FetchCodesLook ==
  ASSUME DataInv, CallInv, ViewTypeOK, NEW r \in Requests, FetchCodes(r)
  PROVE  LookOf(r)' /\ ViewTypeOK'
<1>1. PICK k \in Customers, status \in Statuses \cup {"all"} :
        view' = [view EXCEPT ![r] = Look(k, status, {c \in Codes : owner[c] = k} \ used,
                                         {c \in Codes : owner[c] = k} \cap used, {})]
  BY DEF FetchCodes
<1>2. PICK l : l = Look(k, status, {c \in Codes : owner[c] = k} \ used,
                        {c \in Codes : owner[c] = k} \cap used, {})
  OBVIOUS
<1>3. /\ l \in Looks /\ l.by = k
      /\ l.unused = {c \in Codes : owner[c] = k} \ used
      /\ l.used = {c \in Codes : owner[c] = k} \cap used /\ l.shown = {}
  BY <1>2 DEF Look, Looks
<1>4. view' = [view EXCEPT ![r] = l]
  BY <1>1, <1>2
<1>5. view'[r] = l /\ ViewTypeOK'
  BY <1>3, <1>4 DEF ViewTypeOK
<1>6. l # None
  BY <1>3, NoLookIsNull
<1>7. pc'[r] = "balances" /\ owner' = owner /\ used' = used
  BY DEF FetchCodes, Goto, CallInv, poolVars
<1> QED
  BY <1>3, <1>5, <1>6, <1>7 DEF LookOf

\* The coupons are read, and as many codes are shown.
LEMMA FetchBalancesLook ==
  ASSUME DataInv, CallInv, ViewTypeOK, NEW r \in Requests, LookOf(r), FetchBalances(r)
  PROVE  LookOf(r)' /\ ViewTypeOK'
<1>1. PICK unread \in SUBSET Vouchers :
        /\ Show(r, Filtered(r, Backed(r, unread) \cup view[r].used))
        /\ IF unread = {} THEN Quietly(r) ELSE Raises(r)
  BY DEF FetchBalances
<1>2. /\ pc'[r] = "over" /\ owner' = owner /\ used' = used /\ view[r] # None
  BY DEF FetchBalances, Goto, CallInv, poolVars, LookOf
<1>3. view[r] \in Looks
  BY <1>2 DEF ViewTypeOK
<1>4. PICK S : S = Filtered(r, Backed(r, unread) \cup view[r].used)
  OBVIOUS
<1>5. PICK l : l = Look(view[r].by, view[r].asked, view[r].unused, view[r].used, S)
  OBVIOUS
<1>6. /\ l.by = view[r].by /\ l.asked = view[r].asked
      /\ l.unused = view[r].unused /\ l.used = view[r].used /\ l.shown = S
  BY <1>5 DEF Look
<1>7. view' = [view EXCEPT ![r] = l]
  BY <1>1, <1>4, <1>5 DEF Show
<1>8. view'[r] = l
  BY <1>7 DEF ViewTypeOK
<1>9. Backed(r, unread) \subseteq view[r].unused
  BY DEF Backed, Newest
<1>10. /\ view[r].unused \subseteq Codes /\ view[r].used \subseteq Codes /\ view[r].by \in Customers
  BY <1>3 DEF Looks
<1>11. S \subseteq view[r].unused \cup view[r].used /\ Filtered(r, view[r].used) \subseteq S
  BY <1>4, <1>9 DEF Filtered
<1>12. S \subseteq Codes
  BY <1>10, <1>11
<1>13. l \in Looks
  BY <1>3, <1>5, <1>12 DEF Look, Looks
<1>14. ViewTypeOK' /\ l # None
  BY <1>7, <1>13, NoLookIsNull DEF ViewTypeOK
<1>15. \A T : Filtered(r, T)' = Filtered(r, T)
  BY <1>6, <1>8 DEF Filtered, Asks
<1>16. ASSUME r \in calm'
       PROVE  /\ l.unused = {c \in Codes : owner[c] = l.by} \ used
              /\ l.used = {c \in Codes : owner[c] = l.by} \cap used
              /\ l.shown = Filtered(r, {c \in Codes : owner[c] = l.by})
  <2>1. unread = {} /\ r \in calm
    BY <1>1, <1>16 DEF Raises, Quietly
  <2>2. /\ view[r].unused = {c \in Codes : owner[c] = view[r].by} \ used
        /\ view[r].used = {c \in Codes : owner[c] = view[r].by} \cap used
    BY <1>2, <2>1 DEF LookOf
  <2>3. ASSUME NEW c \in view[r].unused PROVE c \in Backed(r, unread)
    <3>1. PICK v \in Vouchers : v = VoucherOf[c]
      BY <1>10, <2>3, StockOK
    <3>2. PICK D : D = {d \in view[r].unused : VoucherOf[d] = v}
      OBVIOUS
    <3>3. D \subseteq {d \in Codes : owner[d] = view[r].by /\ VoucherOf[d] = v} \ used
      BY <2>2, <3>2
    <3>4. Newest(D, tokens[<<v, view[r].by>>]) = D
      BY <1>10, <3>3, OwnedFits, NewestAll
    <3>5. c \in D
      BY <2>3, <3>1, <3>2
    <3>6. c \in Newest({d \in view[r].unused : VoucherOf[d] = v}, tokens[<<v, view[r].by>>])
      BY <3>2, <3>4, <3>5
    <3> QED
      BY <2>1, <3>1, <3>6 DEF Backed
  <2>4. Backed(r, unread) \cup view[r].used = {c \in Codes : owner[c] = view[r].by}
    BY <1>9, <2>2, <2>3
  <2> QED
    BY <1>4, <1>6, <2>2, <2>4
<1>17. \A c \in l.unused \cup l.used : owner[c] = l.by
  BY <1>2, <1>6 DEF LookOf
<1>18. l.unused \cap l.used = {} /\ l.used \subseteq used
  BY <1>2, <1>6 DEF LookOf
<1>19. LookOf(r)'
  <2>1. /\ l.shown \subseteq l.unused \cup l.used /\ Filtered(r, l.used)' \subseteq l.shown
    BY <1>6, <1>11, <1>15
  <2>2. r \in calm' => l.shown = Filtered(r, {c \in Codes : owner[c] = l.by})'
    BY <1>2, <1>15, <1>16
  <2> QED
    BY <1>2, <1>8, <1>14, <1>16, <1>17, <1>18, <2>1, <2>2 DEF LookOf
<1> QED
  BY <1>14, <1>19

-----------------------------------------------------------------------------
(* 5. What is foretold of a file.                                          *)

\* Nobody else is under way while a request is alone.
LEMMA AloneKeeps ==
  ASSUME CallInv, ViewTypeOK, AloneInv, NEW r \in Requests, RequestStep(r)
  PROVE  AloneInv'
<1> SUFFICES ASSUME NEW q \in calm' PROVE InFlight' \subseteq {q}
  BY DEF AloneInv
<1>1. q = r
  BY CalmIsOwn
<1>2. \A s \in Requests : s # r => pc'[s] = pc[s]
  BY StepsAlone DEF CallInv, RequestStep, ControlSame
<1>3. InFlight' \subseteq InFlight \cup {r}
  BY <1>2 DEF InFlight
<1>4. Begins(r) \/ Quietly(r) \/ Raises(r)
  BY DEF RequestStep, CallStep, Start, BeginRow, FindReward, Prepare, Transfer, Ledger, Finish,
         WriteLog, Stop, ViewStep, FetchCodes, FetchBalances, Fails
<1>5. InFlight = {} \/ r \in calm
  BY <1>1, <1>4 DEF Begins, Quietly, Raises
<1> QED
  BY <1>1, <1>3, <1>5 DEF AloneInv

\* What a report adds to the results.
LEMMA ReportAdds ==
  ASSUME CallTypeOK, NEW r \in Requests, NEW outcome \in Outcomes, Report(r, outcome)
  PROVE  /\ file' = file /\ seller' = seller /\ Current(r)' = Current(r) + 1
         /\ \A i \in 1 .. Len(results[r]) : results'[r][i] = results[r][i]
         /\ results'[r][Current(r)] = Told(r, outcome)
         /\ DOMAIN results'[r] = 1 .. Current(r)
         /\ Current(r) \in Nat /\ Current(r) = Len(results[r]) + 1
<1>1. /\ results' = [results EXCEPT ![r] = Append(results[r], Told(r, outcome))]
      /\ UNCHANGED <<file, seller>>
  BY DEF Report
<1>2. Told(r, outcome) \in Outcomes
  BY DEF Told, Outcomes
<1>3. /\ results[r] \in Seq(Outcomes) /\ Len(results[r]) \in Nat
      /\ Current(r) = Len(results[r]) + 1 /\ Current(r) \in Nat
  BY ResultsType
<1>4. results'[r] = Append(results[r], Told(r, outcome))
  BY <1>1 DEF CallTypeOK
<1>5. PICK x \in Outcomes : x = Told(r, outcome)
  BY <1>2
<1>6. /\ Len(results'[r]) = Len(results[r]) + 1 /\ results'[r] \in Seq(Outcomes)
      /\ results'[r][Current(r)] = x
      /\ \A i \in 1 .. Len(results[r]) : results'[r][i] = results[r][i]
  BY <1>3, <1>4, <1>5
<1>7. DOMAIN results'[r] = 1 .. Current(r)
  BY <1>3, <1>6
<1>8. Current(r)' = Current(r) + 1
  BY <1>3, <1>6 DEF Current
<1> QED
  BY <1>1, <1>3, <1>5, <1>6, <1>7, <1>8

\* A merchant's stock of a voucher does not come back.
LEMMA StockedBefore ==
  ASSUME DataInv, DataStep, NEW v, Stocked(v)'
  PROVE  Stocked(v)
  BY NoWayBack DEF Stocked

\* The dry run stays right about every row, whoever acts.
LEMMA DryStays ==
  ASSUME DataInv, DataStep, NEW q, DryOf(q), file'[q] = file[q], file[q].f.kind = "rewards",
         pc'[q] \in Working => pc[q] \in Working /\ results'[q] = results[q],
         \A i \in DOMAIN results'[q] : results'[q][i] = "SUCCESS" =>
           \/ i \in DOMAIN results[q] /\ results[q][i] = "SUCCESS"
           \/ pc[q] \in Working /\ i = Current(q)
  PROVE  DryOf(q)'
<1>1. Rows(q)' = Rows(q)
  BY DEF Rows
<1>2. file[q] # None => \A i \in DOMAIN Rows(q) :
        \A v : v = Rows(q)[i].voucher /\ Rows(q)[i].to # Stranger /\ Stocked(v)'
                 => i \in file[q].ready
  BY StockedBefore DEF DryOf
<1>3. pc'[q] \in Working => Current(q)' = Current(q)
  BY DEF Current
<1>4. file[q] # None => \A i \in DOMAIN results'[q] : results'[q][i] = "SUCCESS" => i \in file[q].ready
  BY DEF DryOf
<1>5. file[q] # None /\ pc'[q] \in Working => Current(q)' \in file[q].ready
  BY <1>3 DEF DryOf
<1>6. ASSUME file[q] # None, NEW i \in DOMAIN Rows(q), Rows(q)[i].to # Stranger,
             \E c \in Codes : VoucherOf[c] = Rows(q)[i].voucher /\ owner'[c] \in Merchants
      PROVE  i \in file[q].ready
  <2>1. PICK v : v = Rows(q)[i].voucher
    OBVIOUS
  <2>2. Stocked(v)'
    BY <1>6, <2>1 DEF Stocked
  <2> QED
    BY <1>2, <1>6, <2>1, <2>2
<1> QED
  BY <1>1, <1>4, <1>5, <1>6 DEF DryOf, Stocked

\* A report keeps the dry run right.
LEMMA ReportDry ==
  ASSUME DataInv, DataStep, CallInv, NEW r \in Requests, DryOf(r), pc[r] \in Calling,
         NEW outcome \in Outcomes, Report(r, outcome), outcome = "SUCCESS" => pc[r] \in Working
  PROVE  DryOf(r)'
<1>1. /\ file' = file /\ pc'[r] = "row"
      /\ \A i \in 1 .. Len(results[r]) : results'[r][i] = results[r][i]
      /\ results'[r][Current(r)] = Told(r, outcome)
      /\ DOMAIN results'[r] = 1 .. Current(r)
      /\ Current(r) \in Nat /\ Current(r) = Len(results[r]) + 1
  BY ReportAdds DEF CallInv, Report, Goto
<1>2. Told(r, outcome) = "SUCCESS" => outcome = "SUCCESS"
  BY DEF Told
<1>3. DOMAIN results[r] = 1 .. Len(results[r]) /\ Len(results[r]) \in Nat
  BY ResultsType DEF CallInv
<1>4. \A i \in DOMAIN results'[r] : results'[r][i] = "SUCCESS" =>
        \/ i \in DOMAIN results[r] /\ results[r][i] = "SUCCESS"
        \/ pc[r] \in Working /\ i = Current(r)
  <2> SUFFICES ASSUME NEW i \in 1 .. Current(r), results'[r][i] = "SUCCESS"
      PROVE  \/ i \in DOMAIN results[r] /\ results[r][i] = "SUCCESS"
             \/ pc[r] \in Working /\ i = Current(r)
    BY <1>1
  <2>1. CASE i = Current(r)
    BY <1>1, <1>2, <2>1
  <2>2. CASE i # Current(r)
    <3>1. i \in 1 .. Len(results[r])
      BY <1>1, <1>3, <2>2
    <3> QED
      BY <1>1, <1>3, <3>1
  <2> QED
    BY <2>1, <2>2
<1>5. "row" \notin Working
  BY DEF Working
<1>6. CASE file[r].f.kind = "rewards"
  BY <1>1, <1>4, <1>5, <1>6, DryStays
<1>7. CASE file[r].f.kind # "rewards"
  BY <1>1, <1>7 DEF DryOf
<1> QED
  BY <1>6, <1>7

\* So does every other step of a request that has its file.
LEMMA DryMovesOn ==
  ASSUME DataInv, DataStep, NEW r, DryOf(r), UNCHANGED <<file, results>>,
         pc'[r] \in Working => pc[r] \in Working \/ file[r].f.kind # "rewards"
  PROVE  DryOf(r)'
<1>1. CASE file[r].f.kind = "rewards"
  BY <1>1, DryStays
<1>2. CASE file[r].f.kind # "rewards"
  BY <1>2 DEF DryOf
<1> QED
  BY <1>1, <1>2

\* The dry run of a file looks at the codes as they are then.
LEMMA DryStarts ==
  ASSUME DataInv, CallInv, NEW r \in Requests, Start(r)
  PROVE  DryOf(r)'
<1>1. PICK f \in Files : file' = [file EXCEPT ![r] = [f |-> f, ready |-> Ready(f)]]
  BY DEF Start
<1>2. PICK t : t = [f |-> f, ready |-> Ready(f)]
  OBVIOUS
<1>3. t.f = f /\ t.ready = Ready(f)
  BY <1>2
<1>4. file'[r] = t
  BY <1>1, <1>2 DEF CallInv, CallTypeOK
<1>5. /\ pc'[r] = "row" /\ results'[r] = <<>> /\ UNCHANGED poolVars
  BY DEF Start, Goto, CallInv, CallOf, PlaceOf
<1>6. Rows(r)' = f.rows
  BY <1>3, <1>4 DEF Rows
<1>7. ASSUME f.kind = "rewards", NEW i \in DOMAIN f.rows, f.rows[i].to # Stranger,
             NEW c \in Codes, VoucherOf[c] = f.rows[i].voucher, owner[c] \in Merchants
      PROVE  i \in Ready(f)
  <2>1. c \notin used
    <3>1. ASSUME c \in used PROVE FALSE
      <4>1. Given(c) /\ owner[c] = receiver[claim[c]] /\ claim[c] \in Ops
        BY <3>1 DEF DataInv, OwnerInv, DataTypes, Given
      <4>2. receiver[claim[c]] \in Customers
        <5>1. Claimed(claim[c]) # {}
          BY <4>1 DEF Claimed
        <5> QED
          BY <4>1, <5>1 DEF DataInv, OpInv
      <4> QED
        BY <1>7, <4>1, <4>2, Apart
    <3> QED
      BY <3>1
  <2>2. DryRun(f, i)
    BY <1>7, <2>1 DEF DryRun
  <2> QED
    BY <1>7, <2>2 DEF Ready
<1>8. "row" \notin Working
  BY DEF Working
<1> QED
  BY <1>3, <1>4, <1>5, <1>6, <1>7, <1>8 DEF DryOf, Stocked, poolVars

\* Whose turn it is keeps the dry run right.
LEMMA DryKeeps ==
  ASSUME DataInv, CallInv, ViewTypeOK, NEW r \in Requests, RequestStep(r), DryOf(r)
  PROVE  DryOf(r)'
<1>1. DataStep
  BY RequestKeeps
<1>2. CASE Start(r)
  BY <1>2, DryStarts
<1>3. CASE BeginRow(r)
  <2>1. CASE Report(r, "FAILED")
    BY <1>1, <1>3, <2>1, ReportDry DEF BeginRow, Outcomes, Calling
  <2>2. CASE UNCHANGED callVars
    BY <1>1, <1>3, <2>2, DryMovesOn DEF BeginRow, callVars
  <2> QED
    BY <1>3, <2>1, <2>2 DEF BeginRow
<1>4. CASE FindReward(r)
  <2>1. CASE Report(r, "FAILED")
    BY <1>1, <1>4, <2>1, ReportDry DEF FindReward, Outcomes, Calling
  <2>2. CASE /\ ThisRow(r).to # Stranger /\ AnyPool(ThisRow(r).voucher) # {}
             /\ Goto(r, "prepare") /\ UNCHANGED <<file, results, log>>
    <3>1. /\ file[r] # None /\ file[r].f.kind = "rewards" /\ Current(r) \in 1 .. Len(Rows(r))
          /\ DOMAIN Rows(r) = 1 .. Len(Rows(r))
      BY <1>4, AtRow, FileRows DEF FindReward, Calling, CallInv
    <3>2. Stocked(Rows(r)[Current(r)].voucher)
      BY <2>2 DEF AnyPool, WalletPool, Stocked, ThisRow
    <3>3. Current(r) \in file[r].ready
      BY <2>2, <3>1, <3>2 DEF DryOf, ThisRow
    <3>4. /\ file' = file /\ results' = results /\ owner' = owner
          /\ Rows(r)' = Rows(r) /\ Current(r)' = Current(r)
      BY <1>4, <2>2 DEF FindReward, poolVars, Rows, Current
    <3> QED
      BY <3>1, <3>3, <3>4 DEF DryOf, Stocked
  <2> QED
    BY <1>4, <2>1, <2>2 DEF FindReward, AnyPool
<1>5. CASE Prepare(r)
  <2>1. pc[r] \in Working /\ pc[r] \in Calling
    BY <1>5 DEF Prepare, Working, Calling
  <2>2. CASE Report(r, "FAILED")
    BY <1>1, <2>1, <2>2, ReportDry DEF Outcomes
  <2>3. CASE UNCHANGED callVars
    BY <1>1, <2>1, <2>3, DryMovesOn DEF callVars
  <2> QED
    BY <1>5, <2>2, <2>3 DEF Prepare
<1>6. CASE Transfer(r)
  <2>1. pc[r] \in Working /\ pc[r] \in Calling
    BY <1>6 DEF Transfer, Working, Calling
  <2>2. CASE Report(r, "REVIEW")
    BY <1>1, <2>1, <2>2, ReportDry DEF Outcomes
  <2>3. CASE UNCHANGED callVars
    BY <1>1, <2>1, <2>3, DryMovesOn DEF callVars
  <2> QED
    BY <1>6, <2>2, <2>3 DEF Transfer
<1>7. CASE Ledger(r)
  <2>1. pc[r] \in Working /\ pc[r] \in Calling
    BY <1>7 DEF Ledger, Working, Calling
  <2>2. Report(r, "SUCCESS") \/ Report(r, "DESYNCED")
    BY <1>7 DEF Ledger
  <2> QED
    BY <1>1, <2>1, <2>2, ReportDry DEF Outcomes
<1>8. CASE Finish(r)
  <2>1. pc'[r] \in {"log", "over"} /\ UNCHANGED <<file, results>>
    BY <1>8 DEF Finish, Goto, callVars, CallInv
  <2>2. pc'[r] \notin Working
    BY <2>1 DEF Working
  <2> QED
    BY <1>1, <2>1, <2>2, DryMovesOn
<1>9. CASE WriteLog(r) \/ Stop(r)
  <2>1. pc'[r] \in {"over", "dead"} /\ UNCHANGED <<file, results>>
    BY <1>9 DEF WriteLog, Stop, Goto, callVars, CallInv
  <2>2. pc'[r] \notin Working
    BY <2>1 DEF Working
  <2> QED
    BY <1>1, <2>1, <2>2, DryMovesOn
<1>10. CASE ViewStep(r) /\ UNCHANGED callVars
  <2>1. pc[r] \in {"idle", "balances"}
    BY <1>10 DEF ViewStep, FetchCodes, FetchBalances
  <2>2. file'[r] = None
    BY <1>10, <2>1 DEF CallInv, CallOf, PlaceOf, callVars
  <2> QED
    BY <2>2 DEF DryOf
<1> QED
  BY <1>2, <1>3, <1>4, <1>5, <1>6, <1>7, <1>8, <1>9, <1>10 DEF RequestStep, CallStep

\* The quantities of rows that are asked for are numbers.
Counted(rows) ==
  /\ \E n \in Nat : DOMAIN rows = 1 .. n
  /\ \A i \in DOMAIN rows : rows[i].quantity \in Nat

\* A row more asks for its quantity more.
LEMMA AskedAdd ==
  ASSUME NEW rows, Counted(rows), NEW x \in DOMAIN rows, NEW S, S \subseteq DOMAIN rows,
         x \notin S
  PROVE  /\ Asked(rows, S) \in Nat
         /\ Asked(rows, S \cup {x}) = Asked(rows, S) + rows[x].quantity
<1> DEFINE f == [i \in S |-> rows[i].quantity]
           g == [i \in S \cup {x} |-> rows[i].quantity]
<1>1. IsFiniteSet(DOMAIN rows)
  <2>1. PICK n \in Nat : DOMAIN rows = 1 .. n
    BY DEF Counted
  <2> QED
    BY <2>1, FS_Interval
<1>2. IsFiniteSet(S) /\ IsFiniteSet(S \cup {x})
  BY <1>1, FS_Subset
<1>3. Tallied(f) /\ Tallied(g)
  BY <1>2 DEF Tallied, Counted
<1>4. ValueAt(f, x) = 0 /\ ValueAt(g, x) = rows[x].quantity
  BY DEF ValueAt
<1>5. \A y : y # x => ValueAt(f, y) = ValueAt(g, y)
  BY DEF ValueAt
<1>6. Asked(rows, S) = Tally(f) /\ Asked(rows, S \cup {x}) = Tally(g)
  BY DEF Asked
<1>7. rows[x].quantity \in Nat
  BY DEF Counted
<1> HIDE DEF f, g
<1>8. Tally(g) + ValueAt(f, x) = Tally(f) + ValueAt(g, x)
  BY <1>3, <1>5, TallyChange
<1>9. Tally(f) \in Nat /\ Tally(g) \in Nat
  BY <1>3, TallyType
<1> QED
  BY <1>4, <1>6, <1>7, <1>8, <1>9

\* A pool that nobody claims from, puts on the shelf or sells from.
LEMMA PoolSame ==
  ASSUME UNCHANGED <<claim, used>>, NEW v, NEW m,
         \A c \in Codes : claim[c] = None => /\ owner'[c] = owner[c]
                                             /\ c \in shelved' <=> c \in shelved
  PROVE  WalletPool(v, m)' = WalletPool(v, m)
  BY DEF WalletPool

\* The stock of a file lasts while its pools do.
LEMMA LastsSame ==
  ASSUME NEW rows, NEW u, NEW m, Lasts(rows, u, m),
         \A v : WalletPool(v, m)' = WalletPool(v, m)
  PROVE  Lasts(rows, u, m)'
  BY DEF Lasts

\* What one row takes, the rows behind it do not need.
LEMMA LastsClaim ==
  ASSUME DataInv, NEW rows, Counted(rows), NEW u \in DOMAIN rows, NEW m, Lasts(rows, u, m),
         NEW S, S \subseteq WalletPool(rows[u].voucher, m),
         Cardinality(S) = rows[u].quantity, NEW o \in Ops,
         claim' = [c \in Codes |-> IF c \in S THEN o ELSE claim[c]],
         UNCHANGED <<owner, shelved, used>>
  PROVE  Lasts(rows, u + 1, m)'
<1>0. o # None
  BY NoneIsNull
<1>1. u \in Nat /\ \A i \in DOMAIN rows : i \in Nat
  BY DEF Counted
<1>2. \A v : WalletPool(v, m)' = WalletPool(v, m) \ S
  <2> SUFFICES ASSUME NEW v, NEW c PROVE c \in WalletPool(v, m)' <=> c \in WalletPool(v, m) \ S
    OBVIOUS
  <2>1. c \in WalletPool(v, m)' <=> /\ c \in Codes /\ VoucherOf[c] = v /\ owner[c] = m
                                    /\ c \notin shelved \cup used /\ claim'[c] = None
    BY DEF WalletPool
  <2>2. c \in Codes => claim'[c] = IF c \in S THEN o ELSE claim[c]
    OBVIOUS
  <2> QED
    BY <1>0, <2>1, <2>2 DEF WalletPool
<1> SUFFICES ASSUME NEW i \in DOMAIN rows, i >= u + 1
    PROVE  Asked(rows, ToCome(rows, u + 1, i)) <= Cardinality(WalletPool(rows[i].voucher, m)')
  BY DEF Lasts
<1>3. PICK v : v = rows[i].voucher
  OBVIOUS
<1>4. i >= u
  BY <1>1
<1>5. Asked(rows, ToCome(rows, u, i)) <= Cardinality(WalletPool(v, m))
  BY <1>3, <1>4 DEF Lasts
<1>6. CASE v = rows[u].voucher
  <2>1. PICK T : T = ToCome(rows, u + 1, i)
    OBVIOUS
  <2>2. ToCome(rows, u, i) = T \cup {u} /\ u \notin T /\ T \subseteq DOMAIN rows
    <3>1. /\ \A j \in DOMAIN rows : u <= j /\ j <= i <=> (u + 1 <= j /\ j <= i) \/ j = u
          /\ ~(u + 1 <= u)
      BY <1>1, <1>4
    <3>2. ToCome(rows, u, i) = {j \in DOMAIN rows : rows[j].voucher = v /\ u <= j /\ j <= i}
      BY <1>3 DEF ToCome, RowsOf
    <3>3. T = {j \in DOMAIN rows : rows[j].voucher = v /\ u + 1 <= j /\ j <= i}
      BY <1>3, <2>1 DEF ToCome, RowsOf
    <3>4. \A j : j \in ToCome(rows, u, i) <=> j \in T \cup {u}
      BY <1>6, <3>1, <3>2, <3>3
    <3> QED
      BY <3>1, <3>3, <3>4
  <2>3. /\ Asked(rows, T) \in Nat
        /\ Asked(rows, T \cup {u}) = Asked(rows, T) + rows[u].quantity
    BY <2>2, AskedAdd
  <2>4. /\ Cardinality(WalletPool(v, m)) = Cardinality(WalletPool(v, m) \ S) + Cardinality(S)
        /\ Cardinality(WalletPool(v, m) \ S) \in Nat /\ Cardinality(S) \in Nat
    <3>1. S \subseteq WalletPool(v, m) /\ IsFiniteSet(WalletPool(v, m))
      BY <1>6, PoolFinite
    <3> QED
      BY <3>1, TakeOut
  <2>5. Asked(rows, T) + Cardinality(S) <= Cardinality(WalletPool(v, m) \ S) + Cardinality(S)
    BY <1>5, <2>2, <2>3, <2>4
  <2>6. Asked(rows, T) <= Cardinality(WalletPool(v, m) \ S)
    BY ONLY <2>3, <2>4, <2>5, SMT
  <2> QED
    BY <1>2, <1>3, <2>1, <2>6
<1>7. CASE v # rows[u].voucher
  <2>1. ToCome(rows, u + 1, i) = ToCome(rows, u, i)
    <3> SUFFICES ASSUME NEW j \in RowsOf(rows, v) PROVE u + 1 <= j <=> u <= j
      BY <1>3 DEF ToCome
    <3>1. j # u /\ j \in Nat
      BY <1>1, <1>7 DEF RowsOf
    <3> QED
      BY <1>1, <3>1
  <2>2. WalletPool(v, m) \ S = WalletPool(v, m)
    BY <1>7 DEF WalletPool
  <2> QED
    BY <1>2, <1>3, <1>5, <2>1, <2>2
<1> QED
  BY <1>6, <1>7

\* A row has its stock, if the file has.
LEMMA LastsNow ==
  ASSUME NEW rows, Counted(rows), NEW u \in DOMAIN rows, NEW m, Lasts(rows, u, m)
  PROVE  Cardinality(WalletPool(rows[u].voucher, m)) >= rows[u].quantity
<1>1. u \in Nat
  BY DEF Counted
<1>2. PICK T : T = ToCome(rows, u, u) \ {u}
  OBVIOUS
<1>3. ToCome(rows, u, u) = T \cup {u} /\ u \notin T /\ T \subseteq DOMAIN rows
  BY <1>1, <1>2 DEF ToCome, RowsOf
<1>4. /\ Asked(rows, T) \in Nat
      /\ Asked(rows, T \cup {u}) = Asked(rows, T) + rows[u].quantity
  BY <1>3, AskedAdd
<1>5. Asked(rows, T \cup {u}) <= Cardinality(WalletPool(rows[u].voucher, m))
  BY <1>1, <1>3 DEF Lasts
<1>6. rows[u].quantity \in Nat /\ Cardinality(WalletPool(rows[u].voucher, m)) \in Nat
  BY PoolFinite DEF Counted
<1> QED
  BY ONLY <1>4, <1>5, <1>6, SMT

\* A previewed file asks for numbers of coupons.
LEMMA KeptCounted ==
  ASSUME CallTypeOK, NEW r \in Requests, file[r] # None,
         \A i \in DOMAIN Rows(r) : Valid(Rows(r)[i])
  PROVE  Counted(Rows(r))
<1>1. /\ Len(Rows(r)) \in Nat /\ DOMAIN Rows(r) = 1 .. Len(Rows(r))
      /\ \A i \in 1 .. Len(Rows(r)) : Rows(r)[i].quantity \in Int
  BY FileRows
<1>2. \A i \in DOMAIN Rows(r) : Rows(r)[i].quantity > 0
  BY DEF Valid
<1>3. ASSUME NEW i \in DOMAIN Rows(r) PROVE Rows(r)[i].quantity \in Nat
  <2>1. Rows(r)[i].quantity \in Int /\ Rows(r)[i].quantity > 0
    BY <1>1, <1>2
  <2> QED
    BY <2>1
<1> QED
  BY <1>1, <1>3 DEF Counted

\* The preview looks at the stock as it is when the file is sent.
LEMMA KeptStarts ==
  ASSUME CallInv, NEW r \in Requests, Start(r)
  PROVE  KeptOf(r)'
<1>1. PICK f \in Files :
        /\ file' = [file EXCEPT ![r] = [f |-> f, ready |-> Ready(f)]]
        /\ seller' = [seller EXCEPT ![r] = f.merchant]
  BY DEF Start
<1>2. PICK t : t = [f |-> f, ready |-> Ready(f)]
  OBVIOUS
<1>3. t.f = f /\ t.ready = Ready(f)
  BY <1>2
<1>4. file'[r] = t /\ seller'[r] = f.merchant
  BY <1>1, <1>2 DEF CallInv, CallTypeOK
<1>5. /\ pc'[r] = "row" /\ results'[r] = <<>> /\ UNCHANGED poolVars
  BY DEF Start, Goto, CallInv, CallOf, PlaceOf
<1>6. Rows(r)' = f.rows /\ Current(r)' = 1 /\ Upcoming(r)' = 1
  BY <1>3, <1>4, <1>5 DEF Rows, Current, Upcoming
<1> SUFFICES ASSUME f.kind = "csv", Ready(f) = DOMAIN f.rows
    PROVE  /\ \A i \in DOMAIN f.rows : Valid(f.rows[i])
           /\ Lasts(f.rows, 1, f.merchant)'
  <2>1. PICK rows, m : rows = f.rows /\ m = f.merchant
    OBVIOUS
  <2> QED
    BY <1>3, <1>4, <1>5, <1>6, <2>1 DEF KeptOf, Kept
<1>7. \A i \in DOMAIN f.rows : Previewed(f, i)
  BY DEF Ready
<1>8. \A i \in DOMAIN f.rows : Valid(f.rows[i])
  BY <1>7 DEF Previewed
<1>9. PICK n \in Nat : DOMAIN f.rows = 1 .. n
  <2>1. f.rows \in Seq(Row)
    BY FilesOK
  <2> QED
    BY <2>1
<1>10. ASSUME NEW i \in DOMAIN f.rows
       PROVE  Asked(f.rows, ToCome(f.rows, 1, i)) <= Cardinality(WalletPool(f.rows[i].voucher, f.merchant))
  <2>1. \A j \in DOMAIN f.rows : f.rows[j].quantity > 0 /\ 1 <= j
    BY <1>8, <1>9 DEF Valid
  <2>2. ToCome(f.rows, 1, i)
          = {j \in RowsOf(f.rows, f.rows[i].voucher) : j <= i /\ f.rows[j].quantity > 0}
    BY <2>1 DEF ToCome, RowsOf
  <2> QED
    BY <1>7, <2>2 DEF Previewed
<1>11. \A v, m : WalletPool(v, m)' = WalletPool(v, m)
  BY <1>5, PoolSame DEF poolVars
<1>12. Lasts(f.rows, 1, f.merchant)
  BY <1>10 DEF Lasts
<1>13. Lasts(f.rows, 1, f.merchant)'
  BY <1>11, <1>12, LastsSame
<1> QED
  BY <1>8, <1>13

\* A step that needs no more stock.
LEMMA KeptMoves ==
  ASSUME NEW r, KeptOf(r), r \in calm, UNCHANGED <<file, results, crossed>>,
         seller'[r] = seller[r], pc'[r] = "transfer" => pc[r] = "transfer" /\ claim' = claim,
         Upcoming(r)' = Upcoming(r), \A v, m : WalletPool(v, m)' = WalletPool(v, m)
  PROVE  KeptOf(r)'
<1>1. Rows(r)' = Rows(r) /\ Current(r)' = Current(r)
  BY DEF Rows, Current
<1>2. ASSUME Kept(r), NEW rows \in {Rows(r)}, NEW u \in {Upcoming(r)}, NEW m \in {seller[r]}
      PROVE  Lasts(rows, u, m)'
  <2>1. Lasts(rows, u, m)
    BY <1>2 DEF KeptOf
  <2> QED
    BY <2>1, LastsSame
<1>3. Kept(r)' <=> Kept(r)
  BY <1>1 DEF Kept
<1>4. ASSUME Kept(r), NEW j \in 1 .. MaxRows, j = Current(r)', pc'[r] = "transfer"
      PROVE  \A c \in Claimed(<<r, j>>)' : HolderOf[c] = seller'[r]
  BY <1>1, <1>4 DEF KeptOf, Claimed
<1>5. ASSUME Kept(r), NEW j \in 1 .. MaxRows, j < Current(r)' PROVE results'[r][j] = "SUCCESS"
  BY <1>1, <1>5 DEF KeptOf
<1>6. Kept(r) => \A j \in DOMAIN Rows(r)' : Valid(Rows(r)'[j])
  BY <1>1 DEF KeptOf
<1> QED
  BY <1>1, <1>2, <1>3, <1>4, <1>5, <1>6 DEF KeptOf

\* A previewed file finds the codes of its row.
LEMMA KeptPrepares ==
  ASSUME DataInv, CallInv, AloneInv, NEW r \in Requests, KeptOf(r), Prepare(r), r \in calm'
  PROVE  KeptOf(r)'
<1>1. /\ pc[r] = "prepare" /\ r \in calm
  BY DEF Prepare, Quietly
<1>2. PICK i \in 1 .. MaxRows : i = Current(r)
  BY <1>1, AtRow DEF Working, Calling
<1>3. /\ file[r] # None /\ seller[r] \in Merchants /\ i \in DOMAIN Rows(r)
      /\ Op(r) = <<r, i>> /\ Upcoming(r) = i
  <2>1. file[r] # None /\ seller[r] \in Merchants /\ i <= Len(Rows(r))
    BY <1>1, <1>2, AtRow DEF Working, Calling
  <2>2. DOMAIN Rows(r) = 1 .. Len(Rows(r)) /\ Len(Rows(r)) \in Nat
    BY <2>1, FileRows DEF CallInv
  <2> QED
    BY <1>1, <1>2, <2>1, <2>2 DEF Op, Upcoming
<1>4. PICK rows, m : rows = Rows(r) /\ m = seller[r]
  OBVIOUS
<1>5. Kept(r) => Counted(rows) /\ Lasts(rows, i, m)
  BY <1>1, <1>3, <1>4, KeptCounted DEF CallInv, KeptOf
<1>6. ThisRow(r) = rows[i]
  BY <1>2, <1>4 DEF ThisRow
<1>7. CASE /\ Cardinality(WalletPool(ThisRow(r).voucher, seller[r])) >= ThisRow(r).quantity
           /\ Claim(Op(r), Lowest(WalletPool(ThisRow(r).voucher, seller[r]),
                                  ThisRow(r).quantity), ThisRow(r).to)
           /\ Goto(r, "transfer") /\ UNCHANGED callVars
  <2>1. PICK S : S = Lowest(WalletPool(ThisRow(r).voucher, seller[r]), ThisRow(r).quantity)
    OBVIOUS
  <2>2. /\ S \subseteq WalletPool(rows[i].voucher, m) /\ Cardinality(S) = rows[i].quantity
        /\ <<r, i>> \in Ops /\ Claimed(<<r, i>>)' = S
    BY <1>1, <1>2, <1>3, <1>4, <1>6, <1>7, <2>1, ClaimIsAsked
  <2>3. /\ claim' = [c \in Codes |-> IF c \in S THEN <<r, i>> ELSE claim[c]]
        /\ UNCHANGED <<owner, shelved, used, crossed>>
    BY <1>3, <1>7, <2>1 DEF Claim
  <2>4. Kept(r) => Lasts(rows, i + 1, m)'
    BY <1>3, <1>4, <1>5, <2>2, <2>3, LastsClaim
  <2>5. /\ pc'[r] = "transfer" /\ UNCHANGED <<file, seller, results>>
    BY <1>7 DEF Goto, callVars, CallInv
  <2>6. Rows(r)' = rows /\ Current(r)' = i /\ Upcoming(r)' = i + 1 /\ seller'[r] = m
    BY <1>2, <1>4, <2>5 DEF Rows, Current, Upcoming
  <2>7. Kept(r)' <=> Kept(r)
    BY <1>4, <2>3, <2>5, <2>6 DEF Kept
  <2>8. \A c \in S : HolderOf[c] = m
    BY <2>2, PoolCodes
  <2>9. \A j \in 1 .. MaxRows : j = Current(r)' =>
          \A c \in Claimed(<<r, j>>)' : HolderOf[c] = seller'[r]
    BY <2>2, <2>6, <2>8
  <2>10. Kept(r)' =>
           /\ \A j \in DOMAIN Rows(r)' : Valid(Rows(r)'[j])
           /\ \A q \in {Rows(r)'}, u \in {Upcoming(r)'}, x \in {seller'[r]} : Lasts(q, u, x)'
    <3>1. Kept(r) => \A j \in DOMAIN Rows(r) : Valid(Rows(r)[j])
      BY <1>1 DEF KeptOf
    <3> QED
      BY <1>4, <2>4, <2>6, <2>7, <3>1
  <2>11. Kept(r)' => \A j \in 1 .. MaxRows : j < Current(r)' => results'[r][j] = "SUCCESS"
    BY <1>1, <1>2, <2>5, <2>6, <2>7 DEF KeptOf
  <2> QED
    BY <2>9, <2>10, <2>11 DEF KeptOf
<1>8. CASE /\ \/ Cardinality(WalletPool(ThisRow(r).voucher, seller[r])) < ThisRow(r).quantity
              \/ \E q \in Requests \ {r} : pc[q] \in {"prepare", "ledger"}
           /\ Report(r, "FAILED") /\ UNCHANGED poolVars
  <2>1. ~ \E q \in Requests \ {r} : pc[q] \in {"prepare", "ledger"}
    BY <1>1 DEF AloneInv, InFlight
  <2>2. Kept(r) => Cardinality(WalletPool(rows[i].voucher, m)) >= rows[i].quantity
    BY <1>3, <1>4, <1>5, LastsNow
  <2>3. /\ Kept(r) => rows[i].quantity \in Nat
        /\ Cardinality(WalletPool(rows[i].voucher, m)) \in Nat
    BY <1>3, <1>4, <1>5, PoolFinite DEF Counted
  <2>4. ~Kept(r)
    BY <1>4, <1>6, <1>8, <2>1, <2>2, <2>3
  <2>5. Kept(r)' <=> Kept(r)
    BY <1>8 DEF Kept, Rows, Report, poolVars
  <2> QED
    BY <2>4, <2>5 DEF KeptOf
<1> QED
  BY <1>7, <1>8 DEF Prepare

\* The ledger makes a success of the row.
LEMMA KeptLedgers ==
  ASSUME DataInv, CallInv, NEW r \in Requests, KeptOf(r), Ledger(r), r \in calm'
  PROVE  KeptOf(r)'
<1>1. /\ pc[r] = "ledger" /\ WriteLedger(Op(r)) /\ Report(r, "SUCCESS") /\ r \in calm
      /\ UNCHANGED <<used, claim, crossed>> /\ shelved' = shelved \ Claimed(Op(r))
  BY DEF Ledger, Raises, Quietly, WriteLedger
<1>2. PICK i \in 1 .. MaxRows : i = Current(r)
  BY <1>1, AtTransfer
<1>3. PICK o \in Ops : o = Op(r)
  BY <1>1, AtTransfer
<1>4. ASSUME NEW c \in Codes, claim[c] = None
      PROVE  owner'[c] = owner[c] /\ (c \in shelved' <=> c \in shelved)
  <2>1. c \notin Claimed(Op(r))
    BY <1>3, <1>4, NoneIsNull DEF Claimed
  <2> QED
    BY <1>1, <2>1 DEF WriteLedger
<1>5. \A v, m : WalletPool(v, m)' = WalletPool(v, m)
  BY <1>1, <1>4, PoolSame
<1>6. /\ file' = file /\ seller' = seller /\ Current(r)' = Current(r) + 1 /\ pc'[r] = "row"
      /\ \A j \in 1 .. Len(results[r]) : results'[r][j] = results[r][j]
      /\ results'[r][Current(r)] = "SUCCESS"
      /\ Current(r) \in Nat /\ Current(r) = Len(results[r]) + 1
  BY <1>1, ReportAdds DEF CallInv, Outcomes, Told, Report, Goto
<1>7. Rows(r)' = Rows(r) /\ Upcoming(r)' = Upcoming(r)
  BY <1>1, <1>6 DEF Rows, Upcoming
<1>8. ASSUME Kept(r), NEW rows \in {Rows(r)}, NEW u \in {Upcoming(r)}, NEW m \in {seller[r]}
      PROVE  Lasts(rows, u, m)'
  <2>1. Lasts(rows, u, m)
    BY <1>1, <1>8 DEF KeptOf
  <2> QED
    BY <1>5, <2>1, LastsSame
<1>9. ASSUME Kept(r), NEW j \in 1 .. MaxRows, j < Current(r) + 1
      PROVE  results'[r][j] = "SUCCESS"
  <2>1. CASE j = Current(r)
    BY <1>6, <2>1
  <2>2. CASE j < Current(r)
    <3>1. Len(results[r]) \in Nat
      BY ResultsType DEF CallInv
    <3>2. j \in 1 .. Len(results[r])
      BY <1>6, <2>2, <3>1
    <3> QED
      BY <1>1, <1>6, <1>9, <2>2, <3>2 DEF KeptOf
  <2> QED
    BY <1>6, <1>9, <2>1, <2>2
<1>10. Kept(r)' <=> Kept(r)
  BY <1>1, <1>6, <1>7 DEF Kept
<1> QED
  BY <1>1, <1>6, <1>7, <1>8, <1>9, <1>10 DEF KeptOf

\* A merchant who has listed no claimed code has the coupons of a transfer.
LEMMA NotShort ==
  ASSUME DataInv, CallInv, NEW r \in Requests, KeptOf(r), r \in calm, pc[r] = "transfer",
         Kept(r)
  PROVE  ~Short(Op(r))
<1>1. PICK i \in 1 .. MaxRows : i = Current(r)
  BY AtTransfer
<1>2. PICK o \in Ops : o = Op(r) /\ o = <<r, i>>
  BY <1>1, AtTransfer
<1>3. o \notin settled /\ delivered[o] = {} /\ o # None
  BY <1>1, <1>2, AtTransfer, NoneIsNull
<1>4. \A d \in Claimed(o) : HolderOf[d] = seller[r]
  BY <1>1, <1>2 DEF KeptOf
<1> SUFFICES ASSUME NEW c \in Claimed(o),
                    tokens[<<VoucherOf[c], owner[c]>>] < Cardinality(Claimed(o))
    PROVE  FALSE
  BY <1>2 DEF Short
<1>5. PICK v, m : v = VoucherOf[c] /\ m = HolderOf[c]
  OBVIOUS
<1>6. ASSUME NEW d \in Claimed(o)
      PROVE  /\ d \in Codes /\ claim[d] = o /\ VoucherOf[d] = v /\ HolderOf[d] = m
             /\ ~Given(d) /\ ~Sent(d) /\ owner[d] = m
  <2>1. d \in Codes /\ claim[d] = o /\ c \in Codes /\ claim[c] = o
    BY DEF Claimed
  <2>2. VoucherOf[d] = v /\ HolderOf[d] = m
    BY <1>3, <1>5, <2>1 DEF DataInv, OpInv
  <2>3. ~Given(d) /\ ~Sent(d)
    BY <1>3, <2>1 DEF Given, Sent
  <2> QED
    BY <2>1, <2>2, <2>3 DEF DataInv, OwnerInv
<1>7. ASSUME NEW d \in Claimed(o) PROVE d \in Held(v, m)
  <2>1. d \notin crossed
    BY <1>4 DEF Kept
  <2>2. d \notin shelved /\ d \notin used
    BY <1>3, <1>6, <2>1 DEF DataInv, OwnerInv
  <2> QED
    BY <1>6, <2>2 DEF Held, Off, Keeper
<1>8. Lost(v, m) = {}
  BY <1>4, <1>5 DEF Lost, Kept
<1>9. v \in Vouchers /\ m \in Merchants /\ m \in Holders /\ owner[c] = m
  BY <1>5, <1>6, StockOK DEF Holders
<1>10. tokens[<<v, m>>] = Cardinality(Held(v, m))
  <2>1. tokens[<<v, m>>] + Cardinality(Lost(v, m)) = Cardinality(Held(v, m))
    BY <1>9 DEF DataInv, TokenInv
  <2>2. tokens[<<v, m>>] \in Nat
    BY <1>9 DEF DataInv, DataTypes
  <2> QED
    BY <1>8, <2>1, <2>2, FS_EmptySet
<1>11. /\ Cardinality(Claimed(o)) <= Cardinality(Held(v, m))
       /\ Cardinality(Claimed(o)) \in Nat /\ Cardinality(Held(v, m)) \in Nat
  <2>1. Claimed(o) \subseteq Held(v, m)
    BY <1>7
  <2> QED
    BY <2>1, HeldFinite, FS_Subset, FS_CardinalityType
<1> QED
  BY <1>5, <1>9, <1>10, <1>11

\* Whose turn it is keeps the stock of its file, when it is alone.
LEMMA KeptKeeps ==
  ASSUME DataInv, CallInv, AloneInv, NEW r \in Requests, RequestStep(r), KeptOf(r), r \in calm'
  PROVE  KeptOf(r)'
<1>1. ASSUME UNCHANGED poolVars PROVE \A v, m : WalletPool(v, m)' = WalletPool(v, m)
  BY <1>1, PoolSame DEF poolVars
<1>2. CASE Start(r)
  BY <1>2, KeptStarts
<1>3. CASE BeginRow(r)
  <2>1. pc[r] = "row" /\ r \in calm /\ Current(r) <= Len(Rows(r)) /\ UNCHANGED poolVars
    BY <1>3 DEF BeginRow, Quietly
  <2>2. CASE Goto(r, "prepare") /\ UNCHANGED callVars
    <3>1. /\ Upcoming(r)' = Upcoming(r) /\ seller'[r] = seller[r] /\ pc'[r] # "transfer"
          /\ UNCHANGED <<file, results, crossed>>
      BY <2>1, <2>2 DEF Upcoming, Current, Goto, callVars, CallInv, poolVars
    <3> QED
      BY <1>1, <2>1, <3>1, KeptMoves
  <2>3. CASE file[r].f.kind = "csv" /\ ~Valid(ThisRow(r)) /\ Report(r, "FAILED")
    <3>1. /\ file[r] # None /\ Current(r) \in Nat /\ Current(r) >= 1
      BY <2>1, AtRow, ResultsType DEF Calling, CallInv
    <3>2. Current(r) \in DOMAIN Rows(r)
      BY <2>1, <3>1, FileRows DEF CallInv
    <3>3. ~Kept(r)
      BY <2>1, <2>3, <3>2 DEF KeptOf, ThisRow
    <3>4. Kept(r)' <=> Kept(r)
      BY <2>1, <2>3 DEF Kept, Rows, Report, poolVars
    <3> QED
      BY <3>3, <3>4 DEF KeptOf
  <2> QED
    BY <1>3, <2>2, <2>3 DEF BeginRow
<1>4. CASE FindReward(r)
  <2>1. file[r].f.kind # "csv" /\ file' = file
    BY <1>4 DEF FindReward, Report
  <2> QED
    BY <2>1 DEF KeptOf, Kept
<1>5. CASE Prepare(r)
  BY <1>5, KeptPrepares
<1>6. CASE Transfer(r)
  <2>1. pc[r] = "transfer" /\ r \in calm /\ UNCHANGED <<used, crossed>>
    BY <1>6 DEF Transfer, Raises, Fails, Quietly, Moved, Release, poolVars
  <2>2. CASE /\ Moved(Op(r)) /\ Goto(r, "ledger")
             /\ UNCHANGED <<owner, delivered, callVars>>
    <3>1. UNCHANGED <<owner, shelved, used, claim>>
      BY <2>2 DEF Moved
    <3>2. \A v, m : WalletPool(v, m)' = WalletPool(v, m)
      BY <3>1, PoolSame
    <3>3. /\ Upcoming(r)' = Upcoming(r) /\ UNCHANGED <<file, results>>
          /\ seller'[r] = seller[r] /\ pc'[r] # "transfer"
      BY <2>1, <2>2 DEF Upcoming, Current, Goto, callVars, CallInv
    <3> QED
      BY <2>1, <3>2, <3>3, KeptMoves
  <2>3. CASE Short(Op(r)) /\ Report(r, "REVIEW")
    <3>1. ~Kept(r)
      BY <2>1, <2>3, NotShort
    <3>2. Kept(r)' <=> Kept(r)
      BY <2>1, <2>3 DEF Kept, Rows, Report
    <3> QED
      BY <3>1, <3>2 DEF KeptOf
  <2> QED
    BY <1>6, <2>2, <2>3 DEF Transfer, Raises, Fails
<1>7. CASE Ledger(r)
  BY <1>7, KeptLedgers
<1>8. CASE Finish(r) \/ WriteLog(r)
  <2>1. /\ pc[r] \in {"row", "log"} /\ pc'[r] \in {"log", "over"} /\ r \in calm
        /\ UNCHANGED poolVars /\ UNCHANGED <<file, results, seller, crossed>>
    BY <1>8 DEF Finish, WriteLog, Goto, callVars, CallInv, Raises, Quietly, poolVars
  <2>2. Upcoming(r)' = Upcoming(r)
    BY <2>1 DEF Upcoming, Current
  <2> QED
    BY <1>1, <2>1, <2>2, KeptMoves
<1>9. CASE Stop(r)
  BY <1>9 DEF Stop, Raises
<1>10. CASE ViewStep(r) /\ UNCHANGED callVars
  <2>1. pc[r] \in {"idle", "balances"}
    BY <1>10 DEF ViewStep, FetchCodes, FetchBalances
  <2>2. file'[r] = None
    BY <1>10, <2>1 DEF CallInv, CallOf, PlaceOf, callVars
  <2> QED
    BY <2>2 DEF KeptOf, Kept
<1> QED
  BY <1>2, <1>3, <1>4, <1>5, <1>6, <1>7, <1>8, <1>9, <1>10 DEF RequestStep, CallStep

-----------------------------------------------------------------------------
(* 6. The invariant, and what follows from it.                             *)

\* What is counted down, and who is alone.
Counters == others \in Nat /\ faults \in Nat /\ calm \subseteq Requests

\* The pool's invariant is about codes, and types of counters.
LEMMA PoolParts == PoolInv <=> DataInv /\ Counters
  BY DEF PoolInv, PoolTypeOK, DataInv, DataTypes, Counters

\* In the beginning every merchant has its codes and their coupons.
LEMMA StartsWhole == Init => IInv
<1> SUFFICES ASSUME Init PROVE IInv
  OBVIOUS
<1> USE DEF Init, PoolInit, CallInit, ViewInit
<1>1. DataTypes
  <2>1. ASSUME NEW x \in Vouchers \X Holders
        PROVE  Cardinality({c \in Codes : VoucherOf[c] = x[1] /\ HolderOf[c] = x[2]}) \in Nat
    <3>1. {c \in Codes : VoucherOf[c] = x[1] /\ HolderOf[c] = x[2]} \subseteq Codes
      OBVIOUS
    <3> QED
      BY <3>1, CodesOK, FS_Subset, FS_CardinalityType
  <2>2. tokens \in [Vouchers \X Holders -> Nat]
    BY <2>1
  <2> QED
    BY <2>2, StockOK DEF DataTypes, Holders
<1>2. \A c \in Codes : ~Given(c) /\ ~Sent(c) /\ Keeper(c) = HolderOf[c]
  BY DEF Given, Sent, Keeper
<1>3. \A o \in Ops : Claimed(o) = {}
  BY NoneIsNull DEF Claimed
<1>4. OwnerInv /\ OpInv
  BY <1>2, <1>3 DEF OwnerInv, OpInv
<1>5. TokenInv
  <2> SUFFICES ASSUME NEW v \in Vouchers, NEW h \in Holders
      PROVE  tokens[<<v, h>>] + Cardinality(Lost(v, h)) = Cardinality(Held(v, h))
    BY DEF TokenInv
  <2>1. tokens[<<v, h>>] = Cardinality({c \in Codes : VoucherOf[c] = v /\ HolderOf[c] = h})
    OBVIOUS
  <2>2. Held(v, h) = {c \in Codes : VoucherOf[c] = v /\ HolderOf[c] = h} /\ Lost(v, h) = {}
    BY <1>2 DEF Held, Off, Lost
  <2>3. Cardinality(Held(v, h)) \in Nat /\ Cardinality(Lost(v, h)) = 0
    BY <2>2, HeldFinite, FS_EmptySet
  <2> QED
    BY <2>1, <2>2, <2>3
<1>6. Counters
  BY BoundsOK DEF Counters
<1>7. CallInv
  <2>1. CallTypeOK
    <3>1. <<>> \in Seq(Outcomes)
      OBVIOUS
    <3> QED
      BY <3>1 DEF CallTypeOK
  <2>2. pc \in [Requests -> Places]
    BY DEF Places
  <2>3. ASSUME NEW r \in Requests PROVE CallOf(r)
    <3>1. Current(r) = 1
      BY DEF Current
    <3>2. \A i \in 1 .. MaxRows : Untouched(<<r, i>>)
      BY <1>3 DEF Untouched, Ops
    <3> QED
      BY <3>1, <3>2
         DEF CallOf, PlaceOf, FutureOf, TransferOf, ReportOf, LogOf, Calling, Working
  <2> QED
    BY <2>1, <2>2, <2>3 DEF CallInv
<1>8. ForecastInv
  BY DEF ForecastInv, DryInv, DryOf, AloneInv, KeptInv, KeptOf
<1>9. ViewInv
  BY DEF ViewInv, ViewTypeOK, LookInv, LookOf
<1> QED
  BY <1>1, <1>4, <1>5, <1>6, <1>7, <1>8, <1>9, PoolParts DEF IInv, DataInv

\* Calls that raise and steps of others are counted down.
LEMMA CountersKeep ==
  ASSUME Counters, [Next]_vars
  PROVE  Counters'
<1>1. ASSUME NEW r \in Requests, Begins(r) \/ Quietly(r) \/ Raises(r), others' = others
      PROVE  Counters'
  BY <1>1 DEF Counters, Begins, Quietly, Raises
<1>2. ASSUME Other PROVE Counters'
  BY <1>2 DEF Counters, Other
<1>3. ASSUME NEW r \in Requests, RequestStep(r) PROVE Counters'
  <2>1. Begins(r) \/ Quietly(r) \/ Raises(r)
    BY <1>3 DEF RequestStep, CallStep, Start, BeginRow, FindReward, Prepare, Transfer, Ledger,
         Finish, WriteLog, Stop, ViewStep, FetchCodes, FetchBalances, Fails
  <2>2. others' = others
    BY <1>3 DEF RequestStep, CallStep, Start, BeginRow, FindReward, Prepare, Transfer, Ledger,
         Finish, WriteLog, Stop, ViewStep, FetchCodes, FetchBalances, poolVars, Claim, Moved,
         Release
  <2> QED
    BY <1>1, <2>1, <2>2
<1>4. CASE UNCHANGED vars
  BY <1>4 DEF vars, poolVars, Counters
<1> QED
  BY <1>2, <1>3, <1>4 DEF Next, RequestStep, Recover, Activate, Redeem

\* The step of a request.
LEMMA RequestStepKeeps ==
  ASSUME IInv, NEW r \in Requests, RequestStep(r)
  PROVE  DataStep /\ DataInv' /\ CallInv' /\ ForecastInv' /\ ViewInv'
<1>1. /\ DataInv /\ CallInv /\ ViewTypeOK /\ AloneInv
      /\ \A q \in Requests : DryOf(q) /\ KeptOf(q) /\ LookOf(q)
  BY PoolParts DEF IInv, ForecastInv, DryInv, KeptInv, ViewInv, LookInv
<1>2. DataStep /\ CallInv' /\ DataInv'
  BY <1>1, RequestKeeps, DataStepKeeps
<1>3. AloneInv'
  BY <1>1, AloneKeeps
<1>4. ASSUME NEW q \in Requests PROVE DryOf(q)'
  <2>1. CASE q = r
    BY <1>1, <2>1, DryKeeps
  <2>2. CASE q # r
    <3>1. ControlSame(q)
      BY <1>1, <2>2, StepsAlone DEF CallInv, RequestStep
    <3>2. CASE file[q].f.kind = "rewards"
      BY <1>1, <1>2, <3>1, <3>2, DryStays DEF ControlSame
    <3>3. CASE file[q].f.kind # "rewards"
      BY <3>1, <3>3 DEF DryOf, ControlSame
    <3> QED
      BY <3>2, <3>3
  <2> QED
    BY <2>1, <2>2
<1>5. ASSUME NEW q \in Requests PROVE KeptOf(q)'
  <2>1. CASE q \in calm'
    BY <1>1, <2>1, CalmIsOwn, KeptKeeps
  <2>2. CASE q \notin calm'
    BY <2>2 DEF KeptOf
  <2> QED
    BY <2>1, <2>2
<1>6. ViewTypeOK' /\ LookOf(r)'
  <2>1. CASE ViewStep(r)
    BY <1>1, <2>1, FetchCodesLook, FetchBalancesLook DEF ViewStep
  <2>2. CASE CallStep(r) /\ UNCHANGED view
    <3>1. ViewTypeOK'
      BY <1>1, <2>2 DEF ViewTypeOK
    <3>2. pc[r] \in {"idle"} \cup Calling /\ pc'[r] # "balances"
      BY <1>1, <2>2 DEF CallStep, Start, BeginRow, FindReward, Prepare, Transfer, Ledger,
           Finish, WriteLog, Stop, Report, Goto, Calling, CallInv
    <3>3. view'[r] = None
      BY <1>1, <2>2, <3>2 DEF CallInv, CallOf, PlaceOf
    <3> QED
      BY <3>1, <3>2, <3>3 DEF LookOf
  <2> QED
    BY <2>1, <2>2 DEF RequestStep
<1>7. ASSUME NEW q \in Requests, q # r PROVE LookOf(q)'
  <2>1. ControlSame(q) /\ q \notin calm'
    BY <1>1, <1>7, StepsAlone, CalmIsOwn DEF CallInv, RequestStep
  <2> QED
    BY <1>1, <1>2, <2>1, LookStays DEF ControlSame
<1> QED
  BY <1>2, <1>3, <1>4, <1>5, <1>6, <1>7 DEF ForecastInv, DryInv, KeptInv, ViewInv, LookInv

\* The step of somebody else.
LEMMA OtherStepKeeps ==
  ASSUME IInv, UNCHANGED view,
         \/ \E o \in Ops : Recover(o)
         \/ (\E c \in Codes : Activate(c) \/ Redeem(c)) /\ UNCHANGED callVars
  PROVE  DataStep /\ DataInv' /\ CallInv' /\ ForecastInv' /\ ViewInv'
<1>1. /\ DataInv /\ CallInv /\ ViewTypeOK
      /\ \A q \in Requests : DryOf(q) /\ LookOf(q)
  BY PoolParts DEF IInv, ForecastInv, DryInv, ViewInv, LookInv
<1>2. calm' = {} /\ pc' = pc /\ UNCHANGED callVars
  BY DEF Recover, Activate, Redeem, Other
<1>3. \A q \in Requests : ControlSame(q)
  BY <1>2 DEF callVars, ControlSame
<1>4. DataStep /\ CallInv'
  <2>1. CASE \E o \in Ops : Recover(o)
    BY <1>1, <2>1, RecoverKeeps DEF DataStep
  <2>2. CASE \E c \in Codes : Activate(c) \/ Redeem(c)
    <3>1. Elsewhere
      BY <2>2 DEF Elsewhere
    <3>2. \A q \in Requests : CallOf(q)'
      BY <1>1, <1>3, <3>1, ElsewhereSame, BystanderKeeps DEF CallInv
    <3>3. CallTypeOK' /\ pc' \in [Requests -> Places]
      BY <1>1, <1>2 DEF CallInv, CallTypeOK, callVars
    <3> QED
      BY <3>1, <3>2, <3>3 DEF CallInv, DataStep
  <2> QED
    BY <2>1, <2>2
<1>5. DataInv'
  BY <1>1, <1>4, DataStepKeeps
<1>6. ASSUME NEW q \in Requests PROVE DryOf(q)'
  <2>1. CASE file[q].f.kind = "rewards"
    BY <1>1, <1>3, <1>4, <2>1, DryStays DEF ControlSame
  <2>2. CASE file[q].f.kind # "rewards"
    BY <1>3, <2>2 DEF DryOf, ControlSame
  <2> QED
    BY <2>1, <2>2
<1>7. ForecastInv'
  BY <1>2, <1>6 DEF ForecastInv, DryInv, AloneInv, KeptInv, KeptOf
<1>8. ViewInv'
  <2>1. \A q \in Requests : LookOf(q)'
    BY <1>1, <1>2, <1>3, <1>4, LookStays DEF ControlSame
  <2>2. ViewTypeOK'
    BY <1>1 DEF ViewTypeOK
  <2> QED
    BY <2>1, <2>2 DEF ViewInv, LookInv
<1> QED
  BY <1>4, <1>5, <1>7, <1>8

\* Nobody's step.
LEMMA NoStepKeeps ==
  ASSUME IInv, UNCHANGED vars
  PROVE  DataStep /\ DataInv' /\ CallInv' /\ ForecastInv' /\ ViewInv'
<1>1. /\ DataInv /\ CallInv /\ ViewTypeOK /\ AloneInv
      /\ \A q \in Requests : DryOf(q) /\ KeptOf(q) /\ LookOf(q)
  BY PoolParts DEF IInv, ForecastInv, DryInv, KeptInv, ViewInv, LookInv
<1>2. /\ UNCHANGED <<poolVars, pc, calm, view>> /\ UNCHANGED callVars
  BY DEF vars
<1>3. Stays /\ \A p : OpSame(p)
  BY <1>2, StaysSame
<1>4. DataStep /\ DataInv'
  BY <1>1, <1>3, DataStepKeeps DEF DataStep, Elsewhere
<1>5. \A q \in Requests : ControlSame(q)
  BY <1>2 DEF callVars, ControlSame
<1>6. CallInv'
  <2>1. \A q \in Requests : CallOf(q)'
    BY <1>1, <1>3, <1>5, BystanderKeeps DEF CallInv
  <2>2. CallTypeOK' /\ pc' \in [Requests -> Places]
    BY <1>1, <1>2 DEF CallInv, CallTypeOK, callVars
  <2> QED
    BY <2>1, <2>2 DEF CallInv
<1>7. ForecastInv'
  <2>1. \A v, m : WalletPool(v, m)' = WalletPool(v, m)
    BY <1>2, PoolSame DEF poolVars
  <2>2. ASSUME NEW q \in Requests PROVE KeptOf(q)'
    <3>1. CASE q \in calm
      <4>1. /\ Upcoming(q)' = Upcoming(q) /\ seller'[q] = seller[q]
            /\ UNCHANGED <<file, results, crossed, claim, pc>>
        BY <1>2 DEF callVars, poolVars, Upcoming, Current
      <4> QED
        BY <1>1, <2>1, <3>1, <4>1, KeptMoves
    <3>2. CASE q \notin calm
      BY <1>2, <3>2 DEF KeptOf
    <3> QED
      BY <3>1, <3>2
  <2>3. ASSUME NEW q \in Requests PROVE DryOf(q)'
    <3>1. CASE file[q].f.kind = "rewards"
      BY <1>1, <1>4, <1>5, <3>1, DryStays DEF ControlSame
    <3>2. CASE file[q].f.kind # "rewards"
      BY <1>5, <3>2 DEF DryOf, ControlSame
    <3> QED
      BY <3>1, <3>2
  <2>4. AloneInv'
    BY <1>1, <1>2 DEF AloneInv, InFlight
  <2> QED
    BY <2>2, <2>3, <2>4 DEF ForecastInv, DryInv, KeptInv
<1>8. ViewInv'
  <2>1. \A q \in Requests : LookOf(q)'
    BY <1>1, <1>2 DEF LookOf, Filtered, Asks, poolVars
  <2>2. ViewTypeOK'
    BY <1>1, <1>2 DEF ViewTypeOK
  <2> QED
    BY <2>1, <2>2 DEF ViewInv, LookInv
<1> QED
  BY <1>4, <1>6, <1>7, <1>8

\* IInv is inductive.
LEMMA Step ==
  ASSUME IInv, [Next]_vars
  PROVE  IInv' /\ DataStep
<1>1. Counters'
  BY CountersKeep, PoolParts DEF IInv
<1>2. DataStep /\ DataInv' /\ CallInv' /\ ForecastInv' /\ ViewInv'
  <2>1. CASE \E r \in Requests : RequestStep(r)
    BY <2>1, RequestStepKeeps
  <2>2. CASE /\ UNCHANGED view
             /\ \/ \E o \in Ops : Recover(o)
                \/ (\E c \in Codes : Activate(c) \/ Redeem(c)) /\ UNCHANGED callVars
    BY <2>2, OtherStepKeeps
  <2>3. CASE UNCHANGED vars
    BY <2>3, NoStepKeeps
  <2> QED
    BY <2>1, <2>2, <2>3 DEF Next, RequestStep
<1>3. PoolInv'
  BY <1>1, <1>2, PoolParts DEF PoolInv, PoolTypeOK, DataInv, DataTypes, Counters
<1> QED
  BY <1>2, <1>3 DEF IInv

\* IInv is an invariant of batches, wallets and books, for any number of
\* codes, files, requests, faults and steps of others.
THEOREM Invariant == Spec => []IInv
<1>1. IInv /\ [Next]_vars => IInv'
  BY Step
<1> QED
  BY <1>1, StartsWhole, PTL DEF Spec

\* What the theorems below need of IInv.
LEMMA PartsOf ==
  ASSUME IInv
  PROVE  /\ DataInv /\ CallInv /\ CallTypeOK /\ ViewTypeOK
         /\ \A r \in Requests : /\ DryOf(r) /\ KeptOf(r) /\ LookOf(r)
                                /\ PlaceOf(r) /\ ReportOf(r) /\ LogOf(r)
  BY PoolParts DEF IInv, CallInv, CallOf, ForecastInv, DryInv, KeptInv, ViewInv, LookInv

\* A claimed code is pending once its coupon has moved and until it is given.
LEMMA PendingCodes ==
  ASSUME DataInv, NEW c \in Codes
  PROVE  /\ claim[c] # None /\ Pending(claim[c]) <=> Sent(c) /\ ~Given(c)
         /\ Given(c) => Sent(c) /\ owner[c] = Keeper(c)
         /\ ~Sent(c) => owner[c] = Keeper(c)
         /\ c \in used => Given(c)
         /\ c \in shelved => ~Given(c)
<1>1. claim[c] # None => claim[c] \in Ops
  BY DEF DataInv, DataTypes
<1>2. /\ owner[c] = IF Given(c) THEN receiver[claim[c]] ELSE HolderOf[c]
      /\ c \in used => Given(c)
      /\ c \in shelved => ~Given(c)
  BY DEF DataInv, OwnerInv
<1>3. Given(c) => Sent(c)
  BY <1>1 DEF Given, Sent, DataInv, OpInv
<1>4. claim[c] # None /\ Pending(claim[c]) <=> Sent(c) /\ ~Given(c)
  BY DEF Pending, Sent, Given
<1> QED
  BY <1>2, <1>3, <1>4 DEF Keeper, Sent

\* The coupons of a wallet are its codes, but for the pending transfers.
LEMMA TokensFollow ==
  ASSUME DataInv
  PROVE  TokensFollowCodes
<1> SUFFICES ASSUME NEW v \in Vouchers, NEW h \in Holders
    PROVE  LET held == {c \in Codes : /\ VoucherOf[c] = v /\ owner[c] = h
                                      /\ c \notin shelved \cup used}
               away == {c \in held : claim[c] # None /\ Pending(claim[c])}
               due  == {c \in Codes : /\ VoucherOf[c] = v /\ claim[c] # None
                                      /\ Pending(claim[c]) /\ receiver[claim[c]] = h}
               gone == {c \in crossed : /\ VoucherOf[c] = v /\ HolderOf[c] = h
                                        /\ claim[c] \in settled}
           IN tokens[<<v, h>>] + Cardinality(gone) = Cardinality(held \ away) + Cardinality(due)
  BY DEF TokensFollowCodes
<1> DEFINE held == {c \in Codes : /\ VoucherOf[c] = v /\ owner[c] = h
                                  /\ c \notin shelved \cup used}
           away == {c \in held : claim[c] # None /\ Pending(claim[c])}
           due  == {c \in Codes : /\ VoucherOf[c] = v /\ claim[c] # None
                                  /\ Pending(claim[c]) /\ receiver[claim[c]] = h}
           gone == {c \in crossed : /\ VoucherOf[c] = v /\ HolderOf[c] = h
                                    /\ claim[c] \in settled}
<1>1. due \subseteq Held(v, h)
  BY PendingCodes DEF Held, Keeper, Off
<1>2. ASSUME NEW c \in Codes
      PROVE  c \in Held(v, h) /\ c \notin due <=> c \in held /\ c \notin away
  <2>1. c \in Held(v, h) <=> VoucherOf[c] = v /\ ~Off(c) /\ Keeper(c) = h
    BY DEF Held
  <2>2. c \in due <=> VoucherOf[c] = v /\ Sent(c) /\ ~Given(c) /\ Keeper(c) = h
    BY PendingCodes DEF Keeper
  <2>3. c \in held /\ c \notin away <=>
          VoucherOf[c] = v /\ owner[c] = h /\ c \notin shelved \cup used /\ ~(Sent(c) /\ ~Given(c))
    BY PendingCodes
  <2> HIDE DEF due, held, away
  <2> QED
    BY <2>1, <2>2, <2>3, PendingCodes DEF Off
<1>3. Held(v, h) \ due = held \ away
  BY <1>2 DEF Held
<1>4. tokens[<<v, h>>] + Cardinality(Lost(v, h)) = Cardinality(Held(v, h))
  BY DEF DataInv, TokenInv
<1>5. gone = Lost(v, h)
  BY NoneIsNull DEF Lost, Sent, DataInv, DataTypes
<1> QED
  BY <1>1, <1>3, <1>4, <1>5, HeldFinite, TakeOut

\* The coupons of a wallet are its codes that are neither listed nor used, but
\* for the transfers whose ledger is not written and for the listings that
\* crossed a transfer, for any number of codes, requests, files and faults.
THEOREM CouponsFollowCodes == Spec => []TokensFollowCodes
<1>1. IInv => TokensFollowCodes
  BY PartsOf, TokensFollow
<1> QED
  BY <1>1, Invariant, PTL

\* What a row of a file was told is true.
LEMMA ReportsTrue ==
  ASSUME IInv
  PROVE  ReportIsTrue /\ ClaimsAreReported
<1>1. ASSUME NEW o \in CsvRows
      PROVE  /\ o \in Ops /\ Reported(o) \in Outcomes
             /\ Reported(o) = "SUCCESS" =>
                  /\ receiver[o] = Rows(o[1])[o[2]].to /\ delivered[o] # {}
                  /\ delivered[o] = Claimed(o)
                  /\ Cardinality(Claimed(o)) = Rows(o[1])[o[2]].quantity
                  /\ \A c \in Claimed(o) : VoucherOf[c] = Rows(o[1])[o[2]].voucher
             /\ Reported(o) = "DESYNCED" => o \in settled
             /\ Reported(o) = "FAILED" => o \notin settled /\ Claimed(o) = {}
  <2>1. o \in Ops /\ file[o[1]].f.kind = "csv" /\ o[2] <= Len(results[o[1]])
    BY DEF CsvRows, Answered
  <2>2. PICK r \in Requests, i \in 1 .. MaxRows : o = <<r, i>>
    BY <2>1 DEF Ops
  <2>3. i <= Len(results[r]) /\ file[r].f.kind = "csv"
    BY <2>1, <2>2
  <2>4. /\ i \in 1 .. Len(results[r]) /\ i < Current(r)
        /\ results[r][i] \in Outcomes
    BY <2>3, PartsOf, ResultsType
  <2>5. ReportAt(r, i)
    BY <2>4, PartsOf DEF ReportOf
  <2>6. delivered[o] # {} => delivered[o] = Claimed(o)
    BY <2>1, PartsOf DEF DataInv, OpInv
  <2>7. Reported(o) = results[r][i] /\ Rows(o[1]) = Rows(r) /\ o[2] = i
    BY <2>2 DEF Reported
  <2> QED
    BY <2>1, <2>2, <2>3, <2>4, <2>5, <2>6, <2>7 DEF ReportAt, AskedFor, Untouched
<1>2. ReportIsTrue
  BY <1>1 DEF ReportIsTrue
<1>3. ClaimsAreReported
  BY <1>1 DEF ClaimsAreReported, OpenClaim, Outcomes
<1> QED
  BY <1>2, <1>3

\* What was logged of a file is true.
LEMMA LogsTrue ==
  ASSUME IInv
  PROVE  LogIsTrue
<1> SUFFICES ASSUME NEW r \in Requests, log[r] # None, log[r] \in LogStatuses
    PROVE  /\ log[r] = "SUCCESS" => \A i \in DOMAIN Rows(r) : delivered[<<r, i>>] # {}
           /\ log[r] = "FAILED"  =>
                \A i \in DOMAIN Rows(r) :
                  delivered[<<r, i>>] # {} => results[r][i] \in {"REVIEW", "DESYNCED"}
  BY NoTaskIsNull DEF LogIsTrue, LogStatuses
<1>1. /\ file[r] # None /\ file[r].f.kind = "csv" /\ Len(results[r]) = Len(Rows(r))
      /\ log[r] = Status(r)
  BY PartsOf DEF LogOf
<1>2. /\ DOMAIN Rows(r) = 1 .. Len(results[r]) /\ DOMAIN results[r] = 1 .. Len(results[r])
      /\ Len(results[r]) <= MaxRows /\ Len(results[r]) \in Nat /\ MaxRows \in Nat
  BY <1>1, PartsOf, FileRows, ResultsType, BoundsOK
<1>3. ASSUME NEW i \in DOMAIN Rows(r)
      PROVE  /\ i \in DOMAIN results[r] /\ results[r][i] \in Outcomes
             /\ results[r][i] = "SUCCESS" => delivered[<<r, i>>] # {}
             /\ results[r][i] = "FAILED" => delivered[<<r, i>>] = {}
  <2>1. i \in 1 .. MaxRows /\ i \in 1 .. Len(results[r]) /\ i < Current(r)
    BY <1>2 DEF Current
  <2>2. ReportAt(r, i) /\ results[r][i] \in Outcomes /\ <<r, i>> \in Ops
    BY <2>1, PartsOf, ResultsType DEF ReportOf, Ops
  <2>3. delivered[<<r, i>>] \in {{}, Claimed(<<r, i>>)}
    BY <2>2, PartsOf DEF DataInv, OpInv
  <2> QED
    BY <1>1, <1>2, <2>2, <2>3 DEF ReportAt, Untouched
<1>4. log[r] = "SUCCESS" => \A i \in DOMAIN Rows(r) : results[r][i] = "SUCCESS"
  BY <1>1, <1>3 DEF Status
<1>5. log[r] = "FAILED" => \A i \in DOMAIN Rows(r) : results[r][i] # "SUCCESS"
  BY <1>1, <1>3 DEF Status
<1> QED
  BY <1>3, <1>4, <1>5 DEF Outcomes

\* Those who ask for transfers are told the truth of every row, the log is
\* true of every file, and no claim stays behind of which nobody was told.
THEOREM AnswersStayTrue == Spec => []AnswersAreTrue
<1>1. IInv => AnswersAreTrue
  BY ReportsTrue, LogsTrue DEF AnswersAreTrue
<1> QED
  BY <1>1, Invariant, PTL

\* A file the preview was content with goes through if the request is alone,
\* and the dry run misses no reward that is given away, for every file.
THEOREM ForecastsComeTrue == Spec => []ForecastsHold
<1>1. IInv => TypeOK
  BY DEF IInv, PoolInv, CallInv, ViewInv, TypeOK
<1>2. ASSUME IInv PROVE PreviewIsKept
  <2> SUFFICES ASSUME NEW r \in Requests, r \in calm, Kept(r), NEW i \in DOMAIN results[r]
      PROVE  results[r][i] = "SUCCESS"
    BY <1>2 DEF IInv, PoolInv, PoolTypeOK, PreviewIsKept, Kept
  <2>1. \A j \in 1 .. MaxRows : j < Current(r) => results[r][j] = "SUCCESS"
    BY <1>2, PartsOf DEF KeptOf
  <2>2. file[r] # None /\ Len(results[r]) <= Len(Rows(r))
    BY <1>2, PartsOf DEF Kept, PlaceOf
  <2>3. Len(Rows(r)) \in 1 .. MaxRows
    BY <1>2, <2>2, PartsOf, FileRows
  <2>4. i \in 1 .. Len(results[r]) /\ Len(results[r]) \in Nat
    BY <1>2, PartsOf, ResultsType
  <2> QED
    BY <2>1, <2>2, <2>3, <2>4, BoundsOK DEF Current
<1>3. ASSUME IInv PROVE DryRunMissesNothing
  BY <1>3, PartsOf DEF DryRunMissesNothing, DryOf
<1>4. IInv => ForecastsHold
  BY <1>1, <1>2, <1>3 DEF ForecastsHold
<1> QED
  BY <1>4, Invariant, PTL

\* The coupons of a group are all used, or none is.
LEMMA OneStatus ==
  ASSUME NEW S, NEW U, NEW v, NEW b, NEW D,
         D = {c \in S : VoucherOf[c] = v /\ (c \in U) = b}, NEW e \in D, e \notin U
  PROVE  \A c \in D : c \in S /\ VoucherOf[c] = v /\ c \notin U
<1>1. (e \in U) = b
  BY SMT
<1> QED
  BY <1>1, SMT

\* A group of coupons that is offered can be redeemed.
LEMMA OfferedRedeemable ==
  ASSUME IInv
  PROVE  OfferedIsRedeemable
<1> SUFFICES ASSUME NEW r \in calm, view[r] # None, pc[r] = "over",
                    NEW g \in GroupVouchersByGroupId(r, view[r].shown), ~g.used
    PROVE  /\ owner[g.latest] = view[r].by /\ g.latest \notin used
           /\ tokens[<<VoucherOf[g.latest], view[r].by>>] >= Cardinality(g.codes)
  BY DEF OfferedIsRedeemable
<1>1. r \in Requests
  BY DEF IInv, PoolInv, PoolTypeOK
<1>2. PICK l : l = view[r]
  OBVIOUS
<1>3. l \in Looks
  BY <1>1, <1>2, PartsOf DEF ViewTypeOK
<1>4. l.by \in Customers /\ l.shown \subseteq Codes
  BY <1>3 DEF Looks
<1>5. PICK D \in {{c \in l.shown : VoucherOf[c] = v /\ (c \in l.used) = b} :
                    v \in Vouchers, b \in BOOLEAN} \ {{}} :
        g = [codes |-> D, latest |-> CHOOSE c \in D : \A d \in D : d <= c,
             used |-> D \subseteq l.used]
  BY <1>2 DEF GroupVouchersByGroupId
<1>6. PICK v \in Vouchers, b \in BOOLEAN :
        D = {c \in l.shown : VoucherOf[c] = v /\ (c \in l.used) = b}
  BY <1>5
<1>7. D # {} /\ ~(D \subseteq l.used) /\ g.codes = D
  BY <1>5
<1>8. PICK e \in D : e \notin l.used
  BY <1>7
<1>9. \A c \in D : c \in l.shown /\ VoucherOf[c] = v /\ c \notin l.used
  BY ONLY <1>6, <1>8, OneStatus
<1>10. /\ l.shown \subseteq l.unused \cup l.used
       /\ l.unused = {c \in Codes : owner[c] = l.by} \ used
  <2>1. LookOf(r)
    BY <1>1, PartsOf
  <2>2. /\ view[r].shown \subseteq view[r].unused \cup view[r].used
        /\ view[r].unused = {c \in Codes : owner[c] = view[r].by} \ used
    BY <2>1 DEF LookOf
  <2> QED
    BY <1>2, <2>2
<1>11. D \subseteq {c \in Codes : owner[c] = l.by /\ VoucherOf[c] = v} \ used
  BY <1>9, <1>10
<1>12. /\ D \subseteq Nat /\ IsFiniteSet(D) /\ Cardinality(D) \in Nat
       /\ tokens[<<v, l.by>>] \in Nat /\ Cardinality(D) <= tokens[<<v, l.by>>]
  <2>1. DataInv /\ l.by \in Customers
    BY <1>4, PartsOf
  <2> QED
    BY ONLY <1>11, <2>1, v \in Vouchers, OwnedFits
<1>13. \E c \in D : \A d \in D : d <= c
  BY <1>7, <1>12, GreatestNumber
<1>14. g.latest \in D
  BY <1>5, <1>13
<1>15. VoucherOf[g.latest] = v /\ owner[g.latest] = l.by /\ g.latest \notin used
  BY <1>9, <1>11, <1>14
<1> QED
  BY <1>2, <1>7, <1>12, <1>15

\* A customer who looks is shown no code of anybody else, and, while nothing
\* else happens, every coupon asked for, of which the newest can be redeemed.
THEOREM WalletsAreTrue == Spec => []WalletViewIsTrue
<1>1. ASSUME IInv PROVE CalmWalletIsWhole
  <2>1. calm \subseteq Requests
    BY <1>1 DEF IInv, PoolInv, PoolTypeOK
  <2> QED
    BY <1>1, <2>1, PartsOf DEF CalmWalletIsWhole, LookOf
<1>2. ASSUME IInv PROVE ShownWasOwned
  BY <1>2, PartsOf DEF ShownWasOwned, LookOf
<1>3. IInv => WalletViewIsTrue
  BY <1>1, <1>2, OfferedRedeemable DEF WalletViewIsTrue
<1> QED
  BY <1>3, Invariant, PTL

\* Sets of codes are finite.
LEMMA CodesFinite ==
  ASSUME NEW S, S \subseteq Codes
  PROVE  IsFiniteSet(S) /\ Cardinality(S) \in Nat
  BY CodesOK, FS_Subset, FS_CardinalityType

\* The merchant's codes are the ones that were never sold.
LEMMA MerchantCodes ==
  ASSUME DataInv, NEW c \in Codes
  PROVE  /\ owner[c] \in Customers \/ owner[c] \in Merchants
         /\ owner[c] \in Customers => owner[c] \notin Merchants
         /\ owner[c] \in Merchants => owner[c] = HolderOf[c] /\ ~Given(c) /\ c \notin used
         /\ Given(c) <=> owner[c] \in Customers
<1>1. owner[c] \in Holders /\ HolderOf[c] \in Merchants
  BY StockOK DEF DataInv, DataTypes
<1>2. Given(c) => owner[c] \in Customers
  <2>1. Given(c) => claim[c] \in Ops /\ c \in Claimed(claim[c])
    BY DEF Given, DataInv, DataTypes, Claimed
  <2> QED
    BY <2>1 DEF DataInv, OwnerInv, OpInv
<1>3. /\ owner[c] = IF Given(c) THEN receiver[claim[c]] ELSE HolderOf[c]
      /\ c \in used => Given(c)
  BY DEF DataInv, OwnerInv
<1> QED
  BY <1>1, <1>2, <1>3, Apart DEF Holders

\* A marketer's codes of a voucher that are not on the shelf, and those that are.
UpcomingCodes(v, m) ==
  {c \in Codes : VoucherOf[c] = v /\ owner[c] = m /\ c \notin used \cup shelved}
ListedCodes(v, m) ==
  {c \in Codes : VoucherOf[c] = v /\ owner[c] = m /\ c \in shelved}

\* What the inventory has of a voucher, upcoming and active.
LEMMA Inventory ==
  ASSUME DataInv, NEW v \in Vouchers, NEW m \in Merchants
  PROVE  /\ CountUpcomingCodes(v, m) = Cardinality(UpcomingCodes(v, m))
         /\ GetMarketerInventory(m, v, "upcoming").availableCount = Cardinality(UpcomingCodes(v, m))
         /\ GetMarketerInventory(m, v, "active").availableCount = Cardinality(ListedCodes(v, m))
<1> DEFINE codes(status) ==
             {c \in MarketerCodes(m) : VoucherOf[c] = v /\ InventoryStatus(m, c) = status}
           here(status) == {c \in codes(status) : owner[c] = m /\ c \notin used}
<1>1. \A status : GetMarketerInventory(m, v, status).availableCount = Cardinality(here(status))
  BY DEF GetMarketerInventory
<1>2. here("upcoming") = UpcomingCodes(v, m)
  BY DEF MarketerCodes, InventoryStatus, UpcomingCodes
<1>3. here("active") = ListedCodes(v, m)
  BY MerchantCodes DEF MarketerCodes, InventoryStatus, ListedCodes
<1>4. CountUpcomingCodes(v, m) = Cardinality(UpcomingCodes(v, m))
  BY DEF CountUpcomingCodes, UpcomingCodes
<1> HIDE DEF here
<1> QED
  BY <1>1, <1>2, <1>3, <1>4

\* The operations that are pending for a marketer's voucher.
PendingFor(v, m) ==
  {p \in settled : Pending(p) /\ \E c \in Claimed(p) : VoucherOf[c] = v /\ owner[c] = m}

\* Their codes, and the codes that were listed and given to a customer.
PendingCodesOf(v, m) == UNION {Claimed(o) : o \in PendingFor(v, m)}
GoneFor(v, m) ==
  {c \in crossed : VoucherOf[c] = v /\ HolderOf[c] = m /\ owner[c] \in Customers}

\* A marketer's upcoming codes without a coupon are pending ones that are not
\* listed; what the marketer has lost went to pending ones that are, and to
\* those that were given to a customer.
LEMMA PendingForCodes ==
  ASSUME DataInv, NEW v \in Vouchers, NEW m \in Merchants
  PROVE  /\ Held(v, m) \subseteq UpcomingCodes(v, m)
         /\ UpcomingCodes(v, m) \ Held(v, m) = PendingCodesOf(v, m) \ shelved
         /\ GoneFor(v, m) \subseteq Lost(v, m)
         /\ Lost(v, m) \ GoneFor(v, m) = PendingCodesOf(v, m) \cap shelved
         /\ PendingFor(v, m) \subseteq Ops /\ IsFiniteSet(PendingFor(v, m))
<1>1. PendingFor(v, m) \subseteq Ops
  BY DEF PendingFor, DataInv, DataTypes
<1>2. ASSUME NEW c \in Codes, Sent(c)
      PROVE  claim[c] \in Ops /\ Keeper(c) \in Customers /\ Keeper(c) # m
  <2>1. claim[c] \in Ops /\ c \in Claimed(claim[c])
    BY <1>2 DEF Sent, DataInv, DataTypes, Claimed
  <2> QED
    BY <1>2, <2>1, Apart DEF Keeper, DataInv, OpInv
<1>3. ASSUME NEW c \in Codes
      PROVE  c \in PendingCodesOf(v, m) <=>
               VoucherOf[c] = v /\ owner[c] = m /\ Sent(c) /\ ~Given(c)
  <2>1. ASSUME NEW o \in PendingFor(v, m), c \in Claimed(o)
        PROVE  VoucherOf[c] = v /\ owner[c] = m /\ Sent(c) /\ ~Given(c)
    <3>1. o \in Ops /\ o \in settled /\ delivered[o] = {} /\ o # None
      BY <1>1, <2>1, NoneIsNull DEF PendingFor, Pending
    <3>2. PICK d \in Claimed(o) : VoucherOf[d] = v /\ owner[d] = m
      BY <2>1 DEF PendingFor
    <3>3. d \in Codes /\ claim[c] = o /\ claim[d] = o
      BY <2>1, <3>2 DEF Claimed
    <3>4. VoucherOf[c] = v /\ HolderOf[c] = HolderOf[d]
      BY <3>1, <3>2, <3>3 DEF DataInv, OpInv
    <3>5. Sent(c) /\ ~Given(c) /\ ~Given(d)
      BY <3>1, <3>3 DEF Sent, Given
    <3>6. owner[c] = HolderOf[c] /\ owner[d] = HolderOf[d]
      BY <3>3, <3>5 DEF DataInv, OwnerInv
    <3> QED
      BY <3>2, <3>4, <3>5, <3>6
  <2>2. ASSUME VoucherOf[c] = v, owner[c] = m, Sent(c), ~Given(c)
        PROVE  c \in PendingCodesOf(v, m)
    <3>1. claim[c] \in settled /\ Pending(claim[c]) /\ c \in Claimed(claim[c])
      BY <2>2, PendingCodes DEF Sent, Claimed
    <3> QED
      BY <2>2, <3>1 DEF PendingFor, PendingCodesOf
  <2> QED
    BY <2>1, <2>2 DEF PendingCodesOf
<1>4. \A c \in PendingCodesOf(v, m) : c \in Codes
  BY DEF PendingCodesOf, Claimed
<1>5. ASSUME NEW c \in Codes
      PROVE  c \in Held(v, m) <=>
               VoucherOf[c] = v /\ owner[c] = m /\ c \notin used \cup shelved /\ ~Sent(c)
  BY <1>2, MerchantCodes, PendingCodes DEF Held, Off
<1>6. Held(v, m) \subseteq UpcomingCodes(v, m)
  BY <1>5 DEF UpcomingCodes, Held
<1>7. UpcomingCodes(v, m) \ Held(v, m) = PendingCodesOf(v, m) \ shelved
  BY <1>3, <1>4, <1>5, MerchantCodes DEF UpcomingCodes
<1>8. ASSUME NEW c \in crossed
      PROVE  /\ c \in Codes
             /\ c \in GoneFor(v, m) <=> VoucherOf[c] = v /\ HolderOf[c] = m /\ Given(c)
             /\ c \in shelved <=> ~Given(c)
             /\ Given(c) => Sent(c)
  <2>1. c \in Codes
    BY DEF DataInv, DataTypes
  <2> QED
    BY <2>1, MerchantCodes, PendingCodes DEF GoneFor, DataInv, OwnerInv
<1>9. GoneFor(v, m) \subseteq Lost(v, m)
  BY <1>8 DEF GoneFor, Lost
<1>10. ASSUME NEW c
       PROVE  c \in Lost(v, m) /\ c \notin GoneFor(v, m)
                <=> c \in PendingCodesOf(v, m) /\ c \in shelved
  <2>1. ASSUME c \in Lost(v, m), c \notin GoneFor(v, m)
        PROVE  c \in PendingCodesOf(v, m) /\ c \in shelved
    <3>1. c \in crossed /\ VoucherOf[c] = v /\ HolderOf[c] = m /\ Sent(c)
      BY <2>1 DEF Lost
    <3>2. c \in Codes /\ ~Given(c) /\ c \in shelved
      BY <1>8, <2>1, <3>1
    <3>3. owner[c] = m
      BY <3>1, <3>2 DEF DataInv, OwnerInv
    <3> QED
      BY <1>3, <3>1, <3>2, <3>3
  <2>2. ASSUME c \in PendingCodesOf(v, m), c \in shelved
        PROVE  c \in Lost(v, m) /\ c \notin GoneFor(v, m)
    <3>1. c \in Codes /\ VoucherOf[c] = v /\ owner[c] = m /\ Sent(c) /\ ~Given(c)
      BY <1>3, <1>4, <2>2
    <3>2. c \in crossed /\ HolderOf[c] = m
      BY <2>2, <3>1 DEF DataInv, OwnerInv, Sent
    <3> QED
      BY <1>8, <3>1, <3>2 DEF Lost
  <2> QED
    BY <2>1, <2>2
<1>11. Lost(v, m) \ GoneFor(v, m) = PendingCodesOf(v, m) \cap shelved
  BY <1>10
<1>12. IsFiniteSet(PendingFor(v, m))
  <2> DEFINE S == {c \in Codes : claim[c] \in PendingFor(v, m)}
             g == [c \in S |-> claim[c]]
  <2>1. \A o \in PendingFor(v, m) : \E c \in S : g[c] = o
    BY DEF PendingFor, Claimed
  <2>2. g \in Surjection(S, PendingFor(v, m))
    BY <2>1 DEF Surjection
  <2> QED
    BY <2>2, CodesFinite, FS_Surjection
<1> QED
  BY <1>1, <1>6, <1>7, <1>9, <1>11, <1>12

\* What a marketer is shown as upcoming is on chain, but for the pending and
\* for what was listed and given.
LEMMA UpcomingOnChain ==
  ASSUME DataInv
  PROVE  InventoryIsOnChain
<1> SUFFICES ASSUME NEW v \in Vouchers, NEW m \in Merchants
    PROVE  Cardinality(UpcomingCodes(v, m)) - tokens[<<v, m>>] =
             Tally([o \in PendingFor(v, m) |-> Cardinality(Claimed(o))])
             + Cardinality(GoneFor(v, m))
  BY Inventory DEF InventoryIsOnChain, PendingFor, GoneFor
<1> DEFINE I == PendingFor(v, m)
           S == [o \in I |-> Claimed(o)]
<1>1. /\ Held(v, m) \subseteq UpcomingCodes(v, m)
      /\ UpcomingCodes(v, m) \ Held(v, m) = PendingCodesOf(v, m) \ shelved
      /\ GoneFor(v, m) \subseteq Lost(v, m)
      /\ Lost(v, m) \ GoneFor(v, m) = PendingCodesOf(v, m) \cap shelved
      /\ IsFiniteSet(I)
  BY PendingForCodes
<1>2. \A o \in I : IsFiniteSet(S[o])
  BY CodesFinite DEF Claimed
<1>3. \A i, j \in I : i # j => S[i] \cap S[j] = {}
  BY DEF Claimed
<1>4. UNION {S[i] : i \in I} = PendingCodesOf(v, m)
  BY DEF PendingCodesOf
<1>5. [i \in I |-> Cardinality(S[i])] = [o \in I |-> Cardinality(Claimed(o))]
  OBVIOUS
<1> HIDE DEF S
<1>6. Cardinality(UNION {S[i] : i \in I}) = Tally([i \in I |-> Cardinality(S[i])])
  BY <1>1, <1>2, <1>3, TallyUnion
<1>7. PICK U, H, L, G, P, Q :
        /\ U = UpcomingCodes(v, m) /\ H = Held(v, m) /\ L = Lost(v, m)
        /\ G = GoneFor(v, m) /\ P = PendingCodesOf(v, m) /\ Q = P \cap shelved
  OBVIOUS
<1>8. /\ IsFiniteSet(U) /\ IsFiniteSet(L) /\ IsFiniteSet(P)
      /\ H \subseteq U /\ G \subseteq L /\ Q \subseteq P
      /\ U \ H = P \ Q /\ L \ G = Q
  <2>1. IsFiniteSet(U)
    BY <1>7, CodesFinite DEF UpcomingCodes
  <2>2. IsFiniteSet(P)
    BY <1>7, CodesFinite DEF PendingCodesOf, Claimed
  <2> QED
    BY <1>1, <1>7, <2>1, <2>2, LostFinite
<1>9. /\ Cardinality(U) = Cardinality(P \ Q) + Cardinality(H)
      /\ Cardinality(L) = Cardinality(Q) + Cardinality(G)
      /\ Cardinality(P) = Cardinality(P \ Q) + Cardinality(Q)
      /\ Cardinality(P \ Q) \in Nat /\ Cardinality(Q) \in Nat
      /\ Cardinality(H) \in Nat /\ Cardinality(G) \in Nat
  <2>1. Cardinality(U) = Cardinality(U \ H) + Cardinality(H) /\ Cardinality(H) \in Nat
    BY ONLY <1>8, TakeOut
  <2>2. Cardinality(L) = Cardinality(L \ G) + Cardinality(G) /\ Cardinality(G) \in Nat
    BY ONLY <1>8, TakeOut
  <2>3. /\ Cardinality(P) = Cardinality(P \ Q) + Cardinality(Q)
        /\ Cardinality(P \ Q) \in Nat /\ Cardinality(Q) \in Nat
    BY ONLY <1>8, TakeOut
  <2> QED
    BY <1>8, <2>1, <2>2, <2>3
<1>10. tokens[<<v, m>>] + Cardinality(L) = Cardinality(H) /\ tokens[<<v, m>>] \in Nat
  BY <1>7 DEF DataInv, DataTypes, TokenInv, Holders
<1>11. Cardinality(P) = Tally([o \in I |-> Cardinality(Claimed(o))])
  BY <1>4, <1>5, <1>6, <1>7
<1>12. Cardinality(U) - tokens[<<v, m>>] = Cardinality(P) + Cardinality(G)
  BY ONLY <1>9, <1>10, SMT
<1> QED
  BY <1>7, <1>11, <1>12

\* The sold coupons are those that transfers have delivered.
LEMMA SoldDelivered ==
  ASSUME DataInv
  PROVE  Sold = UNION {delivered[o] : o \in Ops}
<1>1. ASSUME NEW c \in Sold PROVE \E o \in Ops : c \in delivered[o]
  BY SoldCodes DEF Sold
<1>2. ASSUME NEW o \in Ops, NEW c \in delivered[o] PROVE c \in Sold
  <2>1. c \in Claimed(o)
    BY DEF DataInv, OpInv
  <2>2. c \in Codes /\ claim[c] = o /\ Given(c)
    BY <2>1, NoneIsNull DEF Claimed, Given
  <2> QED
    BY <2>2, MerchantCodes DEF Sold
<1> QED
  BY <1>1, <1>2

\* Counts of a dashboard.
LEMMA Counts ==
  ASSUME NEW S, S \subseteq Codes
  PROVE  /\ CouponCounts(S).sold = Cardinality(S \cap Sold)
         /\ CouponCounts(S).unsold = Cardinality(S \ Sold)
         /\ CouponCounts(S).unredeemed = Cardinality((S \cap Sold) \ used)
         /\ CouponCounts(S).redeemed = Cardinality(S \cap Sold \cap used)
         /\ CouponCounts(S).unredeemed + CouponCounts(S).redeemed = CouponCounts(S).sold
<1>1. /\ CouponCounts(S).sold = Cardinality(S \cap Sold)
      /\ CouponCounts(S).unsold = Cardinality(S \ Sold)
      /\ CouponCounts(S).unredeemed = Cardinality((S \cap Sold) \ used)
      /\ CouponCounts(S).redeemed = Cardinality(S \cap Sold \cap used)
  BY DEF CouponCounts
<1>2. PICK A, B : A = S \cap Sold /\ B = S \cap Sold \cap used
  OBVIOUS
<1>3. IsFiniteSet(A) /\ B \subseteq A
  BY <1>2, CodesFinite
<1>4. /\ Cardinality(A) = Cardinality(A \ B) + Cardinality(B)
      /\ Cardinality(A \ B) \in Nat /\ Cardinality(B) \in Nat
  BY ONLY <1>3, TakeOut
<1>5. A \ B = (S \cap Sold) \ used
  BY <1>2
<1> QED
  BY <1>1, <1>2, <1>4, <1>5

\* A marketer's dashboard is about what its transfers have delivered and what
\* it still has.
LEMMA MarketerCounts ==
  ASSUME DataInv, NEW m \in Merchants
  PROVE  /\ ComputeCouponCounts(m).sold = Cardinality({c \in Sold : HolderOf[c] = m})
         /\ ComputeCouponCounts(m).unsold = Cardinality({c \in Codes : owner[c] = m})
<1> DEFINE S == {c \in FetchUniqueCouponCodes(m) : IsPurchasedCode(c, m)}
<1>1. S = {c \in Codes : HolderOf[c] = m \/ owner[c] = m}
  BY DEF FetchUniqueCouponCodes, IsPurchasedCode
<1>2. S \cap Sold = {c \in Sold : HolderOf[c] = m}
  BY <1>1, MerchantCodes DEF Sold
<1>3. S \ Sold = {c \in Codes : owner[c] = m}
  BY <1>1, MerchantCodes DEF Sold
<1>4. ComputeCouponCounts(m) = CouponCounts(S)
  BY DEF ComputeCouponCounts
<1>5. S \subseteq Codes
  BY <1>1
<1> HIDE DEF S
<1> QED
  BY <1>2, <1>3, <1>4, <1>5, Counts

\* The marketers' dashboards add up to the sold coupons.
LEMMA SoldAddsUp ==
  ASSUME DataInv
  PROVE  Cardinality(Sold) = Tally([m \in Merchants |-> ComputeCouponCounts(m).sold])
<1> DEFINE S == [m \in Merchants |-> {c \in Sold : HolderOf[c] = m}]
<1>1. IsFiniteSet(Merchants) /\ \A m \in Merchants : IsFiniteSet(S[m])
  BY FewOf, CodesFinite DEF Sold
<1>2. \A i, j \in Merchants : i # j => S[i] \cap S[j] = {}
  OBVIOUS
<1>3. UNION {S[i] : i \in Merchants} = Sold
  BY StockOK DEF Sold
<1>4. ASSUME NEW m \in Merchants PROVE Cardinality(S[m]) = ComputeCouponCounts(m).sold
  BY MarketerCounts
<1> HIDE DEF S
<1>5. Cardinality(UNION {S[i] : i \in Merchants}) =
        Tally([i \in Merchants |-> Cardinality(S[i])])
  BY <1>1, <1>2, TallyUnion
<1>6. [i \in Merchants |-> Cardinality(S[i])] =
        [m \in Merchants |-> ComputeCouponCounts(m).sold]
  BY <1>4
<1> QED
  BY <1>3, <1>5, <1>6

\* The inventories of a marketer add up to what its dashboard has unsold.
LEMMA UnsoldAddsUp ==
  ASSUME DataInv, NEW m \in Merchants
  PROVE  ComputeCouponCounts(m).unsold =
           Tally([v \in Vouchers |-> GetMarketerInventory(m, v, "upcoming").availableCount
                                    + GetMarketerInventory(m, v, "active").availableCount])
<1> DEFINE S == [v \in Vouchers |-> {c \in Codes : VoucherOf[c] = v /\ owner[c] = m}]
<1>1. IsFiniteSet(Vouchers) /\ \A v \in Vouchers : IsFiniteSet(S[v])
  BY FewOf, CodesFinite
<1>2. \A i, j \in Vouchers : i # j => S[i] \cap S[j] = {}
  OBVIOUS
<1>3. UNION {S[i] : i \in Vouchers} = {c \in Codes : owner[c] = m}
  BY StockOK
<1>4. ASSUME NEW v \in Vouchers
      PROVE  Cardinality(S[v]) = GetMarketerInventory(m, v, "upcoming").availableCount
                                 + GetMarketerInventory(m, v, "active").availableCount
  <2>1. PICK A, B : A = S[v] /\ B = ListedCodes(v, m)
    OBVIOUS
  <2>2. IsFiniteSet(A) /\ B \subseteq A
    BY <1>1, <2>1 DEF ListedCodes
  <2>3. /\ Cardinality(A) = Cardinality(A \ B) + Cardinality(B)
        /\ Cardinality(A \ B) \in Nat /\ Cardinality(B) \in Nat
    BY ONLY <2>2, TakeOut
  <2>4. A \ B = UpcomingCodes(v, m)
    BY <2>1, MerchantCodes DEF ListedCodes, UpcomingCodes
  <2>5. /\ GetMarketerInventory(m, v, "upcoming").availableCount = Cardinality(A \ B)
        /\ GetMarketerInventory(m, v, "active").availableCount = Cardinality(B)
    BY <2>1, <2>4, Inventory
  <2> QED
    BY ONLY <2>1, <2>3, <2>5
<1> HIDE DEF S
<1>5. Cardinality(UNION {S[i] : i \in Vouchers}) =
        Tally([i \in Vouchers |-> Cardinality(S[i])])
  BY <1>1, <1>2, TallyUnion
<1>6. [i \in Vouchers |-> Cardinality(S[i])] =
        [v \in Vouchers |-> GetMarketerInventory(m, v, "upcoming").availableCount
                            + GetMarketerInventory(m, v, "active").availableCount]
  BY <1>4
<1> QED
  BY <1>3, <1>5, <1>6, MarketerCounts

\* The dashboards of one voucher.
LEMMA VoucherDashboards ==
  ASSUME DataInv, NEW v \in Vouchers
  PROVE  /\ GetVoucherStats({v}).soldButNotUsed = GetMerchantSummary({v}).coupon.unredeemed
         /\ GetEndUserStats({v}).purchasedButNotUsed = GetMerchantSummary({v}).endUser.unredeemed
         /\ GetVoucherStats({v}).total - GetVoucherStats({v}).sold =
              GetMerchantSummary({v}).coupon.unsold
<1> DEFINE S    == {c \in Codes : VoucherOf[c] \in {v}}
           sold == {c \in Sold : VoucherOf[c] \in {v}}
<1>1. S \subseteq Codes /\ S \cap Sold = sold
  BY DEF Sold
<1>2. /\ GetMerchantSummary({v}).coupon = CouponCounts(S)
      /\ GetMerchantSummary({v}).endUser = ComputeEndUserStats(S)
  BY DEF GetMerchantSummary
<1>3. /\ GetVoucherStats({v}).soldButNotUsed = Cardinality(sold \ used)
      /\ GetVoucherStats({v}).total = Cardinality(S)
      /\ GetVoucherStats({v}).sold = Cardinality(sold)
  BY DEF GetVoucherStats
<1>4. GetEndUserStats({v}).purchasedButNotUsed = {k \in Customers : Usage(k, {v}).hasUnused}
  BY DEF GetEndUserStats
<1>5. \A k : Usage(k, {v}).hasUnused <=>
               {c \in Codes : VoucherOf[c] \in {v} /\ owner[c] = k} \ used # {}
  BY DEF Usage
<1>6. ComputeEndUserStats(S).unredeemed = {owner[c] : c \in (S \cap Sold) \ used}
  BY DEF ComputeEndUserStats
<1>7. {k \in Customers : Usage(k, {v}).hasUnused} = {owner[c] : c \in sold \ used}
  <2>1. ASSUME NEW k \in Customers, Usage(k, {v}).hasUnused
        PROVE  \E c \in sold \ used : k = owner[c]
    BY <1>5, <2>1 DEF Sold
  <2>2. ASSUME NEW c \in sold \ used
        PROVE  owner[c] \in Customers /\ Usage(owner[c], {v}).hasUnused
    BY <1>5 DEF Sold
  <2> QED
    BY <2>1, <2>2
<1>8. /\ CouponCounts(S).unredeemed = Cardinality(sold \ used)
      /\ CouponCounts(S).unsold = Cardinality(S \ sold)
  <2>1. S \ Sold = S \ sold
    BY <1>1
  <2> QED
    BY <1>1, <2>1, Counts
<1>9. IsFiniteSet(S) /\ sold \subseteq S
  BY <1>1, CodesFinite
<1> HIDE DEF S, sold
<1>10. /\ Cardinality(S) = Cardinality(S \ sold) + Cardinality(sold)
       /\ Cardinality(S \ sold) \in Nat /\ Cardinality(sold) \in Nat
  BY ONLY <1>9, TakeOut
<1>11. GetVoucherStats({v}).soldButNotUsed = GetMerchantSummary({v}).coupon.unredeemed
  BY ONLY <1>2, <1>3, <1>8
<1>12. GetEndUserStats({v}).purchasedButNotUsed = GetMerchantSummary({v}).endUser.unredeemed
  BY ONLY <1>1, <1>2, <1>4, <1>6, <1>7
<1>13. GetVoucherStats({v}).total - GetVoucherStats({v}).sold =
         GetMerchantSummary({v}).coupon.unsold
  BY ONLY <1>2, <1>3, <1>8, <1>10, SMT
<1> QED
  BY <1>11, <1>12, <1>13

\* All dashboards count the same coupons.
LEMMA DashboardsSame ==
  ASSUME DataInv
  PROVE  DashboardsAgree
<1>1. GetMerchantSummary(Vouchers).coupon = CouponCounts(Codes)
  <2>1. {c \in Codes : VoucherOf[c] \in Vouchers} = Codes
    BY StockOK
  <2> QED
    BY <2>1 DEF GetMerchantSummary
<1>2. Codes \cap Sold = Sold
  BY DEF Sold
<1>3. /\ CouponCounts(Codes).sold = Cardinality(Sold)
      /\ CouponCounts(Codes).unredeemed + CouponCounts(Codes).redeemed = CouponCounts(Codes).sold
  BY <1>2, Counts
<1>4. CouponCounts(Codes).sold = Tally([m \in Merchants |-> ComputeCouponCounts(m).sold])
  BY <1>3, SoldAddsUp
<1>5. CouponCounts(Codes).sold = Cardinality(UNION {delivered[o] : o \in Ops})
  BY <1>3, SoldDelivered
<1> QED
  BY <1>1, <1>3, <1>4, <1>5, UnsoldAddsUp, VoucherDashboards DEF DashboardsAgree

\* Customers who are said to have coupons have them on chain, and no others.
LEMMA UnredeemedOnChain ==
  ASSUME DataInv
  PROVE  OutstandingIsOnChain
<1> SUFFICES ASSUME NEW v \in Vouchers, NEW k \in Customers
    PROVE  /\ k \in GetMerchantSummary({v}).endUser.unredeemed => tokens[<<v, k>>] > 0
           /\ tokens[<<v, k>>] > 0 => \/ k \in GetMerchantSummary({v}).endUser.unredeemed
                                      \/ \E o \in settled : Pending(o) /\ receiver[o] = k
  BY DEF OutstandingIsOnChain
<1>1. k \in GetMerchantSummary({v}).endUser.unredeemed <=>
        \E c \in Codes : VoucherOf[c] = v /\ owner[c] = k /\ c \notin used
  <2>1. GetMerchantSummary({v}).endUser.unredeemed =
          {owner[c] : c \in ({c \in Codes : VoucherOf[c] \in {v}} \cap Sold) \ used}
    BY DEF GetMerchantSummary, ComputeEndUserStats
  <2> QED
    BY <2>1 DEF Sold
<1>2. /\ tokens[<<v, k>>] = Cardinality(Held(v, k)) /\ IsFiniteSet(Held(v, k))
      /\ Cardinality(Held(v, k)) \in Nat
  BY HeldFinite, CustomersLoseNone
<1>3. tokens[<<v, k>>] > 0 <=> Held(v, k) # {}
  <2>1. Cardinality(Held(v, k)) = 0 <=> Held(v, k) = {}
    BY <1>2, FS_EmptySet
  <2> QED
    BY ONLY <1>2, <2>1, SMT
<1>4. ASSUME NEW c \in Codes, VoucherOf[c] = v, owner[c] = k, c \notin used
      PROVE  c \in Held(v, k)
  BY <1>4, SoldCodes DEF Held, Off
<1>5. ASSUME NEW c \in Held(v, k)
      PROVE  \/ VoucherOf[c] = v /\ owner[c] = k /\ c \notin used
             \/ \E o \in settled : Pending(o) /\ receiver[o] = k
  <2>1. c \in Codes /\ VoucherOf[c] = v /\ c \notin used /\ Keeper(c) = k
    BY DEF Held, Off
  <2>2. Sent(c)
    BY <2>1, StockOK, Apart DEF Keeper
  <2>3. CASE Given(c)
    BY <2>1, <2>3, PendingCodes
  <2>4. CASE ~Given(c)
    <3>1. claim[c] \in settled /\ Pending(claim[c]) /\ receiver[claim[c]] = k
      BY <2>1, <2>2, <2>4, PendingCodes DEF Sent, Keeper
    <3> QED
      BY <3>1
  <2> QED
    BY <2>3, <2>4
<1>6. \A c \in Held(v, k) : c \in Codes
  BY DEF Held
<1> QED
  BY <1>1, <1>3, <1>4, <1>5, <1>6

\* What marketers and merchants are shown of their coupons fits the chain,
\* but for pending transfers and crossed listings, and their dashboards agree, for any number of
\* vouchers, merchants and customers.
THEOREM BooksStayTrue == Spec => []BooksAreTrue
<1>1. IInv => BooksAreTrue
  BY PartsOf, UpcomingOnChain, DashboardsSame, UnredeemedOnChain DEF BooksAreTrue
<1> QED
  BY <1>1, Invariant, PTL

-----------------------------------------------------------------------------
(* 7. Distribution implements VoucherDelivery.                             *)

\* Whom a code belongs to, all merchants being one.
Seen == [c \in Codes |-> IF owner[c] \in Merchants THEN Agent ELSE owner[c]]

\* In the beginning every code is a merchant's and nothing is delivered.
LEMMA StartsUndelivered == Init => Delivery!DInit
<1> SUFFICES ASSUME Init PROVE Delivery!DInit
  OBVIOUS
<1>1. owner = HolderOf /\ settled = {} /\ delivered = [o \in Ops |-> {}]
  BY DEF Init, PoolInit
<1> QED
  BY <1>1, StockOK DEF Delivery!DInit

\* A write of the ledger is a delivery of what the operation has claimed.
LEMMA WriteDelivers ==
  ASSUME DataInv, NEW o \in Ops, Write(o)
  PROVE  \E k \in Customers, S \in SUBSET Codes : Delivery!Deliver(o, k, S)
<1>1. /\ o \in settled /\ Claimed(o) # {} /\ delivered[o] = {}
      /\ owner' = [c \in Codes |-> IF c \in Claimed(o) THEN receiver[o] ELSE owner[c]]
      /\ delivered' = [delivered EXCEPT ![o] = Claimed(o)] /\ settled' = settled
  BY DEF Write, WriteLedger, OpenClaim
<1>2. PICK k, S : k = receiver[o] /\ S = Claimed(o)
  OBVIOUS
<1>3. k \in Customers /\ k \notin Merchants /\ S \subseteq Codes
  BY <1>1, <1>2, Apart DEF DataInv, OpInv, Claimed
<1>4. ASSUME NEW c \in S PROVE c \in Codes /\ owner[c] \in Merchants
  <2>1. c \in Codes /\ ~Given(c)
    BY <1>1, <1>2 DEF Claimed, Given
  <2> QED
    BY <2>1, MerchantCodes
<1>5. \A c \in S : Seen[c] = Agent
  BY <1>4 DEF Seen
<1>6. Seen' = [c \in Codes |-> IF c \in S THEN k ELSE Seen[c]]
  <2>1. ASSUME NEW c \in Codes PROVE Seen'[c] = IF c \in S THEN k ELSE Seen[c]
    BY <1>1, <1>2, <1>3 DEF Seen
  <2> QED
    BY <2>1 DEF Seen
<1>7. Delivery!Deliver(o, k, S)
  BY <1>1, <1>2, <1>5, <1>6 DEF Delivery!Deliver, Seen
<1> QED
  BY <1>3, <1>7

\* Every step settles one transfer, delivers one, or stutters.
LEMMA StepDelivers ==
  ASSUME DataInv, DataStep
  PROVE  [Delivery!DNext]_(Delivery!dvars)
<1>1. CASE UNCHANGED <<owner, settled, delivered>>
  BY <1>1 DEF Delivery!dvars
<1>2. CASE Elsewhere
  <2>1. UNCHANGED <<owner, settled, delivered>>
    BY <1>2 DEF Elsewhere, Stays, Activate, Redeem
  <2> QED
    BY <1>1, <2>1
<1>3. ASSUME NEW o \in Ops, NewClaim(o) \/ Free(o)
      PROVE  [Delivery!DNext]_(Delivery!dvars)
  <2>1. UNCHANGED <<owner, settled, delivered>>
    BY <1>3 DEF NewClaim, Claim, Free
  <2> QED
    BY <1>1, <2>1
<1>4. ASSUME NEW o \in Ops, Move(o)
      PROVE  Delivery!DNext
  <2>1. o \notin settled /\ settled' = settled \cup {o} /\ owner' = owner
        /\ delivered' = delivered
    BY <1>4 DEF Move, Moved
  <2>2. Delivery!Settle(o)
    BY <2>1 DEF Delivery!Settle
  <2> QED
    BY <2>2 DEF Delivery!DNext
<1>5. ASSUME NEW o \in Ops, Write(o)
      PROVE  Delivery!DNext
  BY <1>5, WriteDelivers DEF Delivery!DNext
<1> QED
  BY <1>2, <1>3, <1>4, <1>5 DEF DataStep, Writes

\* Whoever asks for transfers, and whatever else is done, codes pass to
\* customers the way a direct transfer promises: VoucherDelivery, all
\* merchants being one, is implemented for every set of codes and requests.
THEOREM DistributionDelivers == Spec => DeliverySpec
<1>1. IInv /\ [Next]_vars => [Delivery!DNext]_(Delivery!dvars)
  BY Step, StepDelivers, PartsOf
<1> QED
  BY <1>1, StartsUndelivered, Invariant, PTL DEF Spec, DeliverySpec, Delivery!DSpec
=============================================================================
