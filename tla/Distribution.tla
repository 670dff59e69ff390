---------------------------- MODULE Distribution ----------------------------
(***************************************************************************)
(* Batches of direct transfers, the marketplace and redemption around      *)
(* them, and customers, marketers and merchants who look at what they have.*)
(***************************************************************************)
EXTENDS BatchTransfer, CustomerWallet, MarketerBooks

vars == <<poolVars, pc, calm, faults, callVars, view>>

TypeOK == PoolTypeOK /\ CallTypeOK /\ ViewTypeOK
Init   == PoolInit /\ CallInit /\ ViewInit

Next ==
  \/ \E r \in Requests : CallStep(r) /\ UNCHANGED view
  \/ \E r \in Requests : ViewStep(r) /\ UNCHANGED callVars
  \/ \E o \in Ops : Recover(o) /\ UNCHANGED view
  \/ \E c \in Codes : (Activate(c) \/ Redeem(c)) /\ UNCHANGED <<callVars, view>>

Spec == Init /\ [][Next]_vars

(***************************************************************************)
(* Properties.                                                             *)
(***************************************************************************)
Pending(o) == o \in settled /\ delivered[o] = {}

\* The coupons of a wallet are its codes that are neither listed nor used, but
\* for the transfers that moved on chain and are not yet in the ledger, and
\* but for the codes an activation listed while a transfer had claimed them
\* and whose transfer moved all the same: each of those leaves the merchant
\* one coupon short.  Whatever raises, whoever stops, nothing else is amiss
\* (executeDirectVoucherTransfer, fetchOwnedCodesToActivate).
TokensFollowCodes ==
  \A v \in Vouchers, h \in Holders :
    LET held == {c \in Codes : /\ VoucherOf[c] = v /\ owner[c] = h
                               /\ c \notin shelved \cup used}
        away == {c \in held : claim[c] # None /\ Pending(claim[c])}
        due  == {c \in Codes : /\ VoucherOf[c] = v /\ claim[c] # None
                               /\ Pending(claim[c]) /\ receiver[claim[c]] = h}
        gone == {c \in crossed : /\ VoucherOf[c] = v /\ HolderOf[c] = h
                                 /\ claim[c] \in settled}
    IN tokens[<<v, h>>] + Cardinality(gone) = Cardinality(held \ away) + Cardinality(due)

Reported(o) == results[o[1]][o[2]]
Answered    == {o \in Ops : file[o[1]] # None /\ o[2] <= Len(results[o[1]])}
CsvRows     == {o \in Answered : file[o[1]].f.kind = "csv"}

\* What a row of a CSV file is said to be, it is: a success handed over as
\* many codes of the voucher as asked for, to the customer; a desynced row
\* moved on chain; and a row that failed without an operation left nothing
\* behind, neither on chain nor among the codes.
ReportIsTrue ==
  \A o \in CsvRows :
    LET row == Rows(o[1])[o[2]] IN
    /\ Reported(o) = "SUCCESS" =>
         /\ receiver[o] = row.to
         /\ Cardinality(delivered[o]) = row.quantity
         /\ \A c \in delivered[o] : VoucherOf[c] = row.voucher
    /\ Reported(o) = "DESYNCED" => o \in settled
    /\ Reported(o) = "FAILED" => o \notin settled /\ Claimed(o) = {}

\* The codes an ended CSV request has left claimed are the ones the answer
\* names the operation of: nothing stays behind that nobody was told about.
ClaimsAreReported ==
  \A o \in CsvRows : OpenClaim(o) /\ pc[o[1]] = "over" =>
    Reported(o) \in {"DESYNCED", "REVIEW"}

\* A file the preview was content with goes through, row by row, if nobody
\* else is active and no call raises: the preview adds up the rows the way
\* the transfers will need them.  It counts codes and not coupons, so it fails
\* a merchant who has listed codes that a transfer had claimed.
PreviewIsKept ==
  \A r \in calm :
    (/\ file[r] # None /\ file[r].f.kind = "csv" /\ file[r].ready = DOMAIN Rows(r)
     /\ \A c \in crossed : HolderOf[c] # seller[r])
    => \A i \in DOMAIN results[r] : results[r][i] = "SUCCESS"

\* What the dry run of the rewards does not find ready is not given away,
\* whoever else is active: no stock comes back to a merchant.  The converse is
\* not so: the dry run counts codes that are listed or claimed, and one code
\* for every row.
DryRunMissesNothing ==
  \A r \in Requests : file[r] # None /\ file[r].f.kind = "rewards" =>
    \A i \in DOMAIN results[r] : results[r][i] = "SUCCESS" => i \in file[r].ready

\* The log says of a file what happened: nothing of a failed one was handed
\* over by the request, and all of a successful one was.
LogIsTrue ==
  \A r \in Requests :
    /\ log[r] = "SUCCESS" => \A i \in DOMAIN Rows(r) : delivered[<<r, i>>] # {}
    /\ log[r] = "FAILED"  =>
         \A i \in DOMAIN Rows(r) :
           delivered[<<r, i>>] # {} => results[r][i] \in {"REVIEW", "DESYNCED"}

\* A customer who looks while nothing else happens is shown every coupon
\* asked for, even when a transfer to the customer waits for its ledger: then
\* there are more coupons than codes.
CalmWalletIsWhole ==
  \A r \in calm : view[r] # None /\ pc[r] = "over" =>
    view[r].shown = Filtered(r, {c \in Codes : owner[c] = view[r].by})

\* In any interleaving the customer is shown no code beyond the ones that
\* were owned when the codes were read, and a used code asked for stays shown.
ShownWasOwned ==
  \A r \in Requests : view[r] # None /\ pc[r] = "over" =>
    /\ Filtered(r, view[r].used) \subseteq view[r].shown
    /\ \A c \in view[r].shown : owner[c] = view[r].by

\* The newest code of a group of unused ones, which the customer is offered,
\* can be redeemed when nothing else has happened: it is the customer's, it
\* is unused and there is a coupon to burn, even while transfers are pending.
OfferedIsRedeemable ==
  \A r \in calm : view[r] # None /\ pc[r] = "over" =>
    \A g \in GroupVouchersByGroupId(r, view[r].shown) : ~g.used =>
      /\ owner[g.latest] = view[r].by /\ g.latest \notin used
      /\ tokens[<<VoucherOf[g.latest], view[r].by>>] >= Cardinality(g.codes)

\* What the inventory calls upcoming is what the marketer has on chain, but
\* for transfers that moved and whose ledger is not written, and but for codes
\* that are listed and were delivered: so as soon as there are coupons on
\* chain, the inventory has codes for them, and nobody stops offering what is
\* there (getMarketerInventory).
InventoryIsOnChain ==
  \A v \in Vouchers, m \in Merchants :
    /\ CountUpcomingCodes(v, m) = GetMarketerInventory(m, v, "upcoming").availableCount
    /\ CountUpcomingCodes(v, m) - tokens[<<v, m>>] =
         Tally([o \in {p \in settled : Pending(p) /\ \E c \in Claimed(p) :
                                       VoucherOf[c] = v /\ owner[c] = m}
                |-> Cardinality(Claimed(o))])
         + Cardinality({c \in crossed : /\ VoucherOf[c] = v /\ HolderOf[c] = m
                                        /\ owner[c] \in Customers})

\* The marketers' dashboards and the merchant's have the same sold coupons,
\* and they are the ones transfers have delivered; inventory and dashboard of
\* a marketer agree on what is left, and the merchant's two dashboards on who
\* has unused coupons.  Codes are counted by their owners, by their THB_BUY
\* rows and by the sender of their transfer.
DashboardsAgree ==
  LET all == GetMerchantSummary(Vouchers).coupon IN
  /\ all.sold = Tally([m \in Merchants |-> ComputeCouponCounts(m).sold])
  /\ all.sold = Cardinality(UNION {delivered[o] : o \in Ops})
  /\ all.unredeemed + all.redeemed = all.sold
  /\ \A m \in Merchants :
       ComputeCouponCounts(m).unsold =
         Tally([v \in Vouchers |-> GetMarketerInventory(m, v, "upcoming").availableCount
                                  + GetMarketerInventory(m, v, "active").availableCount])
  /\ \A v \in Vouchers :
       LET stats == GetVoucherStats({v})  summary == GetMerchantSummary({v}) IN
       /\ stats.soldButNotUsed = summary.coupon.unredeemed
       /\ GetEndUserStats({v}).purchasedButNotUsed = summary.endUser.unredeemed
       /\ stats.total - stats.sold = summary.coupon.unsold

\* The customers a dashboard says still have coupons have them on chain, and
\* nobody else has any unless a transfer waits for its ledger: what a merchant
\* is told is outstanding can be redeemed.
OutstandingIsOnChain ==
  \A v \in Vouchers, k \in Customers :
    LET users == GetMerchantSummary({v}).endUser IN
    /\ k \in users.unredeemed => tokens[<<v, k>>] > 0
    /\ tokens[<<v, k>>] > 0 => \/ k \in users.unredeemed
                           \/ \E o \in settled : Pending(o) /\ receiver[o] = k

\* What those who asked for transfers were told, and what was written of it.
AnswersAreTrue == ReportIsTrue /\ ClaimsAreReported /\ LogIsTrue

\* What was foretold of a file.
ForecastsHold == TypeOK /\ PreviewIsKept /\ DryRunMissesNothing

\* What customers see of their coupons.
WalletViewIsTrue == CalmWalletIsWhole /\ ShownWasOwned /\ OfferedIsRedeemable

\* What marketers and merchants see of theirs.
BooksAreTrue == InventoryIsOnChain /\ DashboardsAgree /\ OutstandingIsOnChain

\* Whoever asks for transfers, and whatever is done beside them, codes pass
\* to customers the way a direct transfer promises.
Agent == CHOOSE m \in Merchants : TRUE
Delivery == INSTANCE VoucherDelivery WITH
  Merchant <- Agent,
  owner <- [c \in Codes |-> IF owner[c] \in Merchants THEN Agent ELSE owner[c]]
DeliverySpec == Delivery!DSpec
=============================================================================
