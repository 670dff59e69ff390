# Formal models of the voucher back office

The repository is a NestJS back office (`src/src`) for loyalty points and
vouchers. PostgreSQL (Prisma, isolation level READ COMMITTED) holds who owns
which voucher code; ERC-1155 and ERC-20 contracts hold the matching tokens; a
partner (AIS) holds loyalty points. Almost every operation has to move two or
three of these stores together without a common transaction. This directory
models those operations in TLA+, checks them with TLC and proves the central
results with TLAPS.

Paths below are relative to the repository root. `util` stands for
`src/modules/internal/voucher/utils/direct-voucher-transfer.util.ts`,
`recovery` for
`src/modules/internal/voucher/handlers/recoverDirectTransferOperations.handler.ts`.

## 1. Inventory

| Component | State it keeps | Operations | Modules |
|---|---|---|---|
| Direct transfer (`util`) and recovery (`recovery`) | `VoucherCode` owner and claim, `DirectTransferOperation`, `Transaction` | prepare, submit, wait, write ledger, release, inspect, finalise | `DirectTransfer`, `VoucherDelivery` |
| Callers of transfers (single, JSON, CSV, rewards) | answers, `BatchTransferLog` | preview, dry run, loops of direct transfers | `WalletPool`, `BatchTransfer`, `Distribution` |
| Redemption and AIS saga | `VoucherCode.isUsed`, REDEEM rows, partner's points, token cache | redeem, redeem for AIS points with compensation | `VoucherRedemption`, `RedemptionSaga` |
| Marketplace: seller's side | `ListingBatch`, new codes, THB, THB_MINT and THB_BUY rows, whitelist | create voucher, list, list a batch, buy from a seller, mint THB | `SellerMarket` |
| Marketplace: merchant's side | `voucherGroupId`, `pointId`, owner, listings on chain | activate, buy for points, withdraw, expire, delete | `VoucherMarketplace`, `VoucherActivation` |
| What is shown of the marketplace | `listingsCache` of a server | lists, one listing, on-chain audit | `MarketplaceView` |
| Points | `Point`, `CustomerPoint`, contracts | give, spend, create, delete, move, reset | `PointTransfer` |
| Users, merchants, wallets | `User.nextDerivationIndex`, `Wallet`, `Merchant`, `ApiKey`, whitelist | register, create and delete a merchant | `MerchantAccounts` |
| Customers, links and OTPs | `Customer`, `CustomerMerChant`, `TempLinkCreateUser` | create, extend and delete links, send and verify OTPs, create, associate and clear customers | `CustomerOnboarding` |
| Dashboards and lists | none | read several stores, in one query or one after the other | `SellerDashboard`, `MarketerBooks`, `CustomerWallet`, parts of `PointTransfer` and `VoucherActivation` |
| Sessions, API keys, HTTP surface, exports, seeds | session and key rows | single statements on one row | the registration and the key of a merchant in `MerchantAccounts`; the rest is not modelled, section 12 |

How they interact. A seller mints coupons and lists them (`SellerMarket`);
merchants buy some and offer them for points (`VoucherMarketplace`,
`VoucherActivation`, `PointTransfer`) or hand them out (`BatchTransfer` over
`DirectTransfer`); customers, who came by `CustomerOnboarding`, redeem them
(`VoucherRedemption`). All of them share the rows of `VoucherCode` and the
coupons in the wallets, without a common lock.

What makes these hard:

- *Transfers and recovery*: requests compete for codes (`FOR UPDATE SKIP
  LOCKED`); a process may stop between any two awaits; a call may commit and
  its answer be lost; administrators repair operations whose requests may still
  be alive; recovery decides on reads that share no snapshot. Correct means: no
  code to two customers, no ledger without a successful transfer, whole
  transfers only, every confirmed transfer delivered in the end; and what the
  sender of a file is told is what happened.
- *Marketplace*: listing and buying read, call the chain and then write
  unconditionally; the contract keeps the coupons in escrow while the codes are
  in the database. Correct means: a code is sold once and never without a
  coupon, balances and THB follow the chain, batches add up, what expires is
  withdrawn, and lists, dashboards and audits show what is there.
- *Redemption*: AIS points, burned token and used code must agree after every
  failure; the same code may be sent twice at the same moment.
- *Points*: the balance is written as an absolute value that was read before a
  transfer that takes seconds.
- *Accounts*: indices, phones, links and associations are read first and
  written later, most of them without a unique index.

`PROJECT.json` lists every component with its status and the hazards at their
lines.

## 2. Plan

| Step | State |
|---|---|
| 1. `DirectTransfer` with recovery, `VoucherDelivery` as abstract specification, proofs | done, sections 3 and 10 |
| 2. `VoucherRedemption`, proofs | done, sections 4 and 10 |
| 3. `VoucherMarketplace`, proofs | done, sections 5 and 10 |
| 4. `SellerMarket` and its dashboards, the stage before 3; its end states are the initial states of 3 | done, section 6 |
| 5. `BatchTransfer`, what customers and marketers see, refinement of `VoucherDelivery` | done, section 7 |
| 6. `PointTransfer`, `VoucherActivation` | done, section 8 |
| 7. `MarketplaceView` with cache and audit | done, section 6 |
| 8. `MerchantAccounts`, `CustomerOnboarding`, proofs | done, sections 9 and 10 |
| 9. Proofs for `SellerMarket` and its dashboards, whose tallies are like those of 3 | done, section 10 |
| 10. Proofs for `PointTransfer`, `VoucherActivation`, and the polite half of `CustomerOnboarding` | done, section 10 |
| 11. Proofs for `Distribution` | done, section 10 |
| 12. Proofs for `MarketplaceView` | done, section 10 |
| 13. `RedemptionSaga`, the abstract specification of 2, and its refinement | done, sections 4 and 10 |

An abstract shop, which hands each buyer a code of his own, is not stated for 3:
of two customers who found the same code both pay and the later write takes it
(section 11), so it is not what the code implements.

A theorem waits until TLC has agreed on the invariant it needs. There is one
run per question; the twelve runs check forty properties (thirty-eight that hold, and two of
the code's own claims that do not). Some of these are
conjunctions of named parts that belong together (`BooksBalance`,
`AnswersAreTrue`), so that a run names an idea and the module its parts.
`polite` and `calm`, which several modules have, are not state of the program:

- `polite` is chosen in `Init` and never changes. In the behaviours where it
  holds, clients wait for each other; elsewhere they do what they like. The
  code enforces none of this, so a property that needs it says so, and one
  that does not need it is checked in both.
- `calm` marks requests in whose time nobody else did anything. It is used for
  what is shown: a list that is read from three sources is only exact then.
- `sender` (`CustomerOnboarding`) and `work` (`VoucherActivation`) are chosen in
  `Init`, too: they split one instance into workloads that would be too large
  together.

## 3. DirectTransfer

### Correspondence with the code

One merchant and one voucher; every predicate on them is constant. A Prisma
`$transaction` and a single statement are one step (row locks serialise
writers of a row, a commit is atomic), everything separated by an `await` is a
separate step.

| Variable | Code |
|---|---|
| `owner`, `listed`, `claim` | `VoucherCode.currentOwnerId`, `voucherGroupId` is set, `directTransferOperationId` |
| `status`, `hash`, `reserved`, `receiver` | columns of `DirectTransferOperation`; `hash` only says whether `txHash` is set, because a request signs one transaction |
| `aged` | the 15-minute thresholds on `createdAt` and `submittedAt` |
| `rows` | number of `Transaction` rows with this `transactionRefId`, per code |
| `chain` | fate of the transaction the request signed: none, pending, success, reverted, dropped |
| `pc` | where `executeDirectVoucherTransfer` stands, including which branch its catch block will take |
| `worker` | one selected operation in a dry run, execute run or release, with the row it read and what it concluded |
| `faults` | failed calls so far, bounded by `MaxFaults` |
| `hasty`, `shared` | history, read by no guard but its bound: operations whose codes an administrator gave back while the request was alive or after it had sent something; operations a worker took up while the request or another worker was at them |

| Action | Code |
|---|---|
| `Prepare`, `PrepareInsufficient` | `prepareDirectTransferOperation`; any part of the pool may be hidden by `SKIP LOCKED` |
| `Submit`, `SubmitError` | `submitCouponTransfer`; the node may have taken a transaction whose call failed |
| `Mark` | `markDirectTransferOperationSubmitted`, an update by id |
| `Wait` | `waitForCouponTransferReceipt`; a revert comes with its code or as a plain error, and a replaced transaction makes `tx.wait()` throw |
| `Ledger` | `writeDirectVoucherTransferLedger`; the count of updated codes must match |
| `Catch` | the catch block; its own status write may fail and is then swallowed |
| `Crash` | the process stops |
| `Mine`, `Replace`, `Age` | the chain and the clock; a transfer may be replaced because each call takes its nonce from the node |
| `Select`, `Inspect`, `ReadRows`, `ReadCodes`, `Conclude`, `Act`, `Abandon` | `dryRun` and `executeManual` for one operation |
| `CheckRelease`, `CommitRelease` | `releasePrepared`, its checks and its guarded transaction |
| `Activate` | a marketplace listing made by an activation, which finds codes without looking at `directTransferOperationId` |

`Raise(write)` is a call that throws: rolled back, or committed with its
answer lost.

The code leaves it to administrators what they release and recover: the
free-text `evidence` of a release is stored and not looked at, and nothing keeps
a run off an operation somebody else is at. The model does the same, and the
history variables record when it happened, so that a property can say what it
takes to break a promise.

### What is checked

| Run | Instance | Distinct states | Shows |
|---|---|---|---|
| `dt_safety` | 2 codes, 2 operations, 1 worker, 1 fault, any release, any recovery | 2 355 000 | `IInv`, `LedgerBacked`, `ConfirmedIsDelivered`, `SentCodesHeld`, `NoDuplicateRows`, refinement of `VoucherDelivery` |
| `dt_live` | 1 code, 2 operations, 1 worker, 1 fault, 1 listing, `FairSpec` | 364 000 | `ConfirmedEventuallyDelivered` |
| `dt_listed` | smallest that suffices | | violation, see section 11 |

`IInv` is the inductive invariant of the proofs. What follows from it
(`OneReceiverPerCode`, `WholeDelivery`, `DeliveredIsFinal`, `TypeOK`) is proved
and has no run. `SentCodesHeld` and `NoDuplicateRows` do fail for operations in
`hasty` and in `shared`: that is what these endpoints allow. Both say that
nothing else does it, no crash, no lost answer, no retry and no sequence of
runs that follow each other.

Bounds. Two codes are needed for a partial transfer, two operations for a
conflict over a code and for a released code that is reserved again; one worker
and the request are two actors at one operation (the proofs have any number of
workers). `MaxCareless` bounds the operations in `hasty` and in `shared`, not
what happens to them; with `MaxListed` 0 `dt_safety` leaves listings to
`dt_live`, `dt_listed` and the proofs. One fault per behaviour reaches every
error branch and combines it with any number of crashes, which are not
counted. Three of a kind add no new conflict because every statement names one
operation and its own codes. Symmetry is used for codes, operations, customers
and workers, which the model never orders, and not in `dt_live`, which checks
liveness.
Deadlock is not checked: when all requests have ended and everything is
settled the model stops, as the program does.

Fairness (`dt_live`). A request that is running continues or fails (weak
fairness of its step: the server does not suspend a promise for ever). A sent
transaction is mined unless replaced, and time passes. A worker that started
finishes. Operations on the list of `listNeedsAction` are executed again and
again: strong fairness of `Select`, because an operation may leave and enter
the list and because a worker is busy with another operation at times.
This is the daily procedure of `docs/dev-plan-phase1-2.md`, not something the
code guarantees; without it nothing in the program ever retries. A worker that
interferes with a running request may finish it in many ways, so the property
leaves out operations in `hasty` and `shared`.

## 4. VoucherRedemption

### Correspondence with the code

`redeemVoucher.handler.ts` (below `redeem`), `ais-transfer.service.ts`,
`admd.service.ts` and `redeemVoucher` of `blockchain.service.ts`. One AIS point
voucher, because only that kind goes through the partner; the plain endpoint
accepts it too, so requests of both kinds meet on one code.

| Variable | Code |
|---|---|
| `owner`, `usedBy` | `VoucherCode.currentOwnerId` (`Market`: still for sale), `isUsed` with `usedBy` |
| `rows` | the requests whose REDEEM `Transaction` row exists |
| `tokens`, `burn` | coupon balance of a customer's wallet; fate of the `redeem` transaction a request sent |
| `points` | the requests whose transfer-in stands at the partner |
| `cache`, `holds` | `AdmdService.cachedToken` of the process; the token a call has taken from it |
| `req`, `pc` | the arguments of a request and where it stands |

| Action | Code |
|---|---|
| `Arrive` | `prepareRedeemContext`: the single read of the code, and its assertions |
| `CheckBalance` | `verifyOnChainBalance`, for AIS before the transfer-in |
| `Authorize`, `Unauthorized` | `getAccessToken`; the 401 branch, which clears the cache and calls itself again |
| `TransferIn`, `TransferReverse` | the answered calls: done, refused by an answer, or an exception with or without effect |
| `Unresolved`, `SendBurn`, `AwaitBurn`, `Record` | `executeRedeemCore` up to its `$transaction` of two statements |
| `Fail` | the `catch` of `executeAIS`, or the plain error |
| `Mine`, `Replace`, `Revoke`, `Sell` | chain, partner and a purchase, as far as redemption sees them |

The plain endpoint resolves the merchant before it looks at the balance; both
end in the same refusal before anything is sent, so one order is modelled.
Codes that are not activated are refused on arrival and left out. The partner
is external: a transfer-in is credited, refused, or its answer is lost, and
a reversal takes back points of its own request or none. Whether the partner
finds what to reverse by a fresh transaction id can not be learned from this
repository, so both outcomes are possible.

`RedemptionSaga` is what all this promises to whoever sees only the coupons,
the code, the points and the answer. A request is asked, goes on once its points
stand, burns one coupon, uses the code, and is confirmed or not; a request that
ended `unsent` never burns, one that `failed` may still burn and may have used
its code. A code that was used is used again only by a request that met the one
that used it, and nobody meets a confirmed redemption. `Saga` in
`VoucherRedemption` maps the detailed state to it: `FateOf`
is read from where the request stands and from whether a burn was sent. The
partner's tokens, the retries and the nonces are not in the saga, so their steps
stutter; refusals, errors and crashes are one action, `GiveUp`. What the saga
does not promise is as telling: points of a request that gave up may stand for
ever, because a crashed request is not compensated and an unanswered credit is
never reversed.

### What is checked

| Run | Instance | Distinct states | Shows |
|---|---|---|---|
| `vr_redeem` | 2 codes, 2 requests, 2 customers, 1 fault, 1 revocation, `FairSpec` | 1 288 000 | `StoresAgree`, `TwiceOnlyTogether`, `RequestsEnd`, refinement of `RedemptionSaga` |
| `vr_reverse` | smallest that suffices | | violation, see section 11 |

Two requests are enough for a race over one code, over one coupon and over the
cached token; two codes let a customer hold a coupon that does not belong to
the code he presents. One revocation makes both requests hold a refused token,
so that one clears what the other has just fetched. With one fault a request
fails, may leave its effect behind and is tried again.

The code compares nothing when it marks a code used, so two requests that are
under way together may both redeem it (section 11). `TwiceOnlyTogether` says
that this is the only way: `met` is a history variable, written on arrival and
read by no guard, that holds the requests for the same code a request found
under way, and two rows of one code belong to requests that met. A customer
who tries again after an answer, a failure or a crash never uses a used code.

Fairness: a running request continues, and a sent burn is mined
or replaced. Nothing is assumed of the partner but that it revokes finitely
often (`MaxRevocations`): the retry of the code has no limit, so against a
partner that refuses every token a request would go on for ever.

## 5. VoucherMarketplace

### Correspondence with the code

`activateVoucher.handler.ts`, `buyCouponFromMarketplace.handler.ts`,
`delistMarketplaceListing.handler.ts`, `delistExpiredVouchers.handler.ts` and
the marketplace calls of `blockchain.service.ts`. It starts where merchants
have bought codes from a seller: each code has an owner and a coupon in its
wallet, no `pointId` and no listing.

| Variable | Code |
|---|---|
| `owner`, `group`, `priced`, `claimed` | `VoucherCode.currentOwnerId`, `voucherGroupId`, `pointId` is set, `directTransferOperationId` is set |
| `batch` | `ListingBatch`: `totalItems`, `soldItems`, status `SOLD_OUT` |
| `listing` | the listing on chain: seller, coupons left in escrow, active |
| `tokens`, `points`, `balance` | coupon balances and point balances on chain; `CustomerPoint.balances` |
| `req`, `pc` | arguments of a request, the codes it has read, and where it stands |
| `phase`, `sweep` | `Voucher.endDate` and status; what the cron has read and still has to do |

| Action | Code |
|---|---|
| `FindCode`, `CheckBalance` | `findAvailableVoucherCode` with its checks; `validateCustomerBalance`, wallet and whitelist |
| `Pay` | `executePurchaseOnChain`: sold, refused by the contract, failed, or sold with the answer lost |
| `Record` | `transferOwnership`, one `$transaction`, updates by id |
| `Count`, `Close` | the three statements of `updateListingBatchStats` (the last two change state together) |
| `Activate`, `FetchStock`, `ListOnChain`, `Persist` | the count before the transaction, `fetchOwnedCodesToActivate`, `listCoupon`, and the writes that become visible at the commit |
| `Delist`, `DelistOnChain`, `ClearGroup` | `delistMarketplaceListing` |
| `StartSweep`, `SweepOnChain`, `SweepClear`, `Mark` | the cron: its read and grouping, one listing at a time, and the final mark or a stop on the way |
| `End` | the voucher's `endDate` passes |
| `Reserve`, `Deliver`, `Release` | a direct transfer as far as the marketplace sees it |

A listing is named after the request that makes it, because an activation
makes exactly one. Purchases that are refused before a code is found change
nothing and are left out. A sale moves coupon and points in one transaction of
the contract, so points on chain are never negative; the contracts are not in
the repository and are modelled from the calls and their error handling.

`SerialSellers` says that a merchant waits for an answer, of a direct transfer
too, before starting the next request. The code does not enforce it: neither
activation nor the pool of direct transfers locks against the other, so
without it a code can be reserved and listed at once, and two activations can
list the same codes. Customers are never restricted.

### What is checked

| Run | Instance | Distinct states | Shows |
|---|---|---|---|
| `mp_safety` | 2 codes, 1 merchant, 2 customers with 1 point each, 3 requests, 1 fault, merchants unrestricted | 280 000 | `BalanceFollowsChain`, `SoldWithinTotal` |
| `mp_polite` | as before with 4 requests and `SerialSellers` | 101 000 | `EscrowHasCodes` |

Bounds. Three requests are an activation and two purchases, or two activations
and a purchase, or activation, purchase and withdrawal: two requests that meet
over one object that a third has made. The fourth in `mp_polite` adds a
withdrawal, or a second listing, to two purchases that overlap. Two codes are
needed for a listing that is partly sold, two customers for a race between
them; one point each makes the second purchase of a customer the one he cannot
pay. One fault leaves each effect without its answer. A process that stops
leaves its requests where they stand, a place no step is ever forced to leave,
and its sweep to the next run. Merchants meet only by selling different codes,
so one is enough for TLC; the theorems hold for any number. Deadlock is not
checked: requests are used up and the model stops. No
liveness is stated: every call of these handlers is answered or fails, and
nothing is retried by the program.

## 6. SellerMarket, SellerDashboard, MarketplaceView

### SellerMarket: the seller's side

The stage before section 5. It starts with nothing and ends where
`VoucherMarketplace` begins (`HandsOver`): merchants who own codes and have a
coupon for each.

| Action | Code |
|---|---|
| `CreateType`, `PersistVoucher` | `createVoucherWithCodes`: the coupon type on chain, then one `$transaction` |
| `List`, `ListBatch` with `Admit`, `CreateBatch`, `Mint`, `ListOnChain`, `CreateCodes`, `SyncCurrency` | `sellerListOnMarketplace` and `batchListOnMarketplace`; the single listing is a batch of one item without the row |
| `Buy`, `CheckTHB`, `MintTHB`, `RecordMint`, `Approve`, `Pay` | `merchantBuyCouponFromSeller` up to the purchase: the balance, the automatic mint and its row, the allowance, the contract |
| `FindCodes`, `BuyRow`, `Own`, `Count`, `Close` | what it writes after the purchase, statement by statement, without a transaction |
| `MintTHBToMerchant`, `Whitelist`, `WhitelistBatch` | the operator's endpoints |

A request that failed after its payment keeps a place of its own
(`unrecorded`, `uncounted`, `unclosed`), because what it left behind is what the
properties are about. Whitelisting a wallet beforehand only saves `Admit` its
call. Mints by an operator share the bound of the faults.

Every coupon has one price, `Price`, in the token's smallest units, of which a
THB has `Unit`. Wallets, allowances and costs count units; the rows are whole
THB. A mint and the total of a purchase are cut (`WholeTHB`), and what each code
of a purchase is recorded with is that total divided and rounded
(`PricePerUnitTHB`). With `Unit` 2 and `Price` 3, as in the run, two coupons cost
three THB: their mint row is 3 and their two rows are 2 each; of one coupon the
mint row is 1 and so is the other. The halves reach every case of the rounding; the
theorems hold for every `Unit` and `Price`.

`SellerDashboard` has what is computed from these tables: the seller's
dashboard, which reads codes and rows in two queries, the marketer's dashboard,
the statistics of THB and the drop-down lists.

### MarketplaceView: what is shown of the marketplace

| Action | Code |
|---|---|
| `GetMarketplaceListings`, `...EndUser`, `ByMerchantRef`, then `FetchIds`, `FetchStructs`, `Store`, `Details`, `Counts`, `EndLook` | the three lists over `getActiveListings` and its cache; a fill is two calls to the node |
| `StartOne`, `ReadOne` | `getVoucherByListingId` |
| `StartAudit`, `AuditCodes`, `AuditWallets`, `AuditMarket` | the report of `checkAndSyncVoucherOnchain` |
| `Offer`, `Trade`, `Buy`, `DelistCoupon`, `Redeem`, followed by `Receipt` and `RecordChange` | requests that change the marketplace, on this server or another; the receipt invalidates the cache of its own server |
| `Tick` | the clock |

Codes are counted, not named, and vouchers do not expire here: sections 4 and 5
have both. One activation lists codes at a time (two are a subject of section 5).
What a request writes is settled when it writes (`RecordChange`): a code of its own
(`WriteOwn`); one that another request has moved since it was found, because the
writes go by id and two requests may find the same code (`WriteShared`, remembered
in `shared`); or none, if a merchant has paid and there is no code left
(`FindsNone`, remembered in `lost` like every record that failed). One server's
cache is watched. The contract's list is some sequence of the open listings
(`SetToSeqs`), so nothing is assumed of its order. The names differ
from those of `VoucherMarketplace`, because one module proves about both.

### What is checked

| Run | Instance | Distinct states | Shows |
|---|---|---|---|
| `sm_market` | 1 voucher of 2 coupons at one and a half THB, 2 merchants, 3 requests, batches of up to 2 items, 2 coupons in the items of all requests, 1 fault | 275 000 | `NoCodeWithoutCoupon`, `BooksBalance`, `PoliteTrade`, `DashboardsAreTrue` |
| `mv_views` | one THB listing and one for points of 1 or 2 coupons, 1 customer, 1 changing and 1 looking request at a time, life of the cache 1 tick, 1 fault | 3.6 million | `CacheCurrent`, `FreshEnough`, `CalmAnswerExact`, `AuditIsExact` |

Three requests are a listing and two purchases that overlap, or two listings
and a purchase. Two items make a batch that fails half-way, and two merchants
race for its codes. In `sm_market` a request is used once; in `mv_views`
writers and readers start again, so that any number of changes and looks follow
each other while the listings last; one reader is enough, because readers meet
only in the cache, which the next look finds as the last one left it.

`NoCodeWithoutCoupon`, `MintedIsAccounted`, `SoldWithinTotal` and
`SoldOutWhenFull` hold for merchants who overlap in any way. `MintedIsAccounted`
and the dashboards' `ShownBalance` and `BooksAgree` give THB to less than one for each
row, and exactly where prices have no fractions (`Unit` 1). `SoldWithinTotal` says
that a batch is not oversold; a batch whose later item failed has a total it
never reaches, and nothing in the code closes it. `PoliteTrade` is
what they can rely on when purchases wait for each other and for the seller's
codes: without that, a merchant may pay and find no codes.

`CalmAnswerExact` and `AuditIsExact` take purchases without a code and codes bought
twice in their stride: a list may then show more than can be bought (sold-out codes
without a buyer stay behind), never less, and the audit reports every such purchase
or redemption of a customer. `FreshEnough` is about fills that nothing disturbed;
one whose two calls had a change between or beside them (`torn`) is stored with the
time of now after the invalidation, so that what it shows may have been closed
longer (the hazard at `blockchain.service.ts:1346`).

`AuditFalseAlarms` says when two of the four checks of the audit report a
difference although nothing was lost: as soon as a code was sold, because it
keeps its `voucherGroupId`, and while coupons are on offer for THB.

Deadlock is not checked in `sm_market`: requests are used up. In
`mv_views` it is, because one can always look.

## 7. Distribution: WalletPool, BatchTransfer, CustomerWallet, MarketerBooks

`WalletPool` has the codes and coupons as those who hand them out see them.
`BatchTransfer` has the callers of direct transfers; each row of a file is one
transfer, an operation of `VoucherDelivery`. `CustomerWallet` has what a
customer is shown, `MarketerBooks` the inventories and dashboards, and
`Distribution` composes them with activation and redemption, each in one step
because sections 4 and 5 have their steps.

| Action | Code |
|---|---|
| `Start` | a file with its preview or dry run (`PreviewBatchTransferCsv`, `DryRunRewardsCsv`), then the checks of the execution on the whole file |
| `BeginRow`, `FindReward`, `Prepare`, `Transfer`, `Ledger`, `Finish` | one row of `ExecuteBatchTransferCsv`, `BatchTransferVoucherToCustomer`, `TransferVoucherToCustomer` or `ExecuteRewardsCsv` |
| `WriteLog`, `Stop` | the `BatchTransferLog` row of a CSV file; the server stops |
| `FetchCodes`, `FetchBalances` | `GetCustomerOwnedVouchers`: codes first, coupons on chain afterwards |
| `Recover` | section 3's recovery, for an operation whose coupons have moved |
| `Activate`, `Redeem` | one step each of sections 5 and 4; an activation takes codes without looking at claims |

`bt_batch`: one voucher, two merchants with two codes and one, two customers,
two requests, files of up to three rows against a limit of two, two steps of
the rest of the system, one fault; 1 209 000 distinct states. The files
(`MCFiles`) are of every kind:
rows that fit together and rows that do not, an unknown customer, a voucher
without a token, quantities of zero and below, and a file that is too long.
Three codes are needed for a file whose rows compete; the second request
competes with it or looks on.

- `TokensFollowCodes`: in any interleaving, a wallet has the coupons of its
  codes but for transfers that wait for their ledger and for codes that were
  listed although a transfer had claimed them: such a code costs its merchant
  one coupon, and nobody else anything. `crossed`, a history variable that no
  guard reads, has these codes.
- `AnswersAreTrue`: each row of a CSV answer says what happened; codes left
  claimed are of operations the answer names; the log of a CSV file is true.
- `ForecastsHold`: a file the preview was content with goes through when nobody
  else is active and its merchant has listed no claimed code, because the
  preview counts codes and the chain counts coupons (`Short`); and the dry run of a reward file misses no row that is given
  away, whoever else is active.
- `WalletViewIsTrue`: what a customer is shown was owned, is complete when
  nothing else happens, even while a transfer waits for its ledger, and what is
  offered can be redeemed.
- `BooksAreTrue`: inventory, the marketer's dashboard, the merchant's two
  dashboards and the chain agree, whichever way codes are counted; the
  inventory counts a crossed code that was delivered as one more coupon than
  there is.
- `DeliverySpec`: the batches implement `VoucherDelivery`, row by row.

The fate of a transfer is decided when its call is answered; transactions that
are mined after the request has given up are in section 3. A customer's
inactive vouchers and groups that are for sale are left out. Deadlock is not
checked: requests and steps are used up.

## 8. Points: PointTransfer, VoucherActivation

`PointTransfer` has the points of one merchant: rows, contracts, balances on
chain and in the database, transactions. `VoucherActivation` extends it by the
activation of a voucher, bought or the merchant's own, priced in these points.

| Action | Code |
|---|---|
| `Give`: `B2C`, `Associate`, `ReadCustomer`, `CheckBalance`, `Transfer`, `CreateTransaction`, `UpsertCustomerPoints` | `createTransactionB2C`, statement by statement |
| `Spend`: `ValidateCustomerBalance`, `Pay`, `Debit` | the points of `buyCouponFromMarketplace` |
| `Create`: `CreatePoint`, `Deploy`, `InsertPoint`; `DeletePoint` | `createPoint`, `deletePoint`; the address is that of a dry run before the deployment |
| `ResetCustomerPointBalances`, `UpdatePointContractAddress` | the administration scripts and endpoint |
| `Activate`, `FetchCodes`, `ListCoupon`, `Persist` | `activateVoucher` for bought codes and for those it makes itself |
| `DeleteVoucher` | `deleteVoucher` |

`work` splits the behaviours into transfers of points and activations, and
`own` says whose the voucher is; both are chosen in `Init`. `sent`, `lost`,
`moved` and `deleted` are history: what was transferred, and whose books a
failure or the operator has touched.

`pt_points`: 2 customers, 3 requests, 2 activations of up to 2 of 3 coupons, a
supply of 2, lives of 25 and of 42 841 hours (one above the first step of the
epoch's table, and one whose number of windows no longer fits eight bits, which
is refused), 2 faults, 2 operations of the operator; 391 000 distinct states.
Three requests are two transfers that overlap over what a third has given, or a
new kind of points, a transfer and a purchase.

- `RecordsFollowTransfers`: every recorded transfer took place, and every
  transfer is recorded unless a call raised half-way.
- `BalancesFollowTransfers`: the balance in the database is that of the chain
  while clients wait for each other, and in any case never more than was sent.
  The credit writes an absolute value that was read before a transfer that
  takes seconds, the debit a decrement, so two at a time lose one.
- `ShownPointsAgree`: what was issued is left or was given, and what was paid
  has come back to the merchant's address; the dashboard shows a payment as one
  more transfer, so left and transferred exceed the supply by two for each. Both
  lists of a customer agree.
- `ContractsFit`: a kind of points has its own contract when contracts are
  deployed one at a time, its windows reach the end date, and an activated code is priced in the points its listing takes.
- `ShelfIsOnChain`: codes shown as active are in escrow and those shown as
  upcoming in the wallet; for an own voucher in any interleaving, for a bought
  one while activations wait for each other and points are not deleted.

The contract's own expiry of points is not modelled, nor are purchases of codes
of an own voucher: `buyCouponFromMarketplace` looks for codes with an owner and
finds none of these (section 11). Deadlock is not checked: requests are used up.

## 9. Accounts: MerchantAccounts, CustomerOnboarding

`MerchantAccounts` has users, merchants, derived wallets and the whitelist;
`CustomerOnboarding` extends it by temporary links, OTPs and customers, because
a merchant may be deleted while somebody becomes its customer.

| Action | Code |
|---|---|
| `Register`, `CommitUser` | `AuthService.register` |
| `CreateMerchant`, `CommitMerchant`, `AdmitMerchant`, `AdmitSeller` | `createMerchant`: the index is read, wallets are derived from it, one `$transaction` writes, and two whitelistings follow |
| `DeleteMerchant`, `CommitDeletion` | `deleteMerchant`, which deletes the first of two wallets |
| the steps of `LinkStep` | `getCustomerByPhone`, `registerCustomerDev`, create, update and delete a link, `createOTP`, `reSendOTP`, `verifyOTP`: each reads and later writes |
| the steps of `CustomerStep` | `createCustomer` (found and associated, or inserted), `clearCustomerByPhone` |
| `Tick` | five minutes |

`ob_onboard`: 2 users, 2 phones, 2 e-mail addresses, 3 requests, 8 indices, one
tick, one fault, in three workloads (`MCWorkloads`): three persons, three users,
and two partners beside a user; 297 000 distinct states. Two users show that indices are per user; three
requests let two creations and a deletion meet, or an OTP, its repetition and
its verification; eight indices are what the first merchant and three creations use up.

- `NoAddressReuse`: no address is made for two merchants, although the index is
  read outside of the transaction and deletion frees a wallet.
- `SellerWalletIsOwn`: a merchant finds its own seller wallet by index and phone,
  and another living merchant's only if it has no phone or if one of the two was
  inserted over a phone that had been taken since it was looked for (`shared`).
  What deleted merchants leave behind may be found, too.
- `VerifiedOnce`: of the verifications of one link one succeeds.
- `OtpIsPersonal`: a code that was told in the name of one phone, by message or in
  the answer, verifies no other phone, unless `ReSendOTP` stored it after
  `CreateOTP` had replaced the phone it read (`crossed`). While requests that write
  codes wait for each other no code crosses, and none ends before the time the
  person was told.
- `CustomersAreWhole`: customers have their wallets, and, while partners wait for
  each other, are registered once with a merchant.

`verifyOTP` takes any code that matches, told or not, and so does the model.
`polite` means that a request that writes a code, and one that registers a
customer, waits for others of its kind; merchants are created and deleted at any
time.

Deadlock is not checked: requests are used up.

## 10. What is proved

`DirectTransferProofs` is checked by TLAPS for every set of codes,
operations, customers and workers and every bound. Assumptions: `OwnersDiffer`
(the merchant is no customer), `NoneIsNull` (NULL is no value) and `Bounds`.

The properties of `dt_safety` are not inductive. `IInv` adds what
they rest on: an operation row exists exactly when its codes are reserved
(`RowInv`); the request's place says what the chain has done (`ChainInv`); a
claim is one of the operation's own reservations, and a failed operation has
none (`ClaimInv`); a ledger row keeps code, claim and owner together
(`LedgerInv`, `OwnerInv`, `UniformInv`, `ConfirmedInv`); and what a worker
learned stays true, because fates of the chain are final and rows are never
removed (`WorkerInv`). The argument is by action; all writes of a step are one
of seven table writes (`StepWrites`), so each part of the invariant is shown
once per write instead of once per action.

- `Inductive`, `TypeCorrect`, `LedgerIsBacked`, `NoSecondReceiver`,
  `WholeOrNothing`, `ConfirmedMeansDelivered`, `DeliveryIsFinal`: properties of
  `dt_safety` and those that follow from `IInv` and the type invariant, for any
  administrators.
- `SentStaysHeld`: only a release that came too early makes the pool offer a
  code whose token is gone. `SentInv` adds the operations that have sent nothing
  yet and whose request is alive; `CommitRelease` frees codes of one that is
  `Over`, or makes it hasty.
- `QuietLedger`: only an operation two were at has a code twice in its ledger
  (`QuietInv`: any other has one actor at a time, so an empty ledger that was
  read is still empty at the write).
- `Refinement`: with `settled` = operations whose transfer succeeded and
  `delivered` = codes with a ledger row, every step is a step or a stutter of
  `VoucherDelivery`.

`VoucherRedemptionProofs`, for every set of codes, requests and customers and
every bound, from `MarketIsNoCustomer` (the three kinds of owner differ),
`FiniteCodes` (balances count codes) and `RedemptionBounds`:

- `RedemptionInductive`, `RedemptionTypes`, `StoresAlwaysAgree`
  (`StoresAgree` is `RedemptionIsBurned` and `RedeemedStands`). The invariant
  adds `PlaceInv`, which ties the place of a request to the stores: it has burned
  nothing before it sends its burn, a request about to record has burned, and an
  AIS request that burns holds its points. `RedemptionIsBurned` is not inductive
  without it, because a burn sent by a request that already has a row would undo
  it.
- `RequestsMeet`, `TwiceOnlyByConcurrentRequests`: two rows of a code belong to
  requests that met. `MeetInv` says so of requests that work on one code, and of
  a request that may still write and those that wrote before: whoever arrives
  later either meets them or finds the code used.
- `SagaIsFollowed`: redemption implements `RedemptionSaga`. `SagaInductive` adds `SagaPlace` to the invariant: points
  are credited after the balance check only, for AIS requests only, and a
  request that waits for its burn or is about to write has no row; without it
  the mapped `Start` could credit twice and the mapped `Use` write twice. That
  the mapped `Use` takes no code of a redemption it has not met is `MeetInv`.
  Three lemmas say how a step changes the mapped fates (`FatesBecome`, `FatesStay`,
  `Unseen`), `GivesUp` covers refusals, errors and crashes together, and
  `RequestFollows`, `CoreFollows` and `ChainFollows` map the other actions.

`VoucherMarketplaceProofs`, for every set of codes, merchants, customers and
requests and every bound, from `NoneIsNobody` (NULL is no value), `TwoSides`
(no merchant is a customer), `FinitelyMany` (the tallies count codes and
requests) and `Bounds`:

- `MarketplaceInductive`, `MarketplaceTypes`, `BalancesFollowTheChain`,
  `BatchesKeepTheirTotal`, `FullBatchesAreSoldOut`: the properties of
  `mp_safety` and what a full batch says of itself, merchants unrestricted. `IInv` adds `PlaceInv` (a purchase has a
  listing that was activated, a request has made no listing before it calls the
  chain) and `GroupInv` (codes are only in activated listings). The properties
  equate a number in one store with another and the requests between the two:
  each lemma says how a request that changes place changes a tally by one.
- `MarketplacePolite`, `ListingsAreBacked`: under `SerialSellers`, by `PoliteInv`. `EscrowHasCodes` is not inductive: a recorded sale takes a code
  off the listing after its coupon has left. `Backed` counts it: coupons left
  plus purchases about to be recorded never exceed the codes on sale. It holds
  because an activation works on stock nobody else takes (`OneAtATime`,
  `HeldInv`), so as many codes are listed as coupons, and because the contract
  takes a coupon for each sale before a code is taken: when two customers hold
  one code, two coupons are gone and only one code.

`CustomerOnboardingProofs`, for every set of users, phones, e-mail addresses and
requests and every bound, from the assumptions `Distinct` and `Limits` of
`MerchantAccounts` and `TimeNat`, `WorkloadsOK`, `PlainIsNoCode` (what was never
hashed is no code that was made) of `CustomerOnboarding`:

- `AccountsInductive` (`AccountInv`), with `AddressesAreNew` and `IndexIsAhead`.
  `NoAddressReuse` is not inductive: two
  requests may hold one index, and the first one's merchant may be deleted
  before the second writes. The invariant adds that the first wallet of a
  merchant has an odd index and the second, which is never deleted, the even
  one after it, and that the counter only rises: so a request with a stale index
  finds at least its second address taken.
- `LinksInductive` (`LinkInv`), `VerifiedOnlyOnce`: a link is made by the last
  step of its request, so a link that was verified, and deleted with it, never
  comes back. It rests on the first theorem, because merchants and links share
  the requests.
- `PhonesInductive` (`PhoneInv`), `SellersFindTheirWallet`: two merchant wallets
  have one phone only if the later was inserted when the phone was taken
  (`OwnPhones`), and both wallets of a merchant have one phone (`SamePhones`); so a
  look-up by index and phone finds the merchant's own seller wallet, and of other
  living merchants only those two cases.
- `ShapesInductive` (`ShapeInv`) says what a request knows at each place where it
  may stand, and with `CustomersInductive` (`CustomerInv`) gives
  `CustomersStayWhole`: a customer is made by a request that is over when it is
  joined (`MadeBefore`); of polite partners one joins at a time, and what it is
  about to join is not joined yet (`OneJoins`, `NotYet`).
- `CodesInductive` (`OtpInv`), `OtpStaysPersonal`: a code is stored before it is
  told, and told by the last step of its request (`ToldIsOver`). A code in a link,
  before a verification or verified, fits the phone beside it: it was stored over
  a changed phone, or is told to nobody or to that phone (`Fits`; `LinksFit`,
  `SeenFit`, `VerifiedFit`). Promises are of links that were made, and no later
  than the life of a link from now (`PromisesFit`, `ReadWasMade`). When one request
  writes at a time, nobody changes what it has read, so no code crosses
  (`PoliteInv`).

`Tallies` states sums over a finite set as the cardinality of the set of pairs
below a function: `Tally(f)` counts the `<<x, n>>` with `1 <= n <= f[x]`. So
`TallyProofs` needs no induction, which the provers could not do: a sum changes by
what one term changes by, sums add up, compare term by term, and the cardinality
of a union of disjoint sets is the sum of theirs, all from facts about finite sets.

`SellerMarketProofs`, for every set of requests, merchants and vouchers and every
bound, from `Different` (NULL, the seller and the absent code are nobody's
names), `Finite` (what is summed is finite) and `Bounds`:

- `Invariant` (`IInv`), `TypesHold`, `NoCodeIsFree`, `BooksHold`,
  `PoliteTradeHolds`. The properties compare sums over several stores with sums
  over the requests on their way between them, and three of them are not
  inductive. `Supply` counts, for a listing, the coupons left and the purchases
  that have paid against the codes that are not sold: codes are made after the
  coupons, in one step, and a purchase takes its codes after the coupons are
  gone. `Within` counts what a batch has sold, has on sale, has handed over
  without counting it yet, and has still to list against the total of its items;
  without the items still to list, a batch that is sold out early would look
  full. `Held` and `Recorded` tie what a purchase has picked to its rows, `Fresh`
  and `Batched` say that nothing is there before the step that makes it, and
  `Alone` says what a polite purchase sees: no other at its listing or of its
  merchant, so a code it has picked is still unsold.
- `DashboardsHold` (`DashInv`): what sellers and marketers are shown. `SpentInv`
  says that a merchant's coupons are those of its purchases that have paid, as
  long as none was lost; `OwnerInv` that an owned code was picked by a purchase
  of its owner, and by no later one when they are polite; `RowInv` that what is
  listed has a row. The dashboards count codes, rows and coupons; each of them is
  shown to be a union over the purchases. For THB, a row of a purchase is near what
  a coupon costs (`RowIsNear`: the floors and the rounding together are off by less
  than one THB), and so a sum of rows is near the cost of as many coupons
  (`NearTallies`, by a least set for which it were not so).

`VoucherActivationProofs`, for every set of customers, requests and activations
and every bound, from `Distinct`, `Null`, `Finite`, `Numbers` and `Future` (points end
after they begin) of `PointTransfer` and `Amounts`, `Shelves`, `NullIsNoRow` of
`VoucherActivation`; points and activations interleave in `MarketSpec`:

- `PointsInvariant` (`PointInv`), with `Balances` and `ShownPoints`: contracts
  have the first addresses and windows that reach their end (`ContractInv`);
  points are given and spent after they were made (`KnownInv`); what is recorded
  was sent, and but for calls that raised the other way round (`RecordInv`);
  what was read of a balance was sent, so that an absolute write of a stale
  value never gives more than was sent (`CreditInv`); who has points has joined
  (`JoinInv`). `PoliteInv` adds that one request of a customer trades at a time,
  that what it has read is still so, and that a row names its own contract or
  the operator has touched both.
- `SheetInvariant` (`SheetInv`), with `Records`, `Contracting` and `Shelving`: coupons
  are in the wallet, in a listing with a row or in one without (`SupplyInv`);
  codes are in groups of rows that exist, priced in the point of their listing
  unless that point was moved (`RowInv`, `PriceInv`); the codes an activation
  makes are numbered from what was there when it looked, and, because there is a
  coupon for each of them once they are listed, without a gap (`OwnInv`); bought
  codes wait for the activation that looked at them, when activations take turns
  (`BoughtInv`); what is left was announced, whenever it was read (`LeftInv`).

`DistributionProofs`, for every set of codes, vouchers, customers, merchants,
requests and files and every bound, from `CodesOK`, `StockOK`, `Apart` (nobody is
customer and merchant), `FewOf` (vouchers and merchants are finitely many),
`BoundsOK` of `WalletPool`, `FilesOK` and `NobodyElse` (the unknown customer and
the voucher without a token are none of the others) of `BatchTransfer`, and
`NoneIsNull`, `NoTaskIsNull`, `NoLookIsNull` (NULL is no value):

- `Invariant` (`IInv`). Steps are about codes (`DataInv`) in few ways: a claim, a
  move of coupons, a write of a ledger, a release, an activation, a redemption
  (`DataStep`). `OwnerInv` and `OpInv` say that a code passes to the receiver of
  its claim only, all codes of an operation at once, and after their coupons;
  `TokenInv` gives the coupon of each code one `Keeper`, who is the receiver
  from the move on and not only from the write, and takes one away for each
  code whose coupon is `Lost`, because it was listed while claimed and its
  transfer moved another coupon in its place. `CallInv` has what a request
  knows at each place, that operations it has not come to are untouched
  (`FutureOf`), and that what its rows were told is so (`ReportOf`).
- `CouponsFollowCodes`, `AnswersStayTrue`, `WalletsAreTrue`, `BooksStayTrue`: the
  properties of `bt_batch`. Wallets need that the lowest and the newest codes of
  a pool are as many as were asked for, which is proved from the rank of a code
  (`RankIsOnto`, section 2); books count one set of codes in three ways, as
  disjoint unions over merchants, vouchers and pending operations.
- `ForecastsComeTrue`: of a previewed file the invariant says that what the rows
  from the next one on need of a voucher is in the pool (`Lasts`), which a claim
  lowers on both sides; of a dry run that no stock comes back to a merchant.
- `DistributionDelivers`: each step is one of `VoucherDelivery`, in which all
  merchants are one, or stutters.

The second half of `VoucherMarketplaceProofs` is about `MarketplaceView`, for every
set of listings, customers, and requests that change or look, every life of the
cache and every bound, from `Sides` (the listings for THB are listings),
`FewOfEach` (what is counted is finite; `Readers` may be infinite),
`NullIsNoOne` and `ViewBounds`:

- `ShownAccounted` (`ViewInv`). The properties speak of calm moments only, and so
  are far from inductive. `MarketInv` says what is true in between: what each
  request in flight has done on chain and not written yet (`Sent`, `Made`,
  `Alone`), so that the difference between the coupons and the codes of a listing
  is the sales on their way (`Matched`; once a record was lost or shared only that
  there are codes enough, `Enough`), that between a customer's coupons and codes
  the purchases and redemptions on theirs (`Even`). What was lost or shared is the
  rest (`Books`), and is summed over all customers, because a purchase may take the
  code of any of them: `Lag`, redemptions on chain without a used code, and `Gap`,
  coupons held or redeemed without a code. Each loss raises one of the two, no step
  lowers either (`BooksStay`, `BooksMove`), and so none makes up for another.
  `LookInv` says what a request that looks knows
  at each place, if nothing disturbed it.
- `CacheIsCurrent`, `ListsAreFresh`: with `Aged`, what the cache shows was open no
  longer ago than the cache is old. A fill pairs ids with structs of the same
  list (`PairedUp`) only if nothing came between its two calls, which `torn` says.
- `CalmAnswersAreExact`, `AuditsAreExact`: with no request in flight, a listing has
  codes enough (`CodesSuffice`), and as many as coupons if nothing was lost or
  shared (`CodesMatch`); so the list's three sources agree, and the audit's sums are compared term by term with the
  lemmas of `TallyProofs` (`AlarmsShow`); what was lost shows (`LossesShow`).

TLC agreed on each of these invariants before it was proved. The proofs found
choices in the model that were not definite where TLC happened to pick one
(`CASE` without a match, a conjunct under the wrong quantifier); these are
written out now. Two properties of `Distribution` turned out to hold more
widely than they were stated: the dry run misses nothing whoever else is
active, and a customer who looks alone sees everything even while a transfer
waits for its ledger.

Only model-checked: liveness (`ConfirmedEventuallyDelivered`, `RequestsEnd`), which
is out of the prover's reach, and the violation. Every invariant and action
property of a passing run, and every refinement, is a theorem. Nothing here rests
on a recursive definition.

## 11. Where the code departs from its documents, and other observations

`dt_listed` is a violation run: an activation lists a code that a direct
transfer has claimed, and the ledger of the transfer takes the row although it
is reserved for the marketplace, which `docs/dev-plan-phase1-2.md:88` forbids;
the listing on chain then has a coupon without a code. `vr_reverse` is one, too: `transferReverse` reports a refusal as an
answer; `redeem` logs it as a success and tells the customer that the rollback
is complete.

The following are visible in the models, as the reason why a property needs
`polite` or `SerialSellers`, or why it excludes a case or records it in a
history variable. They have no run of their own.

- A release that was right when it was made may be followed by the submission
  of a request that was still alive; `SUBMITTED` is written by id without
  looking at the status (`hasty`). An execute run overlapping its request may
  write a second set of ledger rows (`shared`); an
  inspection whose two reads fall on either side of the ledger commit may put a
  confirmed operation to review; a hash that could not be recorded is lost,
  which is why `ConfirmedEventuallyDelivered` asks for a recorded one.
- `isUsed` is read before the burn and not compared when it is written: two
  requests at once redeem a code twice. A rollback after a burn returns the
  points and keeps the coupon.
- A code is found free before the purchase on chain and updated by its id after
  it: of two customers who found it, both pay, and the later record takes the
  code from the earlier. A merchant who buys from a seller pays before the codes are
  looked for (`merchantBuyCouponFromSeller:178`) and may find too few; the purchase
  then ends with an error, its THB spent and its coupons in the wallet.
- The expiry cron takes the merchant of a listing from its first code. A code
  that was sold names none, so the withdrawal is skipped, the listing is cleared
  in the database, and the voucher is marked so that nobody comes back.
- A withdrawn code keeps its `pointId` and can never be listed again
  (`delistMarketplaceListing:109`). `fetchOwnedCodesToActivate`
  (`activateVoucher:308`) looks at `pointId` only, so the codes of a deleted
  point can be activated while they are listed.
- Two activations of an own voucher can issue more than announced, because what
  is left is written as an absolute value. Codes of an own voucher have no
  owner, so `buyCouponFromMarketplace:126` never finds them, while
  `marketplace-listing.util.ts:175` shows them.
- Sold codes keep `voucherGroupId`, so the audit reports the marketplace after
  the first sale; `getActiveVouchers` shows `totalIssued` as upcoming for bought
  vouchers, too.
- THB minted by an operator has no THB_MINT row, so the merchant's dashboard
  leaves it out. Mints are floored (`merchantBuyCouponFromSeller:345`), the total
  of a purchase is floored (`:166`) and divided and rounded for each code
  (`:216`): for two coupons at one and a half THB a mint of three and two rows of
  two are recorded, and the dashboard shows a balance of -1. When two purchases picked one code, the seller's breakdown
  names the merchant of the last row.
- `getVoucherByMerchantRef` takes the first voucher of a `merchantRef`, while
  `GetMerchantSummary` counts all.
- The JSON batch answer omits operation and hash of a row that failed, so it
  cannot tell what is left to repair; the CSV answer can (`ClaimsAreReported`).
- `createOTP:49` and `reSendOTP:73` return the OTP in their answers, and a message
  that is refused is only logged (`ais-sms.service.ts:137`): a code verifies
  although no phone received it.
- The seller wallet is found by index and phone (`wallet-db.service.ts:155`)
  and may be another merchant's after a deletion. The wallet of a cleared
  customer is never deleted (`clearCustomerByPhone:47`).
- `createTransactionB2C:47` announces that it finds or creates a customer; the
  creation cannot be reached. The update of a point raises without a contract
  address.

## 12. Not modelled

Chain reorganisations (a receipt is final); recovery run and event rows
(written, never read by a decision); lock-order deadlocks inside PostgreSQL
(they show as failed calls); codes redeemed while they are for sale, together
with their purchase (each module has one side of it); several vouchers where no
statement of the component crosses them.

Of modelled components: the branches of `checkAndSyncVoucherOnchain` that would
write (its handler asserts that it only reports); purchases of codes of an own
voucher; the expiry of points in their contract; text edits of a coupon
(`manageCoupon`) and `updateCustomer`; `updateMerchant`, whose DTO lets the
`walletId` be rewritten (`merchant/dtos/index.ts:82`), so that a merchant may be
given a wallet that is not its own; `deleteApiKey`, which leaves a merchant without
a key; `addToWhitelist`, by which an operator whitelists any address, and the
whitelisting of customers and buyers. That merchants have their wallets and a key
and that whitelisted addresses were given to merchants are therefore facts of the
model that support other proofs, not claims about the program.

Not at all: sessions and authentication, creation and revocation of API keys
(single rows, one statement each); the HTTP surface (guards, validation,
mapping of errors), exports and dumps, seeds and mock data, generated clients
and ABIs. `PROJECT.json` gives the reason for each.
