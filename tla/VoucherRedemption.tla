------------------------- MODULE VoucherRedemption --------------------------
(***************************************************************************)
(* A customer redeems a voucher code at a merchant.  Three stores have to  *)
(* agree: the coupon token is burned on chain, the code is marked used     *)
(* with a REDEEM row in PostgreSQL and, for an AIS point voucher, points   *)
(* are credited by the partner AIS before and reversed on failure.         *)
(*                                                                         *)
(*   request   RedeemVoucher.execute and RedeemVoucher.executeAIS          *)
(*   partner   AisTransferService, with the access token AdmdService       *)
(*             caches for all requests of the process                      *)
(*                                                                         *)
(* One AIS point voucher; its codes that are not activated are refused at  *)
(* once and left out.  Validity dates and merchantRef are constant and     *)
(* right.  The partner credits and reverses points per transaction id.     *)
(***************************************************************************)
EXTENDS Naturals, FiniteSets

CONSTANTS
  Codes,             \* activated voucher codes
  Requests,          \* HTTP requests
  Customers,
  Market,            \* the owner of a code that is still for sale
  None,              \* SQL NULL
  MaxFaults,         \* bound: calls that raise
  MaxRevocations     \* bound: access tokens the partner revokes early

ASSUME MarketIsNoCustomer == Market \notin Customers /\ None \notin Customers
ASSUME FiniteCodes        == IsFiniteSet(Codes)
ASSUME RedemptionBounds   == MaxFaults \in Nat /\ MaxRevocations \in Nat

VARIABLES
  owner,      \* VoucherCode.currentOwnerId
  usedBy,     \* VoucherCode.usedBy, None while isUsed is false
  rows,       \* requests that have a REDEEM row
  tokens,     \* coupon balance of each customer on chain
  burn,       \* fate of the burn a request sent
  points,     \* requests whose AIS transfer-in stands
  cache,      \* AdmdService.cachedToken: "none", "good" or "revoked"
  holds,      \* the access token a request is about to use
  req,        \* code, customer and endpoint of a request
  pc,         \* where the request stands
  met,        \* requests for the same code that a request found under way
              \* when it arrived: a history variable, no guard reads it
  faults, revocations

stores == <<owner, usedBy, rows, tokens, burn, points>>
partner == <<cache, holds, revocations>>
vars == <<owner, usedBy, rows, tokens, burn, points, cache, holds, req, pc,
          met, faults, revocations>>

Running == {"balance", "credit", "burn", "mined", "record", "reverse"}
Ended   == {"redeemed", "refused", "rolledBack", "rollbackFailed", "crashed"}
Access  == {"none", "good", "revoked"}
NoReq   == [code |-> None]
Reqs    == [code: Codes, by: Customers, ais: BOOLEAN]

TypeOK ==
  /\ owner \in [Codes -> Customers \cup {Market}]
  /\ usedBy \in [Codes -> Customers \cup {None}]
  /\ rows \subseteq Requests
  /\ tokens \in [Customers -> Nat]
  /\ burn \in [Requests -> {"none", "pending", "success", "reverted",
                            "dropped"}]
  /\ points \subseteq Requests
  /\ cache \in Access
  /\ holds \in [Requests -> Access]
  /\ req \in [Requests -> Reqs \cup {NoReq}]
  /\ pc \in [Requests -> {"idle"} \cup Running \cup Ended]
  /\ met \in [Requests -> SUBSET Requests]
  /\ faults \in Nat /\ revocations \in Nat

\* Every code a customer holds came with one coupon token.
Init ==
  /\ owner \in [Codes -> Customers \cup {Market}]
  /\ usedBy = [c \in Codes |-> None]
  /\ rows = {}
  /\ tokens = [k \in Customers |-> Cardinality({c \in Codes : owner[c] = k})]
  /\ burn = [r \in Requests |-> "none"]
  /\ points = {}
  /\ cache = "none"
  /\ holds = [r \in Requests |-> "none"]
  /\ req = [r \in Requests |-> NoReq]
  /\ pc = [r \in Requests |-> "idle"]
  /\ met = [r \in Requests |-> {}]
  /\ faults = 0 /\ revocations = 0

-----------------------------------------------------------------------------
Goto(r, place) == pc' = [pc EXCEPT ![r] = place]

Raises == faults < MaxFaults /\ faults' = faults + 1

\* An error after the points were credited is compensated, any other one is
\* just reported.
Fail(r) == Goto(r, IF req[r].ais THEN "reverse" ELSE "refused")

Concerns(r, c) == pc[r] \in Running /\ req[r].code = c

\* Seeded fault: a used code is not recognised.
OwnedOnly(c, k) == owner[c] \in {k, Market}

\* assertCodeNotUsed, assertCodeActivated and assertOwnership: a code that
\* is still for sale is redeemable by whoever presents it.
Redeemable(c, k) == usedBy[c] = None /\ owner[c] \in {k, Market}

\* prepareRedeemContext: everything known about the code is read here.
Arrive(r) ==
  /\ pc[r] = "idle"
  /\ \E c \in Codes, k \in Customers, ais \in BOOLEAN :
       /\ met' = [met EXCEPT ![r] = {q \in Requests : Concerns(q, c)}]
       /\ req' = [req EXCEPT ![r] = [code |-> c, by |-> k, ais |-> ais]]
       /\ Goto(r, IF Redeemable(c, k) THEN "balance" ELSE "refused")
  /\ UNCHANGED <<stores, partner, faults>>

\* Seeded fault: the points are left for later.
BurnAtOnce(r) ==
  /\ pc[r] = "balance"
  /\ Goto(r, IF tokens[req[r].by] >= 1 THEN "burn" ELSE "refused")
  /\ UNCHANGED <<stores, partner, req, met, faults>>

\* verifyOnChainBalance, before the partner is asked for anything.
CheckBalance(r) ==
  /\ pc[r] = "balance"
  /\ \/ /\ tokens[req[r].by] >= 1
        /\ Goto(r, IF req[r].ais THEN "credit" ELSE "burn")
        /\ UNCHANGED faults
     \/ tokens[req[r].by] = 0 /\ Goto(r, "refused") /\ UNCHANGED faults
     \/ Raises /\ Goto(r, "refused")
  /\ UNCHANGED <<stores, partner, req, met>>

-----------------------------------------------------------------------------
(* Calls of the partner.                                                   *)

Calling(r) == pc[r] \in {"credit", "reverse"}

AfterCallError(r) ==
  Goto(r, IF pc[r] = "credit" THEN "refused" ELSE "rollbackFailed")

\* getAccessToken: the cached token, or a new one for everybody.
Authorize(r) ==
  /\ Calling(r) /\ holds[r] = "none"
  /\ \/ /\ cache' = IF cache = "none" THEN "good" ELSE cache
        /\ holds' = [holds EXCEPT ![r] = cache']
        /\ UNCHANGED <<pc, faults>>
     \/ cache = "none" /\ Raises /\ AfterCallError(r)
        /\ UNCHANGED <<cache, holds>>
  /\ UNCHANGED <<stores, req, met, revocations>>

\* Seeded fault: the retry takes the same token out of the cache.
RetrySameToken(r) ==
  /\ Calling(r) /\ holds[r] = "revoked"
  /\ holds' = [holds EXCEPT ![r] = "none"]
  /\ UNCHANGED <<stores, cache, revocations, req, met, pc, faults>>

\* HTTP 401: the cache is cleared, whatever it holds by now, and the call is
\* made again with the same transaction id.
Unauthorized(r) ==
  /\ Calling(r) /\ holds[r] = "revoked"
  /\ cache' = "none"
  /\ holds' = [holds EXCEPT ![r] = "none"]
  /\ UNCHANGED <<stores, revocations, req, met, pc, faults>>

\* The partner revokes the current token or its lifetime ends.
Revoke ==
  /\ revocations < MaxRevocations
  /\ cache = "good"
  /\ revocations' = revocations + 1
  /\ cache' \in {"none", "revoked"}
  /\ holds' = [r \in Requests |->
                 IF holds[r] = "good" THEN "revoked" ELSE holds[r]]
  /\ UNCHANGED <<stores, req, met, pc, faults>>

Release(r) == holds' = [holds EXCEPT ![r] = "none"]

\* Seeded fault: a refusal of the partner is not looked at.
TransferUnchecked(r) ==
  /\ pc[r] = "credit" /\ holds[r] = "good"
  /\ points' \in {points, points \cup {r}}
  /\ Goto(r, "burn")
  /\ Release(r)
  /\ UNCHANGED <<owner, usedBy, rows, tokens, burn, cache, revocations, req,
                 met, faults>>

\* transferIn: credited, refused by the partner, or no answer.
TransferIn(r) ==
  /\ pc[r] = "credit" /\ holds[r] = "good"
  /\ \/ points' = points \cup {r} /\ Goto(r, "burn") /\ UNCHANGED faults
     \/ UNCHANGED <<points, faults>> /\ Goto(r, "refused")
     \/ Raises /\ points' \in {points, points \cup {r}} /\ AfterCallError(r)
  /\ Release(r)
  /\ UNCHANGED <<owner, usedBy, rows, tokens, burn, cache, revocations, req,
                 met>>

\* transferReverse: what the partner answers is logged and not looked at;
\* the request carries a fresh transaction id, so the partner may not know
\* what to reverse.
TransferReverse(r) ==
  /\ pc[r] = "reverse" /\ holds[r] = "good"
  /\ \/ /\ points' \in {points, points \ {r}}
        /\ Goto(r, "rolledBack")
        /\ UNCHANGED faults
     \/ Raises /\ points' \in {points, points \ {r}} /\ AfterCallError(r)
  /\ Release(r)
  /\ UNCHANGED <<owner, usedBy, rows, tokens, burn, cache, revocations, req,
                 met>>

-----------------------------------------------------------------------------
(* executeRedeemCore.                                                      *)

\* resolveMerchantForRedemption finds no merchant or no wallet, or the
\* voucher has no token id.
Unresolved(r) ==
  /\ pc[r] = "burn"
  /\ Fail(r)
  /\ UNCHANGED <<stores, partner, req, met, faults>>

SendBurn(r) ==
  /\ pc[r] = "burn"
  /\ \/ /\ burn' = [burn EXCEPT ![r] = "pending"]
        /\ Goto(r, "mined")
        /\ UNCHANGED faults
     \/ /\ Raises
        /\ burn' \in {burn, [burn EXCEPT ![r] = "pending"]}
        /\ Fail(r)
  /\ UNCHANGED <<owner, usedBy, rows, tokens, points, partner, req, met>>

\* Seeded fault: the receipt is not waited for.
BurnAssumed(r) ==
  /\ pc[r] = "mined"
  /\ Goto(r, "record")
  /\ UNCHANGED <<stores, partner, req, met, faults>>

\* tx.wait(): resolves on success, throws when reverted, replaced or lost.
AwaitBurn(r) ==
  /\ pc[r] = "mined"
  /\ \/ burn[r] = "success" /\ Goto(r, "record") /\ UNCHANGED faults
     \/ burn[r] \in {"reverted", "dropped"} /\ Fail(r) /\ UNCHANGED faults
     \/ Raises /\ Fail(r)
  /\ UNCHANGED <<stores, partner, req, met>>

\* The code is updated by its id and the REDEEM row created, together.
MarkUsed(r) ==
  /\ usedBy' = [usedBy EXCEPT ![req[r].code] = req[r].by]
  /\ rows' = rows \cup {r}

Record(r) ==
  /\ pc[r] = "record"
  /\ \/ MarkUsed(r) /\ Goto(r, "redeemed") /\ UNCHANGED faults
     \/ Raises /\ Fail(r) /\ (MarkUsed(r) \/ UNCHANGED <<usedBy, rows>>)
  /\ UNCHANGED <<owner, tokens, burn, points, partner, req, met>>

Crash(r) ==
  /\ pc[r] \in Running
  /\ Goto(r, "crashed")
  /\ holds' = [holds EXCEPT ![r] = "none"]
  /\ UNCHANGED <<stores, cache, revocations, req, met, faults>>

RequestStep(r) ==
  \/ CheckBalance(r) \/ Authorize(r) \/ Unauthorized(r) \/ TransferIn(r)
  \/ TransferReverse(r) \/ Unresolved(r) \/ SendBurn(r) \/ AwaitBurn(r)
  \/ Record(r)

-----------------------------------------------------------------------------
(* The chain and the marketplace.                                          *)

\* The coupon contract burns only what the customer holds.
Mine(r) ==
  /\ burn[r] = "pending"
  /\ LET k == req[r].by IN
     IF tokens[k] >= 1
     THEN /\ burn' = [burn EXCEPT ![r] = "success"]
          /\ tokens' = [tokens EXCEPT ![k] = @ - 1]
     ELSE burn' = [burn EXCEPT ![r] = "reverted"] /\ UNCHANGED tokens
  /\ UNCHANGED <<owner, usedBy, rows, points, partner, req, met, pc, faults>>

\* Two burns of one wallet may take the same nonce.
Replace(r) ==
  /\ burn[r] = "pending"
  /\ \E q \in Requests \ {r} : burn[q] # "none" /\ req[q].by = req[r].by
  /\ burn' = [burn EXCEPT ![r] = "dropped"]
  /\ UNCHANGED <<owner, usedBy, rows, tokens, points, partner, req, met, pc,
                 faults>>

\* buyCouponFromMarketplace hands an unused code and its token to a buyer.
Sell(c, k) ==
  /\ owner[c] = Market /\ usedBy[c] = None
  /\ owner' = [owner EXCEPT ![c] = k]
  /\ tokens' = [tokens EXCEPT ![k] = @ + 1]
  /\ UNCHANGED <<usedBy, rows, burn, points, partner, req, met, pc, faults>>

Next ==
  \/ \E r \in Requests : \/ Arrive(r) \/ RequestStep(r) \/ Crash(r)
                         \/ Mine(r) \/ Replace(r)
  \/ \E c \in Codes, k \in Customers : Sell(c, k)
  \/ Revoke

Spec == Init /\ [][Next]_vars

\* A request that is running goes on, and blocks are mined.
Fairness == \A r \in Requests : WF_vars(RequestStep(r)) /\ WF_vars(Mine(r))

FairSpec == Spec /\ Fairness

-----------------------------------------------------------------------------
\* A code is marked used, and has a REDEEM row, only for a token that was
\* really burned: each row has a successful burn of its own, and only codes
\* with a row are used.
RedemptionIsBurned ==
  /\ \A r \in rows : burn[r] = "success" /\ usedBy[req[r].code] # None
  /\ \A c \in Codes : usedBy[c] # None =>
       \E r \in rows : req[r].code = c /\ req[r].by = usedBy[c]

\* A redemption reported as done stands in all three stores, whatever other
\* requests fail and reverse: its row is there and its points are kept.
RedeemedStands ==
  \A r \in Requests : pc[r] = "redeemed" =>
    r \in rows /\ (req[r].ais => r \in points)

\* Chain, database and partner agree on what was redeemed, whatever fails.
StoresAgree == RedemptionIsBurned /\ RedeemedStands

\* One of the two was under way when the other one arrived.
Met(r, q) == q \in met[r] \/ r \in met[q]

\* The check of isUsed, made long before the write, stops every redemption
\* of a used code but those that were under way beside the one that used it:
\* whatever failed, was reversed or crashed before, a code has two REDEEM
\* rows only by requests that met.
TwiceOnlyTogether ==
  \A r, q \in rows : req[r].code = req[q].code => r = q \/ Met(r, q)

\* Every request gets an answer: no request asks the partner for ever with
\* a token that was revoked, or waits for a burn that will not come.
RequestsEnd == \A r \in Requests : pc[r] # "idle" ~> pc[r] \in Ended

\* What is reported as rolled back is reversed at the partner.
RolledBackIsReversed ==
  \A r \in Requests : pc[r] = "rolledBack" => r \notin points

-----------------------------------------------------------------------------
(* The inductive invariants behind these properties.                       *)

\* Where a request stands says what it knows: its code and customer are
\* fixed once it arrived, it burns once and, if the voucher is worth
\* points, after they were credited, and records after a successful burn.
PlaceInv ==
  \A r \in Requests :
    /\ pc[r] \in {"idle", "balance", "credit", "burn"} =>
         burn[r] = "none" /\ r \notin rows
    /\ pc[r] # "idle" => req[r] \in Reqs
    /\ pc[r] \in {"record", "redeemed"} => burn[r] = "success"
    /\ pc[r] \in {"burn", "mined", "record", "redeemed"} /\ req[r].ais
         => r \in points
    /\ pc[r] = "redeemed" => r \in rows

IInv == TypeOK /\ PlaceInv /\ RedemptionIsBurned

\* Requests that work on one code have met, and so have one that may still
\* write and those that wrote before: it saw the code unused.
MeetInv ==
  /\ \A r, q \in Requests :
       /\ pc[r] \in Running /\ pc[q] \in Running
       /\ req[r].code = req[q].code
       => r = q \/ Met(r, q)
  /\ \A r \in Requests, q \in rows :
       /\ pc[r] \in Running \ {"reverse"}
       /\ req[r].code = req[q].code
       => r = q \/ Met(r, q)
  /\ TwiceOnlyTogether

\* Points come after the balance check, for AIS redemptions alone; no step
\* uses a code twice.
SagaPlace ==
  \A r \in Requests :
    /\ pc[r] \in {"credit", "reverse"} => req[r].ais
    /\ pc[r] \in {"idle", "balance", "credit"} => r \notin points
    /\ pc[r] \in {"mined", "record"} => r \notin rows

-----------------------------------------------------------------------------
(* A redemption implements RedemptionSaga: the request, the calls of the   *)
(* partner with their tokens and retries, the burn transaction and the     *)
(* rollback together promise no less, and no more, than the saga does.     *)

Burned == {r \in Requests : burn[r] = "success"}

FateOf(r) ==
  IF pc[r] = "idle" THEN "none"
  ELSE IF pc[r] \in {"balance", "credit"} THEN "open"
  ELSE IF pc[r] \in {"burn", "mined", "record"} THEN "going"
  ELSE IF pc[r] = "redeemed" THEN "confirmed"
  ELSE IF burn[r] = "none" THEN "unsent" ELSE "failed"

Saga == INSTANCE RedemptionSaga WITH
  coupons <- tokens,
  order   <- req,
  burned  <- Burned,
  fate    <- [r \in Requests |-> FateOf(r)]

\* Whatever order the partner, the chain and the database answer in, a
\* redemption takes the steps of the saga: credit, burn, use the code.
ImplementsSaga == Saga!SagaSpec
=============================================================================
