--------------------------- MODULE PointTransfer ---------------------------
(***************************************************************************)
(* The points of one merchant.  A kind of points is a row of the table     *)
(* Point and a contract of its own on chain; what a customer has is in the *)
(* contract and, a second time, in CustomerPoint.balances.                 *)
(*                                                                         *)
(*   merchant   CreateTransactionB2C (gives a point), CreatePoint,         *)
(*              DeletePoint                                                *)
(*   customer   BuyCouponFromMarketplace (spends a point; what else a      *)
(*              purchase does is in VoucherMarketplace)                    *)
(*   operator   ResetCustomerPointBalances, UpdatePointContractAddress     *)
(*                                                                         *)
(* One point is given or spent at a time.  A request is used once, and the *)
(* kind of points it creates is named after it.  A call that raises may    *)
(* have had its effect.  Lives are counted in hours.                       *)
(***************************************************************************)
EXTENDS Integers, FiniteSets, Tallies

CONSTANTS
  Customers,
  Requests,     \* HTTP requests
  Old,          \* the kind of points there is in the beginning
  None,         \* SQL NULL
  Supply,       \* points the merchant gets when the contract is deployed
  Lives,        \* hours to the end date of new points
  MaxFaults,    \* bound: calls that raise
  MaxAdmin      \* bound: operations of the operator and deletions

ASSUME Distinct == Old \notin Requests /\ None \notin Requests \cup {Old}
ASSUME Null     == None \notin Int
ASSUME Finite   == IsFiniteSet(Requests) /\ IsFiniteSet(Customers)
ASSUME Numbers  == Supply \in Nat /\ MaxFaults \in Nat /\ MaxAdmin \in Nat
ASSUME Future   == Lives \subseteq Nat \ {0}

VARIABLES
  point,        \* Point rows
  balance,      \* CustomerPoint rows: balances, or None without a row
  joined,       \* number of CustomerMerChant rows of a customer
  recorded,     \* number of Transaction rows to a customer, of a point
  bought,       \* number of Transaction rows of purchases, of the old points
  wallet,       \* what is wrong with the wallet row of the merchant
  contract,     \* the contracts on chain, by address
  till,         \* points of the merchant in each contract
  coins,        \* points of each customer in each contract
  req, pc,      \* what a request has read, where it stands
  sent,         \* history: points transferred to a customer, of a point
  lost,         \* history: points of which a transfer raised half way
  moved,        \* history: points whose books the operator has touched
  polite,       \* whether clients keep out of each other's way
  faults, admin

books    == <<point, balance, joined, recorded, bought>>
chain    == <<contract, till, coins>>
requests == <<req, pc>>
history  == <<sent, lost, moved>>
bounds   == <<wallet, polite, faults, admin>>
vars     == <<books, chain, requests, history, bounds>>

Points    == Requests \cup {Old}
Addresses == 1 .. Cardinality(Points)
Accounts  == Customers \X Points
NoPoint   == [addr |-> 0]
NoContract == [of |-> None]

Giving   == {"associate", "read", "check", "send", "record", "credit"}
Spending == {"pay", "debit"}
Creating == {"deploy", "insert"}
Busy     == Giving \cup Spending \cup Creating

(***************************************************************************)
(* The life of the points in epochs, as the contract counts it.            *)
(***************************************************************************)
Epoch(h) == IF h <= 24   THEN 1  ELSE
            IF h <= 168  THEN 12 ELSE
            IF h <= 720  THEN 24 ELSE
            IF h <= 2160 THEN 72 ELSE 168

Window(h) == (h + Epoch(h) - 1) \div Epoch(h)
MaxWindow == 255
Deployment(p, h) ==
  [of |-> p, life |-> h, epoch |-> Epoch(h), window |-> Window(h)]

\* What a request knows: of a point it gives, one it spends, one it creates.
Gifts     == [by : Customers, point : Points, seen : Int \cup {None}, addr : Addresses]
Purchases == [by : Customers, point : {Old}]
Creations == [life : Lives, addr : Addresses]
Contracts == [of : Points, life : Nat, epoch : Nat, window : Nat]

TypeOK ==
  /\ point \in [Points -> [addr : Addresses \cup {0}]]
  /\ balance \in [Accounts -> Int \cup {None}]
  /\ joined \in [Customers -> Nat]
  /\ recorded \in [Accounts -> Nat] /\ bought \in Nat
  /\ wallet \in {"set", "none", "unreadable", "foreign"}
  /\ contract \in [Addresses -> Contracts \cup {NoContract}]
  /\ till \in [Addresses -> Nat]
  /\ coins \in [Customers \X Addresses -> Nat]
  /\ pc \in [Requests -> Busy \cup {"idle", "over"}]
  /\ req \in [Requests -> Gifts \cup Purchases \cup Creations \cup {None}]
  /\ \A r \in Requests :
       /\ pc[r] \in Giving => req[r] \in Gifts
       /\ pc[r] \in Spending => req[r] \in Purchases
       /\ pc[r] \in Creating => req[r] \in Creations
       /\ pc[r] \notin Busy => req[r] = None
  /\ sent \in [Accounts -> Nat] /\ lost \cup moved \subseteq Points
  /\ polite \in BOOLEAN /\ faults \in Nat /\ admin \in Nat

Init ==
  /\ point = [p \in Points |-> IF p = Old THEN [addr |-> 1] ELSE NoPoint]
  /\ balance = [a \in Accounts |-> None]
  /\ joined = [k \in Customers |-> 0]
  /\ recorded = [a \in Accounts |-> 0] /\ sent = recorded /\ bought = 0
  /\ wallet \in {"set", "none", "unreadable", "foreign"}
  /\ contract = [a \in Addresses |->
                   IF a = 1 THEN Deployment(Old, 24) ELSE NoContract]
  /\ till = [a \in Addresses |-> IF a = 1 THEN Supply ELSE 0]
  /\ coins = [x \in Customers \X Addresses |-> 0]
  /\ req = [r \in Requests |-> None] /\ pc = [r \in Requests |-> "idle"]
  /\ lost = {} /\ moved = {}
  /\ polite \in BOOLEAN /\ faults = MaxFaults /\ admin = MaxAdmin

Goto(r, place) == pc' = [pc EXCEPT ![r] = place] /\ UNCHANGED req
Finish(r) ==
  /\ pc' = [pc EXCEPT ![r] = "over"]
  /\ req' = [req EXCEPT ![r] = None]
Raises == faults > 0 /\ faults' = faults - 1 /\ UNCHANGED <<wallet, polite, admin>>
Lose(p) == lost' = lost \cup {p} /\ UNCHANGED moved
Kept    == UNCHANGED <<lost, moved>>

\* Polite clients do one thing at a time for a customer, and deploy one
\* contract at a time.
Alone(k) == polite => \A q \in Requests :
                        pc[q] \in Giving \cup Spending => req[q].by # k
Deploys  == \E q \in Requests : pc[q] \in Creating

(***************************************************************************)
(* CreateTransactionB2C.  Left out is a request that is refused because    *)
(* the point is not there, which changes nothing, or the customer, which   *)
(* makes or renews the customer's temporary link (CustomerOnboarding).     *)
(***************************************************************************)
B2C(r) ==
  /\ pc[r] = "idle"
  /\ \E k \in Customers, p \in Points :
       /\ point[p] # NoPoint /\ Alone(k)
       /\ req' = [req EXCEPT ![r] = [by |-> k, point |-> p, seen |-> None,
                                     addr |-> point[p].addr]]
       /\ pc' = [pc EXCEPT ![r] = IF joined[k] = 0 THEN "associate" ELSE "read"]
  /\ UNCHANGED <<books, chain, history, bounds>>

\* An error that Prisma knows is taken for success (UpdateCustomer).
Associate(r) ==
  /\ pc[r] = "associate"
  /\ \/ joined' = [joined EXCEPT ![req[r].by] = @ + 1]
        /\ Goto(r, "read")
        /\ UNCHANGED bounds
     \/ Raises /\ UNCHANGED joined /\ (Goto(r, "read") \/ Finish(r))
  /\ UNCHANGED <<point, balance, recorded, bought, chain, history>>

\* The customer is read again, with the balance the credit will start from;
\* then the key of the merchant is derived and compared with the address.
CanSign == wallet = "set"

ReadCustomer(r) ==
  /\ pc[r] = "read"
  /\ IF CanSign
       THEN /\ req' = [req EXCEPT ![r].seen = balance[<<req[r].by, req[r].point>>]]
            /\ pc' = [pc EXCEPT ![r] = "check"]
       ELSE Finish(r)
  /\ UNCHANGED <<books, chain, history, bounds>>

\* A balance that cannot be read does not stop the transfer.
CheckBalance(r) ==
  /\ pc[r] = "check"
  /\ \/ till[req[r].addr] >= 1 /\ Goto(r, "send") /\ UNCHANGED bounds
     \/ till[req[r].addr] < 1 /\ Finish(r) /\ UNCHANGED bounds
     \/ Raises /\ Goto(r, "send")
  /\ UNCHANGED <<books, chain, history>>

\* The contract moves the point; the answer may be lost on the way back.
Transferred(r) ==
  LET k == req[r].by  a == req[r].addr IN
  /\ till[a] >= 1
  /\ till' = [till EXCEPT ![a] = @ - 1]
  /\ coins' = [coins EXCEPT ![<<k, a>>] = @ + 1]
  /\ sent' = [sent EXCEPT ![<<k, req[r].point>>] = @ + 1]
  /\ UNCHANGED contract

\* Seeded fault: the transaction is not recorded.
TransferUnrecorded(r) ==
  /\ pc[r] = "send"
  /\ \/ Transferred(r) /\ Goto(r, "credit") /\ Kept /\ UNCHANGED bounds
     \/ till[req[r].addr] < 1 /\ Finish(r) /\ UNCHANGED <<chain, history, bounds>>
  /\ UNCHANGED books

Transfer(r) ==
  /\ pc[r] = "send"
  /\ \/ Transferred(r) /\ Goto(r, "record") /\ Kept /\ UNCHANGED bounds
     \/ till[req[r].addr] < 1 /\ Finish(r) /\ UNCHANGED <<chain, history, bounds>>
     \/ Raises /\ Finish(r) /\ Transferred(r) /\ Lose(req[r].point)
     \/ Raises /\ Finish(r) /\ UNCHANGED <<chain, history>>
  /\ UNCHANGED books

CreateTransaction(r) ==
  LET k == req[r].by  p == req[r].point IN
  /\ pc[r] = "record"
  /\ \/ /\ point[p] # NoPoint
        /\ recorded' = [recorded EXCEPT ![<<k, p>>] = @ + 1]
        /\ Goto(r, "credit")
        /\ Kept /\ UNCHANGED bounds
     \/ point[p] = NoPoint /\ Finish(r) /\ Kept /\ UNCHANGED <<recorded, bounds>>
     \/ Raises /\ Finish(r) /\ Lose(p) /\ UNCHANGED recorded
  /\ UNCHANGED <<point, balance, joined, bought, chain, sent>>

\* Seeded faults: a customer who has points already gets no more; what was
\* read is added to what is there.
CreditedOnce(r) ==
  LET k == req[r].by  p == req[r].point IN
  IF balance[<<k, p>>] = None /\ point[p] # NoPoint THEN 1 ELSE balance[<<k, p>>]

\* What was read before the transfer, plus the point, is written over what is
\* there now.  A row that is there when it should be inserted, or is gone
\* when it should be updated, is left as it is.
Credited(r) ==
  LET k == req[r].by  p == req[r].point  seen == req[r].seen IN
  IF seen = None
    THEN IF balance[<<k, p>>] = None /\ point[p] # NoPoint THEN 1 ELSE balance[<<k, p>>]
    ELSE IF balance[<<k, p>>] # None THEN seen + 1 ELSE None

UpsertCustomerPoints(r) ==
  /\ pc[r] = "credit"
  /\ Finish(r)
  /\ \/ /\ balance' = [balance EXCEPT ![<<req[r].by, req[r].point>>] = Credited(r)]
        /\ Kept /\ UNCHANGED bounds
     \/ Raises /\ Lose(req[r].point) /\ UNCHANGED balance
  /\ UNCHANGED <<point, joined, recorded, bought, chain, sent>>

(***************************************************************************)
(* BuyCouponFromMarketplace, for points only.  The listings were made for  *)
(* the contract the old points had in the beginning.                       *)
(***************************************************************************)
ListingToken == 1

ValidateCustomerBalance(r) ==
  /\ pc[r] = "idle"
  /\ \E k \in Customers :
       /\ balance[<<k, Old>>] # None /\ balance[<<k, Old>>] >= 1 /\ Alone(k)
       /\ req' = [req EXCEPT ![r] = [by |-> k, point |-> Old]]
       /\ pc' = [pc EXCEPT ![r] = "pay"]
  /\ UNCHANGED <<books, chain, history, bounds>>

\* The price goes to the address of the merchant, who has made the listing.
Paid(r) ==
  LET k == req[r].by IN
  /\ coins[<<k, ListingToken>>] >= 1
  /\ coins' = [coins EXCEPT ![<<k, ListingToken>>] = @ - 1]
  /\ till' = [till EXCEPT ![ListingToken] = @ + 1]
  /\ UNCHANGED <<contract, sent>>

Pay(r) ==
  /\ pc[r] = "pay"
  /\ \/ /\ point[Old].addr = ListingToken
        /\ \/ Paid(r) /\ Goto(r, "debit") /\ Kept /\ UNCHANGED bounds
           \/ Raises /\ Finish(r) /\ Paid(r) /\ Lose(Old)
           \/ Raises /\ Finish(r) /\ UNCHANGED <<chain, history>>
     \/ /\ point[Old].addr # ListingToken \/ coins[<<req[r].by, ListingToken>>] < 1
        /\ Finish(r)
        /\ UNCHANGED <<chain, history, bounds>>
  /\ UNCHANGED books

\* Seeded fault: the payment is not recorded.
DebitUnrecorded(r) ==
  /\ pc[r] = "debit"
  /\ Finish(r) /\ Kept
  /\ balance[<<req[r].by, Old>>] # None
  /\ balance' = [balance EXCEPT ![<<req[r].by, Old>>] = @ - 1]
  /\ UNCHANGED <<point, joined, recorded, bought, chain, sent, bounds>>

\* One transaction lowers the balance and writes the row of the payment.
Debit(r) ==
  LET k == req[r].by IN
  /\ pc[r] = "debit"
  /\ Finish(r)
  /\ \/ /\ balance[<<k, Old>>] # None
        /\ balance' = [balance EXCEPT ![<<k, Old>>] = @ - 1]
        /\ bought' = bought + 1
        /\ Kept /\ UNCHANGED bounds
     \/ balance[<<k, Old>>] = None /\ Kept /\ UNCHANGED <<balance, bought, bounds>>
     \/ Raises /\ Lose(Old) /\ UNCHANGED <<balance, bought>>
  /\ UNCHANGED <<point, joined, recorded, chain, sent>>

(***************************************************************************)
(* CreatePoint.  A dry run tells the address the contract will get; the    *)
(* factory gives each contract the next one.                               *)
(***************************************************************************)
NextAddress == Cardinality({a \in Addresses : contract[a] # NoContract}) + 1

CreatePoint(r) ==
  /\ pc[r] = "idle" /\ wallet # "none"
  /\ polite => ~Deploys
  /\ \E h \in Lives :
       /\ Window(h) <= MaxWindow
       /\ req' = [req EXCEPT ![r] = [life |-> h, addr |-> NextAddress]]
  /\ pc' = [pc EXCEPT ![r] = "deploy"]
  /\ UNCHANGED <<books, chain, history, bounds>>

Deployed(r) ==
  /\ contract' = [contract EXCEPT ![NextAddress] = Deployment(r, req[r].life)]
  /\ till' = [till EXCEPT ![NextAddress] = Supply]
  /\ UNCHANGED coins

Deploy(r) ==
  /\ pc[r] = "deploy"
  /\ \/ Deployed(r) /\ Goto(r, "insert") /\ UNCHANGED bounds
     \/ Raises /\ Finish(r) /\ (Deployed(r) \/ UNCHANGED chain)
  /\ UNCHANGED <<books, history>>

\* Seeded fault: the dry run is made after the deployment.
InsertNextAddress(r) ==
  /\ pc[r] = "insert"
  /\ Finish(r)
  /\ point' = [point EXCEPT ![r].addr = NextAddress]
  /\ UNCHANGED <<bounds, balance, joined, recorded, bought, chain, history>>

InsertPoint(r) ==
  /\ pc[r] = "insert"
  /\ Finish(r)
  /\ \/ point' = [point EXCEPT ![r].addr = req[r].addr] /\ UNCHANGED bounds
     \/ Raises /\ UNCHANGED point
  /\ UNCHANGED <<balance, joined, recorded, bought, chain, history>>

(***************************************************************************)
(* Deletion, and what the operator does.                                   *)
(***************************************************************************)
Operation ==
  /\ admin > 0 /\ admin' = admin - 1
  /\ polite => \A r \in Requests : pc[r] \notin Busy
  /\ UNCHANGED <<chain, requests, sent, lost, wallet, polite, faults>>

\* The balances and the transactions of the point go with it.
DeletePoint(p) ==
  /\ point[p] # NoPoint
  /\ point' = [point EXCEPT ![p] = NoPoint]
  /\ balance' = [a \in Accounts |-> IF a[2] = p THEN None ELSE balance[a]]
  /\ recorded' = [a \in Accounts |-> IF a[2] = p THEN 0 ELSE recorded[a]]
  /\ bought' = IF p = Old THEN 0 ELSE bought
  /\ UNCHANGED <<joined, moved>>
  /\ Operation

ResetCustomerPointBalances ==
  /\ balance' = [a \in Accounts |-> IF balance[a] = None THEN None ELSE 0]
  /\ moved' = Points
  /\ UNCHANGED <<point, joined, recorded, bought>>
  /\ Operation

\* The row is all UpdatePoint, and the operator's way to it, look at.
UpdatePoint(p) ==
  /\ point[p] # NoPoint
  /\ \E a \in Addresses :
       /\ contract[a] # NoContract /\ a # point[p].addr
       /\ point' = [point EXCEPT ![p].addr = a]
       /\ moved' = moved \cup {p, contract[a].of}
  /\ UNCHANGED <<balance, joined, recorded, bought>>

UpdatePointContractAddress(p) == UpdatePoint(p) /\ Operation

Give(r) == \/ B2C(r) \/ Associate(r) \/ ReadCustomer(r) \/ CheckBalance(r)
           \/ Transfer(r) \/ CreateTransaction(r) \/ UpsertCustomerPoints(r)
Spend(r) == ValidateCustomerBalance(r) \/ Pay(r) \/ Debit(r)
Create(r) == CreatePoint(r) \/ Deploy(r) \/ InsertPoint(r)

Next == \/ \E r \in Requests : Give(r) \/ Spend(r) \/ Create(r)
        \/ \E p \in Points : DeletePoint(p) \/ UpdatePointContractAddress(p)
        \/ ResetCustomerPointBalances

Spec == Init /\ [][Next]_vars

(***************************************************************************)
(* What a customer is shown.  One list has the points of the merchants the *)
(* customer has joined, the other has them all.                            *)
(***************************************************************************)
CustomerPoints(k) == {p \in Points : balance[<<k, p>>] # None /\ joined[k] > 0}
PointsByPhone(k)  == {p \in Points : balance[<<k, p>>] # None}

\* What the merchant is shown: the points of each kind with their supply and
\* how many the wallet has left, and the number of transfers, in which gifts
\* and payments are one.
Payments(p)            == IF p = Old THEN bought ELSE 0
GetTransactionStats(p) == Tally([k \in Customers |-> recorded[<<k, p>>]]) + Payments(p)
GetPointsData(p) == [total |-> Supply, balance |-> till[point[p].addr]]

(***************************************************************************)
(* Properties.                                                             *)
(***************************************************************************)
Stored == {p \in Points : point[p] # NoPoint}
At(places, k, p) ==
  Cardinality({r \in Requests : pc[r] \in places /\ req[r].by = k /\ req[r].point = p})

\* What the customers were sent is in the transactions, but for the transfer
\* a request is about to record, as long as no call raised half way: whatever
\* else happens, and whoever is in whose way (CreateTransactionB2C.execute).
TransfersAreRecorded ==
  \A k \in Customers, p \in Stored \ lost :
    recorded[<<k, p>>] + At({"record"}, k, p) = sent[<<k, p>>]

\* A transaction is never without its transfer, whatever raises.
RecordsAreTransfers ==
  \A k \in Customers, p \in Points : recorded[<<k, p>>] <= sent[<<k, p>>]

\* The balance in the database is the balance in the contract, give and take
\* what requests have moved on chain and not yet written, when nobody is in
\* another's way and neither a failure nor the operator has touched the books.
\* The credit is an absolute value that was read before the transfer, the
\* debit a decrement: two at a time would lose one.
BalanceIsOnChain ==
  polite => \A k \in Customers, p \in Stored \ (lost \cup moved) :
    (IF balance[<<k, p>>] = None THEN 0 ELSE balance[<<k, p>>])
        + At({"record", "credit"}, k, p) - At({"debit"}, k, p)
      = coins[<<k, point[p].addr>>]

\* No balance is below zero when nobody is in another's way: the debit does
\* not look at the balance again, which was checked before the payment.
NeverOverdrawn ==
  polite => \A a \in Accounts : balance[a] # None => balance[a] >= 0

\* A customer never has more in the database than was ever transferred, even
\* when credits overwrite each other.
CreditWasSent ==
  \A k \in Customers, p \in Points :
    balance[<<k, p>>] # None => balance[<<k, p>>] <= sent[<<k, p>>]

\* The figures of a kind of points fit on the merchant's dashboard, which has
\* the supply from the row, the balance from the chain and the transfers from
\* the table: what was issued is left or was given, and what was paid has come
\* back.  A payment is itself one of the transfers that are shown, so balance
\* and transfers exceed the supply by two for each.  Rows that a request is
\* about to write are added; it takes points whose books no failure and no
\* operator has touched, and clients who keep out of each other's way.
DashboardAddsUp ==
  polite => \A p \in Stored \ (lost \cup moved) :
    LET data   == GetPointsData(p)
        giving == Cardinality({r \in Requests : pc[r] = "record" /\ req[r].point = p})
        paying == Cardinality({r \in Requests : pc[r] = "debit" /\ req[r].point = p})
    IN data.balance + GetTransactionStats(p) + giving
         = data.total + 2 * Payments(p) + paying

\* The contract of new points is their own, when contracts are deployed one
\* at a time: the address of the dry run is the one that was deployed.
OwnContract ==
  polite => \A p \in Stored \ moved : contract[point[p].addr].of = p

\* The windows of a contract reach the end date, by less than one epoch more,
\* and their number fits the eight bits of the contract.
WindowsReachTheEnd ==
  \A a \in Addresses : contract[a] # NoContract =>
    LET c == contract[a] IN
    /\ c.epoch * c.window \in c.life .. c.life + c.epoch - 1
    /\ c.window \in 1 .. MaxWindow

\* A customer joins the merchant once, when nobody is in another's way.
JoinedOnce == polite => \A k \in Customers : joined[k] <= 1

\* Both lists show a customer the same points as long as no call has raised:
\* a point is never credited to somebody who has not joined the merchant.
ListsAgree ==
  faults = MaxFaults =>
    \A k \in Customers : CustomerPoints(k) = PointsByPhone(k)
=============================================================================
