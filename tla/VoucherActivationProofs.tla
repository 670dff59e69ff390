----------------------- MODULE VoucherActivationProofs -----------------------
(***************************************************************************)
(* What the runs check of points and of the activation of vouchers, proved *)
(* for every set of customers, requests and activations and every bound.   *)
(* The first half is about points (PointTransfer), whose steps the         *)
(* specification of the second half interleaves with activations.          *)
(***************************************************************************)
EXTENDS VoucherActivation, TallyProofs

(***************************************************************************)
(* The inductive invariant of the points.                                  *)
(***************************************************************************)
\* Points whose creation is over; addresses that have a contract.
Made == {Old} \cup {r \in Requests : pc[r] = "over"}
Used == {a \in Addresses : contract[a] # NoContract}

Fits(c) == /\ c.epoch * c.window \in c.life .. c.life + c.epoch - 1
           /\ c.window \in 1 .. MaxWindow

\* The contracts have the first addresses, one for each kind of points that
\* was deployed, and windows that reach the end date.  The address a request
\* was told is in use once its contract is deployed, if not as its own.
ContractInv ==
  /\ Used = 1 .. Cardinality(Used)
  /\ 1 \in Used /\ contract[1].of = Old
  /\ \A a \in Used : /\ contract[a].of \in {Old} \cup
                          {r \in Requests : pc[r] \in {"insert", "over"}}
                     /\ Fits(contract[a])
  /\ \A a, b \in Used : contract[a].of = contract[b].of => a = b
  /\ \A r \in Requests : pc[r] \in Creating =>
       /\ Window(req[r].life) <= MaxWindow
       /\ req[r].addr \in Used \/ (pc[r] = "deploy" /\ req[r].addr = NextAddress)

\* Points are given and spent after they were made.  A row that is not there
\* has no balances and no transactions, and does not come back.
KnownInv ==
  /\ \A p \in Stored : p \in Made /\ point[p].addr \in Used
  /\ \A r \in Requests :
       /\ pc[r] \in Giving \cup Spending => req[r].point \in Made
       /\ pc[r] \in Giving => req[r].addr \in Used
  /\ \A k \in Customers, p \in Points :
       /\ p \notin Stored => balance[<<k, p>>] = None /\ recorded[<<k, p>>] = 0
       /\ p \notin Made => sent[<<k, p>>] = 0

\* Transfers that are recorded, or about to be, were sent; all that were sent
\* are, but for lost ones and deleted points.
RecordInv ==
  \A k \in Customers, p \in Points :
    /\ recorded[<<k, p>>] + At({"record"}, k, p) <= sent[<<k, p>>]
    /\ p \in Stored \ lost => recorded[<<k, p>>] + At({"record"}, k, p) = sent[<<k, p>>]

\* What a request read of a balance was sent, and one more after its transfer.
CreditInv ==
  /\ CreditWasSent
  /\ \A r \in Requests :
       LET n == sent[<<req[r].by, req[r].point>>] IN
       /\ pc[r] \in {"check", "send"} /\ req[r].seen # None => req[r].seen <= n
       /\ pc[r] \in {"record", "credit"} =>
            1 <= n /\ (req[r].seen # None => req[r].seen + 1 <= n)

\* Who has points, or is about to get some, has joined.
JoinInv ==
  /\ polite => /\ \A k \in Customers : joined[k] <= 1
               /\ \A r \in Requests : pc[r] = "associate" => joined[req[r].by] = 0
  /\ faults = MaxFaults =>
       /\ \A k \in Customers, p \in Points : balance[<<k, p>>] # None => joined[k] > 0
       /\ \A r \in Requests :
            pc[r] \in Giving \ {"associate"} => joined[req[r].by] > 0

Trading  == {r \in Requests : pc[r] \in Giving \cup Spending}
Building == {r \in Requests : pc[r] \in Creating}
Reading  == {"check", "send", "record", "credit"}

\* The parts that need polite clients.  One request of a customer at a time
\* gives or spends, and one request creates points.
AloneInv ==
  /\ \A q, r \in Trading : req[q].by = req[r].by => q = r
  /\ \A q, r \in Building : q = r

\* What such a request has read is still so.
TradeInv ==
  \A r \in Trading :
    LET p == req[r].point  have == balance[<<req[r].by, p>>] IN
    /\ p \in Stored
    /\ pc[r] \in Giving => req[r].addr = point[p].addr
    /\ pc[r] \in Reading => req[r].seen = have
    /\ pc[r] \in Spending => have # None /\ have >= 1

\* Whose contract the row of a point names.
Of(p) == contract[point[p].addr].of

\* A row names its own contract, or the operator has touched both.
AddressInv ==
  /\ \A p \in Stored : IF p \in moved THEN Of(p) \in moved ELSE Of(p) = p
  /\ \A r \in Building :
       /\ pc[r] = "deploy" => req[r].addr = NextAddress
       /\ pc[r] = "insert" => contract[req[r].addr].of = r

\* A contract that is about to get its row has all its points.
FreshInv ==
  \A r \in Requests : pc[r] = "insert" /\ r \notin moved =>
    /\ till[req[r].addr] = Supply
    /\ \A k \in Customers : coins[<<k, req[r].addr>>] = 0

\* Nobody has points in a contract that is not there.
EmptyInv ==
  \A k \in Customers, a \in Addresses \ Used : coins[<<k, a>>] = 0

PoliteInv == polite => AloneInv /\ TradeInv /\ AddressInv /\ FreshInv

BookInv == NeverOverdrawn /\ BalanceIsOnChain /\ DashboardAddsUp

PointShape == TypeOK /\ faults <= MaxFaults

PointInv ==
  /\ PointShape /\ ContractInv /\ KnownInv /\ RecordInv /\ CreditInv /\ JoinInv
  /\ EmptyInv /\ PoliteInv /\ BookInv

(***************************************************************************)
(* What the steps do.                                                      *)
(***************************************************************************)
\* A step of request r leaves the others alone.
Others(r) ==
  /\ pc' \in [Requests -> Busy \cup {"idle", "over"}]
  /\ req' = [q \in Requests |-> req'[q]]
  /\ \A q \in Requests \ {r} : pc'[q] = pc[q] /\ req'[q] = req[q]
  /\ UNCHANGED <<wallet, polite, admin>>
  /\ faults' \in Nat /\ faults' <= faults

\* It goes on, or is over.
Onward(r, place) == pc'[r] = place /\ req'[r] = req[r]
Ended(r) == pc'[r] = "over" /\ req'[r] = None

\* A request that goes on leaves the others alone.
LEMMA GotoOthers ==
  ASSUME TypeOK, NEW r \in Requests, NEW place \in Busy, Goto(r, place)
  PROVE  /\ pc' \in [Requests -> Busy \cup {"idle", "over"}]
         /\ req' = [q \in Requests |-> req'[q]]
         /\ \A q \in Requests \ {r} : pc'[q] = pc[q] /\ req'[q] = req[q]
         /\ Onward(r, place)
  BY DEF TypeOK, Goto, Onward

\* So does one that ends.
LEMMA FinishOthers ==
  ASSUME TypeOK, NEW r \in Requests, Finish(r)
  PROVE  /\ pc' \in [Requests -> Busy \cup {"idle", "over"}]
         /\ req' = [q \in Requests |-> req'[q]]
         /\ \A q \in Requests \ {r} : pc'[q] = pc[q] /\ req'[q] = req[q]
         /\ Ended(r)
  BY DEF TypeOK, Finish, Ended

\* A call that raises uses up one of the faults.
LEMMA RaisesLowers ==
  ASSUME TypeOK, Raises \/ UNCHANGED bounds
  PROVE  UNCHANGED <<wallet, polite, admin>> /\ faults' \in Nat /\ faults' <= faults
  BY DEF TypeOK, Raises, bounds

\* A request that starts leaves the others alone, too.
LEMMA StartOthers ==
  ASSUME TypeOK, NEW r \in Requests, NEW place \in Busy, NEW x,
         pc' = [pc EXCEPT ![r] = place], req' = [req EXCEPT ![r] = x], UNCHANGED bounds
  PROVE  Others(r) /\ pc'[r] = place /\ req'[r] = x
<1>1. /\ pc \in [Requests -> Busy \cup {"idle", "over"}] /\ DOMAIN req = Requests
      /\ faults \in Nat
  BY DEF TypeOK
<1>2. UNCHANGED <<wallet, polite, admin>> /\ faults' = faults
  BY DEF bounds
<1>3. /\ pc' \in [Requests -> Busy \cup {"idle", "over"}] /\ pc'[r] = place
      /\ \A q \in Requests \ {r} : pc'[q] = pc[q]
  BY <1>1
<1>4. req = [q \in Requests |-> req[q]]
  BY DEF TypeOK
<1>5. /\ req' = [q \in Requests |-> req'[q]] /\ req'[r] = x
      /\ \A q \in Requests \ {r} : req'[q] = req[q]
  BY <1>4
<1> QED BY <1>1, <1>2, <1>3, <1>5 DEF Others

B2CStarts(r) ==
  \E k \in Customers, p \in Points :
    /\ p \in Stored /\ Alone(k)
    /\ \/ joined[k] = 0 /\ pc'[r] = "associate"
       \/ joined[k] # 0 /\ pc'[r] = "read"
    /\ req'[r] = [by |-> k, point |-> p, seen |-> None, addr |-> point[p].addr]

\* CreateTransactionB2C has only read, yet.
LEMMA B2CEffect ==
  ASSUME TypeOK, NEW r \in Requests, B2C(r)
  PROVE  /\ Others(r) /\ pc[r] = "idle" /\ B2CStarts(r)
         /\ UNCHANGED <<books, chain, history, bounds>>
<1>1. PICK k \in Customers, p \in Points :
        /\ point[p] # NoPoint /\ Alone(k)
        /\ req' = [req EXCEPT ![r] = [by |-> k, point |-> p, seen |-> None,
                                      addr |-> point[p].addr]]
        /\ pc' = [pc EXCEPT ![r] = IF joined[k] = 0 THEN "associate" ELSE "read"]
  BY DEF B2C
<1> DEFINE new == [by |-> k, point |-> p, seen |-> None, addr |-> point[p].addr]
<1> HIDE DEF new
<1>2. req' = [req EXCEPT ![r] = new]
  BY <1>1 DEF new
<1>3. Others(r)
  <2>1. PICK place \in {"associate", "read"} : pc' = [pc EXCEPT ![r] = place]
    BY <1>1
  <2>2. UNCHANGED bounds /\ place \in Busy
    BY DEF B2C, Busy, Giving
  <2> QED BY <1>2, <2>1, <2>2, StartOthers
<1>4. req'[r] = new
  BY <1>2 DEF TypeOK
<1>5. /\ p \in Stored
      /\ \/ joined[k] = 0 /\ pc'[r] = "associate"
         \/ joined[k] # 0 /\ pc'[r] = "read"
  BY <1>1 DEF Stored, TypeOK
<1>6. B2CStarts(r)
  BY <1>1, <1>4, <1>5 DEF B2CStarts, new
<1> QED BY <1>3, <1>6 DEF B2C

\* The customer joins the merchant, or a call raised.
LEMMA AssociateEffect ==
  ASSUME TypeOK, NEW r \in Requests, Associate(r)
  PROVE  /\ Others(r) /\ pc[r] = "associate"
         /\ UNCHANGED <<point, balance, recorded, bought, chain, history>>
         /\ \/ /\ joined' = [joined EXCEPT ![req[r].by] = @ + 1]
               /\ Onward(r, "read") /\ UNCHANGED bounds
            \/ joined' = joined /\ faults' < faults /\ (Onward(r, "read") \/ Ended(r))
<1>1. faults' <= faults /\ faults' \in Nat /\ UNCHANGED <<wallet, polite, admin>>
  BY RaisesLowers DEF Associate
<1>2. "read" \in Busy
  BY DEF Busy, Giving
<1> QED BY <1>1, <1>2, GotoOthers, FinishOthers DEF Associate, Others, Raises, TypeOK

\* The balance is read, and kept.
LEMMA ReadEffect ==
  ASSUME TypeOK, NEW r \in Requests, ReadCustomer(r)
  PROVE  /\ Others(r) /\ pc[r] = "read" /\ UNCHANGED <<books, chain, history, bounds>>
         /\ \/ /\ pc'[r] = "check"
               /\ req'[r] = [by |-> req[r].by, point |-> req[r].point,
                             seen |-> balance[<<req[r].by, req[r].point>>], addr |-> req[r].addr]
            \/ Ended(r)
<1>1. CASE CanSign
  <2>1. req[r] \in Gifts
    BY DEF ReadCustomer, TypeOK, Giving
  <2>2. /\ req' = [req EXCEPT ![r].seen = balance[<<req[r].by, req[r].point>>]]
        /\ pc' = [pc EXCEPT ![r] = "check"]
    BY <1>1 DEF ReadCustomer
  <2>3. req'[r] = [by |-> req[r].by, point |-> req[r].point,
                   seen |-> balance[<<req[r].by, req[r].point>>], addr |-> req[r].addr]
    BY <2>1, <2>2, Zenon DEF TypeOK, Gifts
  <2>4. /\ req' = [q \in Requests |-> req'[q]]
        /\ \A q \in Requests \ {r} : req'[q] = req[q]
    BY <2>2, Zenon DEF TypeOK
  <2>5. /\ pc' \in [Requests -> Busy \cup {"idle", "over"}] /\ pc'[r] = "check"
        /\ \A q \in Requests \ {r} : pc'[q] = pc[q]
    BY <2>2 DEF TypeOK, Busy, Giving
  <2> QED BY <2>3, <2>4, <2>5 DEF ReadCustomer, Others, bounds, TypeOK
<1>2. CASE ~CanSign
  BY <1>2, FinishOthers DEF ReadCustomer, Others, bounds, TypeOK
<1> QED BY <1>1, <1>2

\* The points the merchant has are checked.
LEMMA CheckEffect ==
  ASSUME TypeOK, NEW r \in Requests, CheckBalance(r)
  PROVE  /\ Others(r) /\ pc[r] = "check" /\ UNCHANGED <<books, chain, history>>
         /\ Onward(r, "send") \/ Ended(r)
<1>1. faults' <= faults /\ faults' \in Nat /\ UNCHANGED <<wallet, polite, admin>>
  BY RaisesLowers DEF CheckBalance
<1>2. "send" \in Busy
  BY DEF Busy, Giving
<1> QED BY <1>1, <1>2, GotoOthers, FinishOthers DEF CheckBalance, Others

\* The contract moved the point.
Moved(r) ==
  LET k == req[r].by  a == req[r].addr  p == req[r].point IN
  /\ till[a] >= 1
  /\ till' = [till EXCEPT ![a] = @ - 1]
  /\ coins' = [coins EXCEPT ![<<k, a>>] = @ + 1]
  /\ sent' = [sent EXCEPT ![<<k, p>>] = @ + 1]
  /\ UNCHANGED contract

Loses(p) == lost' = lost \cup {p} /\ UNCHANGED moved

\* The points move and the request goes on, or ends with or without them.
LEMMA TransferEffect ==
  ASSUME TypeOK, NEW r \in Requests, Transfer(r)
  PROVE  /\ Others(r) /\ pc[r] = "send" /\ UNCHANGED books
         /\ \/ Moved(r) /\ Onward(r, "record") /\ UNCHANGED <<lost, moved>>
            \/ Ended(r) /\ UNCHANGED <<chain, history>>
            \/ Ended(r) /\ Moved(r) /\ Loses(req[r].point)
<1>1. faults' <= faults /\ faults' \in Nat /\ UNCHANGED <<wallet, polite, admin>>
  BY RaisesLowers DEF Transfer
<1>2. "record" \in Busy
  BY DEF Busy, Giving
<1>3. Transferred(r) => Moved(r)
  BY DEF Transferred, Moved
<1> QED BY <1>1, <1>2, <1>3, GotoOthers, FinishOthers
        DEF Transfer, Others, Kept, Lose, Loses, chain, history

\* The transaction is written where the point still has its row.
LEMMA RecordEffect ==
  ASSUME TypeOK, NEW r \in Requests, CreateTransaction(r)
  PROVE  LET k == req[r].by  p == req[r].point IN
         /\ Others(r) /\ pc[r] = "record"
         /\ UNCHANGED <<point, balance, joined, bought, chain, sent>>
         /\ \/ /\ p \in Stored /\ Onward(r, "credit") /\ UNCHANGED <<lost, moved>>
               /\ recorded' = [recorded EXCEPT ![<<k, p>>] = @ + 1]
            \/ p \notin Stored /\ Ended(r) /\ UNCHANGED <<recorded, lost, moved>>
            \/ Ended(r) /\ Loses(p) /\ UNCHANGED recorded
<1>1. faults' <= faults /\ faults' \in Nat /\ UNCHANGED <<wallet, polite, admin>>
  BY RaisesLowers DEF CreateTransaction
<1>2. "credit" \in Busy
  BY DEF Busy, Giving
<1>3. req[r].point \in Points
  BY DEF CreateTransaction, TypeOK, Giving, Gifts
<1> QED BY <1>1, <1>2, <1>3, GotoOthers, FinishOthers
        DEF CreateTransaction, Others, Kept, Lose, Loses, Stored

\* What the credit writes, for a customer and a point.
LEMMA CreditEffect ==
  ASSUME TypeOK, NEW r \in Requests, UpsertCustomerPoints(r)
  PROVE  LET k == req[r].by  p == req[r].point IN
         /\ Others(r) /\ pc[r] = "credit" /\ Ended(r)
         /\ UNCHANGED <<point, joined, recorded, bought, chain, sent>>
         /\ \/ /\ balance' = [balance EXCEPT ![<<k, p>>] = Credited(r)]
               /\ UNCHANGED <<lost, moved>>
            \/ Loses(p) /\ UNCHANGED balance
<1>1. faults' <= faults /\ faults' \in Nat /\ UNCHANGED <<wallet, polite, admin>>
  BY RaisesLowers DEF UpsertCustomerPoints
<1> QED BY <1>1, FinishOthers DEF UpsertCustomerPoints, Others, Kept, Lose, Loses

\* A purchase starts with a balance that is enough.
LEMMA ValidateEffect ==
  ASSUME TypeOK, NEW r \in Requests, ValidateCustomerBalance(r)
  PROVE  /\ Others(r) /\ pc[r] = "idle" /\ pc'[r] = "pay"
         /\ UNCHANGED <<books, chain, history, bounds>>
         /\ \E k \in Customers :
              /\ balance[<<k, Old>>] # None /\ balance[<<k, Old>>] >= 1 /\ Alone(k)
              /\ req'[r] = [by |-> k, point |-> Old]
<1>1. PICK k \in Customers :
        /\ balance[<<k, Old>>] # None /\ balance[<<k, Old>>] >= 1 /\ Alone(k)
        /\ req' = [req EXCEPT ![r] = [by |-> k, point |-> Old]]
        /\ pc' = [pc EXCEPT ![r] = "pay"]
  BY DEF ValidateCustomerBalance
<1>2. Others(r)
  <2>1. UNCHANGED bounds /\ "pay" \in Busy
    BY DEF ValidateCustomerBalance, Busy, Spending
  <2> QED BY <1>1, <2>1, StartOthers
<1>3. req'[r] = [by |-> k, point |-> Old] /\ pc'[r] = "pay"
  BY <1>1 DEF TypeOK
<1> QED BY <1>1, <1>2, <1>3 DEF ValidateCustomerBalance

Spent(k) ==
  /\ coins[<<k, ListingToken>>] >= 1
  /\ coins' = [coins EXCEPT ![<<k, ListingToken>>] = @ - 1]
  /\ till' = [till EXCEPT ![ListingToken] = @ + 1]
  /\ UNCHANGED <<contract, sent>>

\* The purchase takes a point from the customer, or fails.
LEMMA PayEffect ==
  ASSUME TypeOK, NEW r \in Requests, Pay(r)
  PROVE  /\ Others(r) /\ pc[r] = "pay" /\ UNCHANGED books
         /\ \/ /\ point[Old].addr = ListingToken /\ Spent(req[r].by)
               /\ Onward(r, "debit") /\ UNCHANGED <<lost, moved>>
            \/ Ended(r) /\ UNCHANGED <<chain, history>>
            \/ Ended(r) /\ Spent(req[r].by) /\ Loses(Old)
<1>1. faults' <= faults /\ faults' \in Nat /\ UNCHANGED <<wallet, polite, admin>>
  BY RaisesLowers DEF Pay
<1>2. "debit" \in Busy
  BY DEF Busy, Spending
<1>3. Paid(r) => Spent(req[r].by)
  BY DEF Paid, Spent
<1> QED BY <1>1, <1>2, <1>3, GotoOthers, FinishOthers
        DEF Pay, Others, Kept, Lose, Loses, chain, history

\* The balance is lowered, where there is one, and the payment recorded.
LEMMA DebitEffect ==
  ASSUME TypeOK, NEW r \in Requests, Debit(r)
  PROVE  LET k == req[r].by IN
         /\ Others(r) /\ pc[r] = "debit" /\ Ended(r)
         /\ UNCHANGED <<point, joined, recorded, chain, sent>>
         /\ \/ /\ balance[<<k, Old>>] # None /\ UNCHANGED <<lost, moved>>
               /\ balance' = [balance EXCEPT ![<<k, Old>>] = @ - 1] /\ bought' = bought + 1
            \/ balance[<<k, Old>>] = None /\ UNCHANGED <<balance, bought, lost, moved>>
            \/ Loses(Old) /\ UNCHANGED <<balance, bought>>
<1>1. faults' <= faults /\ faults' \in Nat /\ UNCHANGED <<wallet, polite, admin>>
  BY RaisesLowers DEF Debit
<1> QED BY <1>1, FinishOthers DEF Debit, Others, Kept, Lose, Loses

\* A new kind of points has foreseen its address.
LEMMA CreateEffect ==
  ASSUME TypeOK, NEW r \in Requests, CreatePoint(r)
  PROVE  /\ Others(r) /\ pc[r] = "idle" /\ pc'[r] = "deploy"
         /\ UNCHANGED <<books, chain, history, bounds>>
         /\ polite => ~Deploys
         /\ \E h \in Lives : /\ Window(h) <= MaxWindow
                             /\ req'[r] = [life |-> h, addr |-> NextAddress]
<1>1. PICK h \in Lives : /\ Window(h) <= MaxWindow
                         /\ req' = [req EXCEPT ![r] = [life |-> h, addr |-> NextAddress]]
  BY DEF CreatePoint
<1>2. Others(r)
  <2>1. UNCHANGED bounds /\ pc' = [pc EXCEPT ![r] = "deploy"] /\ "deploy" \in Busy
    BY DEF CreatePoint, Busy, Creating
  <2> QED BY <1>1, <2>1, StartOthers
<1>3. req'[r] = [life |-> h, addr |-> NextAddress] /\ pc'[r] = "deploy"
  BY <1>1 DEF TypeOK, CreatePoint
<1> QED BY <1>1, <1>2, <1>3 DEF CreatePoint

\* The contract is deployed, whether or not the answer comes.
LEMMA DeployEffect ==
  ASSUME TypeOK, NEW r \in Requests, Deploy(r)
  PROVE  /\ Others(r) /\ pc[r] = "deploy" /\ UNCHANGED <<books, history>>
         /\ \/ Deployed(r) /\ Onward(r, "insert")
            \/ Deployed(r) /\ Ended(r)
            \/ UNCHANGED chain /\ Ended(r)
<1>1. faults' <= faults /\ faults' \in Nat /\ UNCHANGED <<wallet, polite, admin>>
  BY RaisesLowers DEF Deploy
<1>2. "insert" \in Busy
  BY DEF Busy, Creating
<1> QED BY <1>1, <1>2, GotoOthers, FinishOthers DEF Deploy, Others

\* The row names the address that was foreseen.
LEMMA InsertEffect ==
  ASSUME TypeOK, NEW r \in Requests, InsertPoint(r)
  PROVE  /\ Others(r) /\ pc[r] = "insert" /\ Ended(r)
         /\ UNCHANGED <<balance, joined, recorded, bought, chain, history>>
         /\ \/ /\ point'[r] = [addr |-> req[r].addr] /\ r \in Points
               /\ \A p \in Points \ {r} : point'[p] = point[p]
               /\ point' = [p \in Points |-> point'[p]]
            \/ UNCHANGED point
<1>1. faults' <= faults /\ faults' \in Nat /\ UNCHANGED <<wallet, polite, admin>>
  BY RaisesLowers DEF InsertPoint
<1>2. CASE point' = [point EXCEPT ![r].addr = req[r].addr]
  <2>1. r \in Points /\ point[r] \in [addr : Addresses \cup {0}]
    BY DEF TypeOK, Points
  <2>2. point'[r] = [addr |-> req[r].addr]
    BY <1>2, <2>1, Zenon DEF TypeOK
  <2>3. /\ \A p \in Points \ {r} : point'[p] = point[p]
        /\ point' = [p \in Points |-> point'[p]]
    BY <1>2, Zenon DEF TypeOK
  <2> QED BY <1>1, <2>1, <2>2, <2>3, FinishOthers DEF InsertPoint, Others
<1> QED BY <1>1, <1>2, FinishOthers DEF InsertPoint, Others

\* The operator, and the merchant who deletes, leave the requests alone.
Operated ==
  /\ UNCHANGED <<chain, requests, sent, lost, wallet, polite, faults>>
  /\ admin' \in Nat
  /\ polite => \A r \in Requests : pc[r] \notin Busy

Deleted(p) ==
  /\ p \in Stored /\ point'[p] = NoPoint
  /\ \A q \in Points \ {p} : point'[q] = point[q]
  /\ point' = [q \in Points |-> point'[q]]
  /\ balance' = [a \in Accounts |-> IF a[2] = p THEN None ELSE balance[a]]
  /\ recorded' = [a \in Accounts |-> IF a[2] = p THEN 0 ELSE recorded[a]]
  /\ bought' = IF p = Old THEN 0 ELSE bought
  /\ UNCHANGED <<joined, moved>>

Redirected(p) ==
  /\ p \in Stored
  /\ \E a \in Used : point'[p] = [addr |-> a] /\ moved' = moved \cup {p, contract[a].of}
  /\ \A q \in Points \ {p} : point'[q] = point[q]
  /\ point' = [q \in Points |-> point'[q]]
  /\ UNCHANGED <<balance, joined, recorded, bought>>

Reset ==
  /\ balance' = [a \in Accounts |-> IF balance[a] = None THEN None ELSE 0]
  /\ moved' = Points
  /\ UNCHANGED <<point, joined, recorded, bought>>

\* Steps of activations use up the bounds.
Elsewhere ==
  /\ UNCHANGED <<books, chain, requests, history, wallet, polite>>
  /\ faults' \in Nat /\ faults' <= faults /\ admin' \in Nat

\* An operation uses up one of the operator's.
LEMMA OperationEffect == ASSUME TypeOK, Operation PROVE Operated
  BY DEF TypeOK, Operation, Operated

\* What deleting a kind of points does.
LEMMA DeleteEffect ==
  ASSUME TypeOK, NEW p \in Points, DeletePoint(p)
  PROVE  Operated /\ Deleted(p)
<1>1. Operated
  BY OperationEffect DEF DeletePoint
<1>2. /\ point'[p] = NoPoint /\ \A q \in Points \ {p} : point'[q] = point[q]
      /\ point' = [q \in Points |-> point'[q]] /\ p \in Stored
  BY DEF DeletePoint, TypeOK, Stored
<1> QED BY <1>1, <1>2 DEF DeletePoint, Deleted

\* What naming another contract does.
LEMMA UpdateEffect ==
  ASSUME TypeOK, NEW p \in Points, UpdatePointContractAddress(p)
  PROVE  Operated /\ Redirected(p)
<1>1. Operated
  BY OperationEffect DEF UpdatePointContractAddress
<1>2. PICK a \in Addresses :
        /\ contract[a] # NoContract
        /\ point' = [point EXCEPT ![p].addr = a]
        /\ moved' = moved \cup {p, contract[a].of}
  BY DEF UpdatePointContractAddress, UpdatePoint
<1>3. point[p] \in [addr : Addresses \cup {0}]
  BY DEF TypeOK
<1>4. point'[p] = [addr |-> a]
  BY <1>2, <1>3, Zenon DEF TypeOK
<1>5. /\ \A q \in Points \ {p} : point'[q] = point[q]
      /\ point' = [q \in Points |-> point'[q]]
  BY <1>2, Zenon DEF TypeOK
<1>6. p \in Stored /\ UNCHANGED <<balance, joined, recorded, bought>>
  BY DEF UpdatePointContractAddress, UpdatePoint, Stored
<1> QED BY <1>1, <1>2, <1>4, <1>5, <1>6 DEF Redirected, Used

\* What resetting the balances does.
LEMMA ResetEffect ==
  ASSUME TypeOK, ResetCustomerPointBalances
  PROVE  Operated /\ Reset
  BY OperationEffect DEF ResetCustomerPointBalances, Reset

RequestStep(r) == Give(r) \/ Spend(r) \/ Create(r)
OperatorStep == Operated /\ (Reset \/ \E p \in Points : Deleted(p) \/ Redirected(p))

\* All that happens to points.
LEMMA MarketSteps ==
  ASSUME TypeOK, [MarketNext]_allVars
  PROVE  (\E r \in Requests : RequestStep(r)) \/ OperatorStep \/ Elsewhere
<1>1. CASE UNCHANGED allVars
  BY <1>1 DEF allVars, vars, bounds, Elsewhere, TypeOK
<1>2. CASE Next
  BY <1>2, DeleteEffect, UpdateEffect, ResetEffect DEF Next, RequestStep, OperatorStep
<1>3. CASE PointStep
  <2>1. CASE DeleteVoucher
    <3>1. Operated
      BY <2>1, OperationEffect DEF DeleteVoucher
    <3> QED BY <2>1, <3>1
            DEF DeleteVoucher, Operated, Elsewhere, books, history, TypeOK
  <2>2. ASSUME NEW r \in Requests, Create(r) PROVE RequestStep(r)
    BY <2>2 DEF RequestStep
  <2>3. ASSUME NEW p \in Points, DeletePoint(p) \/ UpdatePointContractAddress(p)
        PROVE  OperatorStep
    BY <2>3, DeleteEffect, UpdateEffect DEF OperatorStep
  <2> QED BY <1>3, <2>1, <2>2, <2>3 DEF PointStep
<1>4. ASSUME NEW a \in Activations, ActivationStep(a) PROVE Elsewhere
  <2>1. UNCHANGED bounds \/ Raises
    BY <1>4 DEF ActivationStep, Activate, FetchCodes, ListCoupon, Persist
  <2>2. UNCHANGED <<wallet, polite, admin>> /\ faults' \in Nat /\ faults' <= faults
    BY <2>1, RaisesLowers
  <2> QED BY <1>4, <2>2 DEF ActivationStep, Elsewhere, TypeOK
<1> QED BY <1>1, <1>2, <1>3, <1>4 DEF MarketNext

(***************************************************************************)
(* Counting the requests at a place.                                       *)
(***************************************************************************)
\* Counts of sets that differ in one member at most.
LEMMA OneMoves ==
  ASSUME NEW S, NEW T, IsFiniteSet(S), IsFiniteSet(T), NEW r, S \ {r} = T \ {r}
  PROVE  /\ Cardinality(S) \in Nat /\ Cardinality(T) \in Nat
         /\ r \in S /\ r \notin T => Cardinality(S) = Cardinality(T) + 1
         /\ r \notin S /\ r \in T => Cardinality(T) = Cardinality(S) + 1
         /\ (r \in S <=> r \in T) => Cardinality(T) = Cardinality(S)
<1>1. /\ Cardinality(S) \in Nat /\ Cardinality(T) \in Nat
      /\ Cardinality(S \ {r}) = IF r \in S THEN Cardinality(S) - 1 ELSE Cardinality(S)
      /\ Cardinality(T \ {r}) = IF r \in T THEN Cardinality(T) - 1 ELSE Cardinality(T)
  BY FS_CardinalityType, FS_RemoveElement
<1> QED BY <1>1


\* A count of requests changes by the one that moves.
LEMMA AtMoves ==
  ASSUME NEW r \in Requests, Others(r), NEW places, NEW k, NEW p
  PROVE  LET here  == pc[r] \in places /\ req[r].by = k /\ req[r].point = p
             there == pc'[r] \in places /\ req'[r].by = k /\ req'[r].point = p
         IN /\ At(places, k, p) \in Nat /\ At(places, k, p)' \in Nat
            /\ here /\ ~there => At(places, k, p) = At(places, k, p)' + 1
            /\ ~here /\ there => At(places, k, p)' = At(places, k, p) + 1
            /\ (here <=> there) => At(places, k, p)' = At(places, k, p)
<1> DEFINE S == {q \in Requests : pc[q] \in places /\ req[q].by = k /\ req[q].point = p}
           T == {q \in Requests : pc'[q] \in places /\ req'[q].by = k /\ req'[q].point = p}
<1>1. At(places, k, p) = Cardinality(S) /\ At(places, k, p)' = Cardinality(T)
  BY DEF At
<1>2. IsFiniteSet(S) /\ IsFiniteSet(T)
  BY Finite, FS_Subset
<1>3. S \ {r} = T \ {r}
  BY DEF Others
<1>4. /\ r \in S <=> pc[r] \in places /\ req[r].by = k /\ req[r].point = p
      /\ r \in T <=> pc'[r] \in places /\ req'[r].by = k /\ req'[r].point = p
  OBVIOUS
<1> HIDE DEF S, T
<1> QED BY <1>1, <1>2, <1>3, <1>4, OneMoves

\* No count changes where no request moves.
LEMMA AtStays ==
  ASSUME UNCHANGED requests, NEW places, NEW k, NEW p
  PROVE  At(places, k, p)' = At(places, k, p)
  BY DEF requests, At

\* The counts are numbers.
LEMMA AtType ==
  ASSUME NEW places, NEW k, NEW p
  PROVE  At(places, k, p) \in Nat
<1> DEFINE S == {q \in Requests : pc[q] \in places /\ req[q].by = k /\ req[q].point = p}
<1>1. IsFiniteSet(S)
  BY Finite, FS_Subset
<1> QED BY <1>1, FS_CardinalityType DEF At

(***************************************************************************)
(* Types.                                                                  *)
(***************************************************************************)
\* What a request knows fits its place.
FitsPlace(r) ==
  /\ req[r] \in Gifts \cup Purchases \cup Creations \cup {None}
  /\ pc[r] \in Giving => req[r] \in Gifts
  /\ pc[r] \in Spending => req[r] \in Purchases
  /\ pc[r] \in Creating => req[r] \in Creations
  /\ pc[r] \notin Busy => req[r] = None

TablesOK ==
  /\ point \in [Points -> [addr : Addresses \cup {0}]]
  /\ balance \in [Accounts -> Int \cup {None}]
  /\ joined \in [Customers -> Nat]
  /\ recorded \in [Accounts -> Nat] /\ bought \in Nat
  /\ wallet \in {"set", "none", "unreadable", "foreign"}
  /\ contract \in [Addresses -> Contracts \cup {NoContract}]
  /\ till \in [Addresses -> Nat]
  /\ coins \in [Customers \X Addresses -> Nat]
  /\ sent \in [Accounts -> Nat] /\ lost \subseteq Points /\ moved \subseteq Points
  /\ polite \in BOOLEAN /\ faults \in Nat /\ admin \in Nat

RequestsOK ==
  /\ pc \in [Requests -> Busy \cup {"idle", "over"}]
  /\ req = [q \in Requests |-> req[q]]
  /\ \A r \in Requests : FitsPlace(r)

\* The types of tables and of requests.
LEMMA ShapeParts == TypeOK <=> TablesOK /\ RequestsOK
<1>1. TypeOK => TablesOK
  BY DEF TypeOK, TablesOK
<1>2. TypeOK => RequestsOK
  BY DEF TypeOK, RequestsOK, FitsPlace
<1>3. ASSUME TablesOK, RequestsOK PROVE TypeOK
  <2>1. req \in [Requests -> Gifts \cup Purchases \cup Creations \cup {None}]
    BY <1>3 DEF RequestsOK, FitsPlace
  <2>2. \A r \in Requests : /\ pc[r] \in Giving => req[r] \in Gifts
                            /\ pc[r] \in Spending => req[r] \in Purchases
                            /\ pc[r] \in Creating => req[r] \in Creations
                            /\ pc[r] \notin Busy => req[r] = None
    BY <1>3 DEF RequestsOK, FitsPlace
  <2> QED BY <1>3, <2>1, <2>2 DEF TypeOK, TablesOK, RequestsOK
<1> QED BY <1>1, <1>2, <1>3

\* Requests that do not move keep their types.
LEMMA ShapeStep ==
  ASSUME TypeOK, NEW r \in Requests, Others(r), TablesOK', FitsPlace(r)'
  PROVE  TypeOK'
<1>1. RequestsOK'
  BY ShapeParts DEF Others, RequestsOK, FitsPlace
<1>2. (TablesOK /\ RequestsOK => TypeOK)'
  BY ShapeParts, PTL
<1> QED BY <1>1, <1>2

\* The fields of a request, by its place.
LEMMA Fields ==
  ASSUME TypeOK, NEW r \in Requests
  PROVE  /\ pc[r] \in Giving =>
              /\ req[r].by \in Customers /\ req[r].point \in Points
              /\ req[r].addr \in Addresses /\ req[r].seen \in Int \cup {None}
         /\ pc[r] \in Spending =>
              req[r].by \in Customers /\ req[r].point = Old /\ Old \in Points
         /\ pc[r] \in Creating => req[r].life \in Lives /\ req[r].addr \in Addresses
         /\ r \in Points
  BY DEF TypeOK, Gifts, Purchases, Creations, Points

\* A request that ended has nothing left of its types.
LEMMA EndFits == ASSUME NEW r \in Requests, Ended(r) PROVE FitsPlace(r)'
  BY DEF Ended, FitsPlace, Giving, Spending, Creating, Busy

\* A request that goes on keeps what it has read.
LEMMA OnwardFits ==
  ASSUME TypeOK, NEW r \in Requests, NEW place \in Busy, Onward(r, place),
         \/ pc[r] \in Giving /\ place \in Giving
         \/ pc[r] \in Spending /\ place \in Spending
         \/ pc[r] \in Creating /\ place \in Creating
  PROVE  FitsPlace(r)'
<1>1. FitsPlace(r)
  BY ShapeParts DEF RequestsOK
<1> QED BY <1>1 DEF Onward, FitsPlace, Giving, Spending, Creating, Busy

\* Addresses are the first numbers, and there is one.
LEMMA SomeAddresses ==
  /\ IsFiniteSet(Points) /\ Cardinality(Points) \in Nat /\ Cardinality(Points) >= 1
  /\ Addresses = 1 .. Cardinality(Points) /\ 1 \in Addresses
  /\ IsFiniteSet(Addresses) /\ Addresses \subseteq Nat
<1>1. IsFiniteSet(Points)
  BY Finite, FS_AddElement DEF Points
<1>2. Cardinality(Points) \in Nat /\ Cardinality(Points) # 0
  BY <1>1, FS_CardinalityType, FS_EmptySet DEF Points
<1>3. IsFiniteSet(1 .. Cardinality(Points))
  BY <1>2, FS_Interval
<1> QED BY <1>1, <1>2, <1>3 DEF Addresses

\* There is an address for whoever has not deployed.
LEMMA RoomLeft ==
  ASSUME TypeOK, ContractInv, NEW r \in Requests, pc[r] \notin {"insert", "over"}
  PROVE  /\ NextAddress \in Addresses /\ NextAddress \notin Used
         /\ NextAddress = Cardinality(Used) + 1 /\ Cardinality(Used) \in Nat
         /\ Used = 1 .. Cardinality(Used) /\ NextAddress # 1
<1> DEFINE P == Points \ {r}  f == [a \in Used |-> contract[a].of]
<1>1. IsFiniteSet(P) /\ Cardinality(P) = Cardinality(Points) - 1
  BY SomeAddresses, FS_RemoveElement DEF Points
<1>2. \A a \in Used : contract[a].of \in P
  BY Distinct DEF ContractInv, Points
<1>3. f \in Injection(Used, P)
  BY <1>2 DEF ContractInv, Injection, IsInjective
<1>4. IsFiniteSet(Used) /\ Cardinality(Used) <= Cardinality(P)
  BY <1>1, <1>3, FS_Injection
<1>5. Cardinality(Used) \in Nat
  BY <1>4, FS_CardinalityType
<1>6. NextAddress = Cardinality(Used) + 1
  BY DEF NextAddress, Used
<1>7. Used = 1 .. Cardinality(Used) /\ 1 \in Used
  BY DEF ContractInv
<1> QED BY <1>1, <1>4, <1>5, <1>6, <1>7, SomeAddresses

\* A row has an address, and no row has none.
LEMMA RowOfPoint ==
  ASSUME TypeOK, NEW p \in Points
  PROVE  /\ p \in Stored => point[p].addr \in Addresses
         /\ p \notin Stored => point[p].addr = 0 /\ point[p] = NoPoint
<1>1. point[p] \in [addr : Addresses \cup {0}]
  BY DEF TypeOK
<1>2. point[p] = [addr |-> point[p].addr]
  BY <1>1
<1>3. CASE point[p].addr = 0
  BY <1>2, <1>3 DEF Stored, NoPoint
<1> QED BY <1>1, <1>2, <1>3 DEF Stored, NoPoint

\* A contract is of the request that deploys it.
LEMMA NewContract ==
  ASSUME NEW r \in Requests, NEW h \in Nat
  PROVE  /\ Deployment(r, h) # NoContract
         /\ Deployment(r, h).of = r
<1>1. Deployment(r, h).of = r
  BY DEF Deployment
<1> QED BY <1>1, Distinct DEF NoContract

\* The types, whoever steps.
LEMMA GiveShape ==
  ASSUME TypeOK, NEW r \in Requests, Give(r)
  PROVE  TypeOK'
<1>1. TablesOK
  BY ShapeParts
<1> DEFINE k == req[r].by  p == req[r].point
<1>2. CASE B2C(r)
  <2>1. Others(r) /\ B2CStarts(r) /\ UNCHANGED <<books, chain, history, bounds>>
    BY <1>2, B2CEffect
  <2>2. TablesOK'
    BY <1>1, <2>1 DEF TablesOK, books, chain, history, bounds
  <2>3. PICK j \in Customers, o \in Points :
          /\ o \in Stored /\ (pc'[r] = "associate" \/ pc'[r] = "read")
          /\ req'[r] = [by |-> j, point |-> o, seen |-> None, addr |-> point[o].addr]
    BY <2>1 DEF B2CStarts
  <2>4. point[o].addr \in Addresses
    BY <2>3, RowOfPoint
  <2>5. FitsPlace(r)'
    BY <2>3, <2>4 DEF FitsPlace, Gifts, Giving, Spending, Creating, Busy
  <2> QED BY <2>1, <2>2, <2>5, ShapeStep
<1>3. CASE Associate(r)
  <2>1. /\ Others(r) /\ pc[r] = "associate" /\ (Onward(r, "read") \/ Ended(r))
        /\ UNCHANGED <<point, balance, recorded, bought, chain, history>>
        /\ joined' = [joined EXCEPT ![req[r].by] = @ + 1] \/ joined' = joined
    BY <1>3, AssociateEffect
  <2>2. TablesOK'
    BY <1>1, <2>1 DEF TablesOK, chain, history, Others
  <2>3. FitsPlace(r)'
    BY <2>1, EndFits, OnwardFits DEF Giving, Busy
  <2> QED BY <2>1, <2>2, <2>3, ShapeStep
<1>4. CASE ReadCustomer(r)
  <2>1. /\ Others(r) /\ pc[r] = "read" /\ UNCHANGED <<books, chain, history, bounds>>
        /\ \/ /\ pc'[r] = "check"
              /\ req'[r] = [by |-> k, point |-> p, seen |-> balance[<<k, p>>],
                            addr |-> req[r].addr]
           \/ Ended(r)
    BY <1>4, ReadEffect
  <2>2. TablesOK'
    BY <1>1, <2>1 DEF TablesOK, books, chain, history, bounds
  <2>3. k \in Customers /\ p \in Points /\ req[r].addr \in Addresses
    BY <2>1, Fields DEF Giving
  <2>4. balance[<<k, p>>] \in Int \cup {None}
    BY <1>1, <2>3 DEF TablesOK, Accounts
  <2>5. FitsPlace(r)'
    BY <2>1, <2>3, <2>4, EndFits DEF FitsPlace, Gifts, Giving, Spending, Creating, Busy
  <2> QED BY <2>1, <2>2, <2>5, ShapeStep
<1>5. CASE CheckBalance(r)
  <2>1. /\ Others(r) /\ pc[r] = "check" /\ UNCHANGED <<books, chain, history>>
        /\ Onward(r, "send") \/ Ended(r)
    BY <1>5, CheckEffect
  <2>2. TablesOK'
    BY <1>1, <2>1 DEF TablesOK, books, chain, history, Others
  <2>3. FitsPlace(r)'
    BY <2>1, EndFits, OnwardFits DEF Giving, Busy
  <2> QED BY <2>1, <2>2, <2>3, ShapeStep
<1>6. CASE Transfer(r)
  <2>1. /\ Others(r) /\ pc[r] = "send" /\ UNCHANGED books
        /\ Onward(r, "record") \/ Ended(r)
        /\ Moved(r) \/ UNCHANGED <<chain, sent>>
        /\ UNCHANGED <<lost, moved>> \/ Loses(p)
    BY <1>6, TransferEffect DEF history
  <2>2. k \in Customers /\ p \in Points /\ req[r].addr \in Addresses
    BY <2>1, Fields DEF Giving
  <2>3. till' \in [Addresses -> Nat] /\ coins' \in [Customers \X Addresses -> Nat]
        /\ sent' \in [Accounts -> Nat] /\ contract' = contract
    <3>1. CASE Moved(r)
      BY <1>1, <2>2, <3>1 DEF Moved, TablesOK, Accounts
    <3>2. CASE UNCHANGED <<chain, sent>>
      BY <1>1, <3>2 DEF chain, TablesOK
    <3> QED BY <2>1, <3>1, <3>2
  <2>4. TablesOK'
    BY <1>1, <2>1, <2>2, <2>3 DEF TablesOK, books, Others, Loses
  <2>5. FitsPlace(r)'
    BY <2>1, EndFits, OnwardFits DEF Giving, Busy
  <2> QED BY <2>1, <2>4, <2>5, ShapeStep
<1>7. CASE CreateTransaction(r)
  <2>1. /\ Others(r) /\ pc[r] = "record" /\ UNCHANGED <<point, balance, joined, bought, chain, sent>>
        /\ Onward(r, "credit") \/ Ended(r)
        /\ recorded' = [recorded EXCEPT ![<<k, p>>] = @ + 1] \/ recorded' = recorded
        /\ UNCHANGED <<lost, moved>> \/ Loses(p)
    BY <1>7, RecordEffect
  <2>2. k \in Customers /\ p \in Points
    BY <2>1, Fields DEF Giving
  <2>5. recorded' \in [Accounts -> Nat]
    <3>1. <<k, p>> \in Accounts
      BY <2>2 DEF Accounts
    <3>2. recorded \in [Accounts -> Nat] /\ recorded[<<k, p>>] + 1 \in Nat
      BY <1>1, <3>1 DEF TablesOK
    <3> QED BY <2>1, <3>1, <3>2
  <2>3. TablesOK'
    BY <1>1, <2>1, <2>2, <2>5 DEF TablesOK, chain, Others, Loses
  <2>4. FitsPlace(r)'
    BY <2>1, EndFits, OnwardFits DEF Giving, Busy
  <2> QED BY <2>1, <2>3, <2>4, ShapeStep
<1>8. CASE UpsertCustomerPoints(r)
  <2>1. /\ Others(r) /\ pc[r] = "credit" /\ Ended(r)
        /\ UNCHANGED <<point, joined, recorded, bought, chain, sent>>
        /\ balance' = [balance EXCEPT ![<<k, p>>] = Credited(r)] \/ balance' = balance
        /\ UNCHANGED <<lost, moved>> \/ Loses(p)
    BY <1>8, CreditEffect
  <2>2. k \in Customers /\ p \in Points /\ req[r].seen \in Int \cup {None}
    BY <2>1, Fields DEF Giving
  <2>3. Credited(r) \in Int \cup {None}
    BY <1>1, <2>2 DEF Credited, TablesOK, Accounts
  <2>4. balance' \in [Accounts -> Int \cup {None}]
    BY <1>1, <2>1, <2>3 DEF TablesOK
  <2>5. TablesOK'
    BY <1>1, <2>1, <2>2, <2>4 DEF TablesOK, chain, Others, Loses
  <2> QED BY <2>1, <2>5, EndFits, ShapeStep
<1> QED BY <1>2, <1>3, <1>4, <1>5, <1>6, <1>7, <1>8 DEF Give

\* Purchases keep the types.
LEMMA SpendShape ==
  ASSUME TypeOK, NEW r \in Requests, Spend(r)
  PROVE  TypeOK'
<1>1. TablesOK
  BY ShapeParts
<1> DEFINE k == req[r].by
<1>2. CASE ValidateCustomerBalance(r)
  <2>1. Others(r) /\ pc'[r] = "pay" /\ UNCHANGED <<books, chain, history, bounds>>
    BY <1>2, ValidateEffect
  <2>2. PICK j \in Customers : req'[r] = [by |-> j, point |-> Old]
    BY <1>2, ValidateEffect
  <2>3. TablesOK'
    BY <1>1, <2>1 DEF TablesOK, books, chain, history, bounds
  <2>4. FitsPlace(r)'
    BY <2>1, <2>2 DEF FitsPlace, Purchases, Giving, Spending, Creating, Busy
  <2> QED BY <2>1, <2>3, <2>4, ShapeStep
<1>3. CASE Pay(r)
  <2>1. /\ Others(r) /\ pc[r] = "pay" /\ UNCHANGED books
        /\ Onward(r, "debit") \/ Ended(r)
        /\ Spent(k) \/ UNCHANGED <<chain, sent>>
        /\ UNCHANGED <<lost, moved>> \/ Loses(Old)
    BY <1>3, PayEffect DEF history
  <2>2. Old \in Points /\ k \in Customers
    BY <2>1, Fields DEF Spending
  <2>3. till' \in [Addresses -> Nat] /\ coins' \in [Customers \X Addresses -> Nat]
        /\ sent' \in [Accounts -> Nat] /\ contract' = contract
    <3>1. CASE Spent(k)
      BY <1>1, <2>2, <3>1, SomeAddresses DEF Spent, TablesOK, ListingToken
    <3>2. CASE UNCHANGED <<chain, sent>>
      BY <1>1, <3>2 DEF chain, TablesOK
    <3> QED BY <2>1, <3>1, <3>2
  <2>4. TablesOK'
    BY <1>1, <2>1, <2>2, <2>3 DEF TablesOK, books, Others, Loses
  <2>5. FitsPlace(r)'
    BY <2>1, EndFits, OnwardFits DEF Spending, Busy
  <2> QED BY <2>1, <2>4, <2>5, ShapeStep
<1>4. CASE Debit(r)
  <2>1. /\ Others(r) /\ pc[r] = "debit" /\ Ended(r)
        /\ UNCHANGED <<point, joined, recorded, chain, sent>>
        /\ bought' = bought + 1 \/ bought' = bought
        /\ \/ balance[<<k, Old>>] # None /\ balance' = [balance EXCEPT ![<<k, Old>>] = @ - 1]
           \/ balance' = balance
        /\ UNCHANGED <<lost, moved>> \/ Loses(Old)
    BY <1>4, DebitEffect
  <2>2. k \in Customers /\ Old \in Points
    BY <2>1, Fields DEF Spending
  <2>3. balance' \in [Accounts -> Int \cup {None}]
    <3>1. <<k, Old>> \in Accounts
      BY <2>2 DEF Accounts
    <3>2. balance[<<k, Old>>] # None => balance[<<k, Old>>] - 1 \in Int
      BY <1>1, <3>1 DEF TablesOK
    <3> QED BY <1>1, <2>1, <3>1, <3>2 DEF TablesOK
  <2>5. bought' \in Nat
    BY <1>1, <2>1 DEF TablesOK
  <2>4. TablesOK'
    BY <1>1, <2>1, <2>2, <2>3, <2>5 DEF TablesOK, chain, Others, Loses
  <2> QED BY <2>1, <2>4, EndFits, ShapeStep
<1> QED BY <1>2, <1>3, <1>4 DEF Spend

\* So do new kinds of points.
LEMMA CreateShape ==
  ASSUME TypeOK, ContractInv, NEW r \in Requests, Create(r)
  PROVE  TypeOK'
<1>1. TablesOK
  BY ShapeParts
<1>2. CASE CreatePoint(r)
  <2>1. /\ Others(r) /\ pc[r] = "idle" /\ pc'[r] = "deploy"
        /\ UNCHANGED <<books, chain, history, bounds>>
    BY <1>2, CreateEffect
  <2>2. PICK h \in Lives : req'[r] = [life |-> h, addr |-> NextAddress]
    BY <1>2, CreateEffect
  <2>3. NextAddress \in Addresses
    BY <2>1, RoomLeft
  <2>4. TablesOK'
    BY <1>1, <2>1 DEF TablesOK, books, chain, history, bounds
  <2>5. FitsPlace(r)'
    BY <2>1, <2>2, <2>3 DEF FitsPlace, Creations, Giving, Spending, Creating, Busy
  <2> QED BY <2>1, <2>4, <2>5, ShapeStep
<1>3. CASE Deploy(r)
  <2>1. /\ Others(r) /\ pc[r] = "deploy" /\ UNCHANGED <<books, history>>
        /\ Onward(r, "insert") \/ Ended(r)
        /\ Deployed(r) \/ UNCHANGED chain
    BY <1>3, DeployEffect
  <2>2. req[r].life \in Nat
    BY <2>1, Fields, Future DEF Creating
  <2>3. Deployment(r, req[r].life) \in Contracts
    <3>1. Epoch(req[r].life) \in {1, 12, 24, 72, 168}
      BY DEF Epoch
    <3>2. Window(req[r].life) \in Nat
      BY <2>2, <3>1 DEF Window
    <3> QED BY <2>2, <3>1, <3>2, Fields DEF Deployment, Contracts
  <2>4. /\ contract' \in [Addresses -> Contracts \cup {NoContract}]
        /\ till' \in [Addresses -> Nat] /\ coins' = coins
    <3>1. CASE Deployed(r)
      BY <1>1, <2>3, <3>1, Numbers DEF Deployed, TablesOK
    <3>2. CASE UNCHANGED chain
      BY <1>1, <3>2 DEF chain, TablesOK
    <3> QED BY <2>1, <3>1, <3>2
  <2>5. TablesOK'
    BY <1>1, <2>1, <2>4 DEF TablesOK, books, history, Others
  <2>6. FitsPlace(r)'
    BY <2>1, EndFits, OnwardFits DEF Creating, Busy
  <2> QED BY <2>1, <2>5, <2>6, ShapeStep
<1>4. CASE InsertPoint(r)
  <2>1. /\ Others(r) /\ pc[r] = "insert" /\ Ended(r)
        /\ UNCHANGED <<balance, joined, recorded, bought, chain, history>>
        /\ \/ /\ point'[r] = [addr |-> req[r].addr] /\ r \in Points
              /\ \A p \in Points \ {r} : point'[p] = point[p]
              /\ point' = [p \in Points |-> point'[p]]
           \/ UNCHANGED point
    BY <1>4, InsertEffect
  <2>2. req[r].addr \in Addresses
    BY <2>1, Fields DEF Creating
  <2>3. point' \in [Points -> [addr : Addresses \cup {0}]]
    BY <1>1, <2>1, <2>2 DEF TablesOK
  <2>4. TablesOK'
    BY <1>1, <2>1, <2>3 DEF TablesOK, chain, history, Others
  <2> QED BY <2>1, <2>4, EndFits, ShapeStep
<1> QED BY <1>2, <1>3, <1>4 DEF Create

\* A step that leaves the requests alone.
LEMMA ShapeStays ==
  ASSUME TypeOK, UNCHANGED requests, TablesOK' PROVE TypeOK'
<1>1. RequestsOK'
  BY ShapeParts DEF RequestsOK, FitsPlace, requests
<1>2. (TablesOK /\ RequestsOK => TypeOK)'
  BY ShapeParts, PTL
<1> QED BY <1>1, <1>2

\* So does the operator.
LEMMA OperatorShape ==
  ASSUME TypeOK, ContractInv, OperatorStep
  PROVE  TypeOK'
<1>1. TablesOK /\ Operated
  BY ShapeParts DEF OperatorStep
<1>2. CASE Reset
  <2>1. balance' \in [Accounts -> Int \cup {None}]
    BY <1>1, <1>2 DEF TablesOK, Reset
  <2>2. TablesOK'
    BY <1>1, <1>2, <2>1 DEF TablesOK, Reset, Operated, chain
  <2> QED BY <1>1, <2>2, ShapeStays DEF Operated
<1>3. ASSUME NEW p \in Points, Deleted(p) PROVE TypeOK'
  <2>1. /\ balance' \in [Accounts -> Int \cup {None}]
        /\ recorded' \in [Accounts -> Nat] /\ bought' \in Nat
    BY <1>1, <1>3 DEF TablesOK, Deleted
  <2>2. point' \in [Points -> [addr : Addresses \cup {0}]]
    BY <1>1, <1>3 DEF TablesOK, Deleted, NoPoint
  <2>3. TablesOK'
    BY <1>1, <1>3, <2>1, <2>2 DEF TablesOK, Deleted, Operated, chain
  <2> QED BY <1>1, <2>3, ShapeStays DEF Operated
<1>4. ASSUME NEW p \in Points, Redirected(p) PROVE TypeOK'
  <2>1. PICK a \in Used : point'[p] = [addr |-> a] /\ moved' = moved \cup {p, contract[a].of}
    BY <1>4 DEF Redirected
  <2>2. a \in Addresses /\ contract[a].of \in Points
    BY <2>1 DEF Used, ContractInv, Points
  <2>3. point' \in [Points -> [addr : Addresses \cup {0}]]
    BY <1>1, <1>4, <2>1, <2>2 DEF TablesOK, Redirected
  <2>4. TablesOK'
    BY <1>1, <1>4, <2>1, <2>2, <2>3 DEF TablesOK, Redirected, Operated, chain
  <2> QED BY <1>1, <2>4, ShapeStays DEF Operated
<1> QED BY <1>2, <1>3, <1>4 DEF OperatorStep

\* So do activations.
LEMMA ElsewhereShape ==
  ASSUME TypeOK, Elsewhere PROVE TypeOK'
<1>1. TablesOK'
  BY ShapeParts DEF TablesOK, Elsewhere, books, chain, history
<1> QED BY <1>1, ShapeStays DEF Elsewhere

\* Every step keeps the types.
LEMMA PointShapeStep ==
  ASSUME PointShape, ContractInv, [MarketNext]_allVars
  PROVE  PointShape'
<1>1. TypeOK
  BY DEF PointShape
<1>2. ASSUME NEW r \in Requests, RequestStep(r) PROVE TypeOK'
  BY <1>1, <1>2, GiveShape, SpendShape, CreateShape DEF RequestStep
<1>3. TypeOK'
  BY <1>1, <1>2, MarketSteps, OperatorShape, ElsewhereShape
<1>4. faults' <= faults
  <2>1. ASSUME NEW r \in Requests, RequestStep(r) PROVE faults' <= faults
    <3>1. Others(r)
      BY <1>1, <2>1, B2CEffect, AssociateEffect, ReadEffect, CheckEffect, TransferEffect,
         RecordEffect, CreditEffect, ValidateEffect, PayEffect, DebitEffect, CreateEffect,
         DeployEffect, InsertEffect DEF RequestStep, Give, Spend, Create
    <3> QED BY <3>1 DEF Others
  <2> QED BY <1>1, <2>1, MarketSteps DEF OperatorStep, Operated, Elsewhere, TypeOK
<1> QED BY <1>1, <1>3, <1>4, Numbers DEF PointShape, TypeOK

(***************************************************************************)
(* The contracts.                                                          *)
(***************************************************************************)
\* What all steps of a request have in common.
LEMMA AnyStep ==
  ASSUME TypeOK, NEW r \in Requests, RequestStep(r)
  PROVE  /\ Others(r) /\ pc[r] # "over"
         /\ pc[r] = "insert" => pc'[r] = "over"
         /\ Deploy(r) \/ contract' = contract
         /\ InsertPoint(r) \/ point' = point
<1>1. CASE Give(r)
  BY <1>1, B2CEffect, AssociateEffect, ReadEffect, CheckEffect, TransferEffect, RecordEffect,
     CreditEffect DEF Give, books, chain, Moved
<1>2. CASE Spend(r)
  BY <1>2, ValidateEffect, PayEffect, DebitEffect DEF Spend, books, chain, Spent
<1>3. CASE Create(r)
  BY <1>3, CreateEffect, DeployEffect, InsertEffect DEF Create, books, chain, Ended
<1> QED BY <1>1, <1>2, <1>3 DEF RequestStep

\* The windows of new points reach their end date.
LEMMA WindowFits ==
  ASSUME NEW r, NEW h \in Nat \ {0}, Window(h) <= MaxWindow
  PROVE  Fits(Deployment(r, h))
<1> DEFINE e == Epoch(h)  w == Window(h)
<1>1. e \in {1, 12, 24, 72, 168}
  BY DEF Epoch
<1>2. w = (h + e - 1) \div e
  BY DEF Window
<1> HIDE DEF e
<1>3. w \in Nat /\ w >= 1 /\ e * w >= h /\ e * w <= h + e - 1 /\ e * w \in Nat
  <2>1. CASE e = 1
    BY <1>2, <2>1
  <2>2. CASE e = 12
    BY <1>2, <2>2
  <2>3. CASE e = 24
    BY <1>2, <2>3
  <2>4. CASE e = 72
    BY <1>2, <2>4
  <2>5. CASE e = 168
    BY <1>2, <2>5
  <2> QED BY <1>1, <2>1, <2>2, <2>3, <2>4, <2>5
<1> HIDE DEF w
<1>4. w <= 255
  BY DEF MaxWindow, w
<1>5. Deployment(r, h) = [of |-> r, life |-> h, epoch |-> e, window |-> w]
  BY DEF Deployment, e, w
<1>6. e * w \in h .. h + e - 1 /\ w \in 1 .. 255
  BY <1>1, <1>3, <1>4
<1> QED BY <1>5, <1>6 DEF Fits, MaxWindow

\* A step that deploys nothing.
LEMMA ContractKept ==
  ASSUME TypeOK, ContractInv, NEW r \in Requests, Others(r), contract' = contract,
         pc[r] # "over", pc[r] = "insert" => pc'[r] = "over",
         pc'[r] \in Creating =>
           /\ Window(req'[r].life) <= MaxWindow
           /\ req'[r].addr \in Used \/ (pc'[r] = "deploy" /\ req'[r].addr = NextAddress)
  PROVE  ContractInv'
<1>1. Used' = Used /\ NextAddress' = NextAddress
  BY DEF Used, NextAddress
<1>2. \A q \in Requests : pc[q] \in {"insert", "over"} => pc'[q] \in {"insert", "over"}
  BY DEF Others
<1>3. /\ Used' = 1 .. Cardinality(Used)' /\ 1 \in Used' /\ contract'[1].of = Old
      /\ \A a, b \in Used' : contract'[a].of = contract'[b].of => a = b
  BY <1>1 DEF ContractInv
<1>4. \A a \in Used' : /\ contract'[a].of \in {Old} \cup
                            {q \in Requests : pc'[q] \in {"insert", "over"}}
                       /\ Fits(contract'[a])
  BY <1>1, <1>2 DEF ContractInv
<1>5. \A q \in Requests : pc'[q] \in Creating =>
        /\ Window(req'[q].life) <= MaxWindow
        /\ req'[q].addr \in Used' \/ (pc'[q] = "deploy" /\ req'[q].addr = NextAddress')
  BY <1>1 DEF ContractInv, Others
<1> QED BY <1>3, <1>4, <1>5 DEF ContractInv, Fits

\* A contract is deployed.
LEMMA ContractAdded ==
  ASSUME TypeOK, ContractInv, NEW r \in Requests, Others(r), Deployed(r),
         pc[r] = "deploy", Onward(r, "insert") \/ Ended(r)
  PROVE  /\ ContractInv' /\ Used' = Used \cup {NextAddress}
         /\ contract'[NextAddress].of = r
         /\ \A a \in Used : contract'[a] = contract[a]
<1> DEFINE n == NextAddress  new == Deployment(r, req[r].life)
<1>1. /\ n \in Addresses /\ n \notin Used /\ n = Cardinality(Used) + 1 /\ n # 1
      /\ Cardinality(Used) \in Nat /\ Used = 1 .. Cardinality(Used)
  BY RoomLeft
<1>2. req[r].life \in Nat \ {0} /\ Window(req[r].life) <= MaxWindow
  BY Fields, Future DEF ContractInv, Creating
<1>3. new # NoContract /\ new.of = r /\ Fits(new)
  BY <1>2, NewContract, WindowFits
<1>4. /\ contract'[n] = new /\ DOMAIN contract = Addresses
      /\ \A a \in Addresses \ {n} : contract'[a] = contract[a]
  BY <1>1 DEF Deployed, TypeOK
<1> HIDE DEF new
<1>5. Used' = Used \cup {n}
  BY <1>1, <1>3, <1>4 DEF Used
<1> HIDE DEF n
<1>6. Used' = 1 .. n
  BY <1>1, <1>5
<1>7. Cardinality(Used') = n
  BY <1>1, <1>6, FS_Interval
<1>8. Cardinality(Used)' = n
  BY <1>7
<1>9. \A a \in Used : a # n /\ a \in Addresses /\ contract'[a] = contract[a]
  BY <1>1, <1>4 DEF Used
<1>10. contract[1].of = Old /\ 1 \in Used
  BY DEF ContractInv
<1>11. 1 \in Used' /\ contract'[1].of = Old
  BY <1>5, <1>9, <1>10
<1>12. \A a \in Used : contract[a].of # r
  BY Distinct DEF ContractInv
<1>13. \A a, b \in Used' : contract'[a].of = contract'[b].of => a = b
  <2>1. \A a, b \in Used : contract[a].of = contract[b].of => a = b
    BY DEF ContractInv
  <2> QED BY <1>3, <1>4, <1>5, <1>9, <1>12, <2>1
<1>14. pc'[r] \in {"insert", "over"} /\ \A q \in Requests \ {r} : pc'[q] = pc[q]
  BY DEF Others, Onward, Ended
<1>15. \A a \in Used' : contract'[a].of \in {Old} \cup
                           {q \in Requests : pc'[q] \in {"insert", "over"}}
  <2>1. \A a \in Used : contract[a].of \in {Old} \cup
                           {q \in Requests : pc'[q] \in {"insert", "over"}}
    BY <1>14 DEF ContractInv
  <2> QED BY <1>3, <1>4, <1>5, <1>9, <1>14, <2>1
<1>16. \A a \in Used' : Fits(contract'[a])
  BY <1>3, <1>4, <1>5, <1>9 DEF ContractInv
<1>17. \A q \in Requests : pc'[q] \in Creating =>
         Window(req'[q].life) <= MaxWindow /\ req'[q].addr \in Used'
  <2>1. \A q \in Requests : pc[q] \in Creating =>
          Window(req[q].life) <= MaxWindow /\ req[q].addr \in Used \cup {n}
    BY DEF ContractInv, n
  <2>2. pc'[r] \in Creating => req'[r] = req[r]
    BY DEF Onward, Ended, Creating
  <2> QED BY <1>5, <2>1, <2>2 DEF Others, Creating
<1>18. (\A a \in Used : Fits(contract[a]))'
  BY <1>16 DEF Fits
<1>19. ContractInv'
  BY <1>6, <1>8, <1>11, <1>13, <1>15, <1>17, <1>18 DEF ContractInv
<1> QED BY <1>3, <1>4, <1>5, <1>9, <1>19 DEF n

\* A deployment takes the next address, and contracts never change.
LEMMA ContractStep ==
  ASSUME TypeOK, ContractInv, [MarketNext]_allVars
  PROVE  /\ ContractInv' /\ Used \subseteq Used'
         /\ \A a \in Used : contract'[a] = contract[a]
<1> DEFINE Goal == /\ ContractInv' /\ Used \subseteq Used'
                   /\ \A a \in Used : contract'[a] = contract[a]
<1>1. ASSUME contract' = contract, ContractInv' PROVE Goal
  BY <1>1 DEF Used
<1>2. ASSUME NEW r \in Requests, RequestStep(r) PROVE Goal
  <2>1. /\ Others(r) /\ pc[r] # "over" /\ (pc[r] = "insert" => pc'[r] = "over")
        /\ Deploy(r) \/ contract' = contract
    BY <1>2, AnyStep
  <2>2. CASE CreatePoint(r)
    <3>1. contract' = contract /\ pc[r] = "idle" /\ pc'[r] = "deploy"
      BY <2>2, CreateEffect DEF chain
    <3>2. PICK h \in Lives : /\ Window(h) <= MaxWindow
                             /\ req'[r] = [life |-> h, addr |-> NextAddress]
      BY <2>2, CreateEffect
    <3>3. req'[r].life = h /\ req'[r].addr = NextAddress
      BY <3>2
    <3> QED BY <2>1, <3>1, <3>2, <3>3, <1>1, ContractKept
  <2>3. CASE Deploy(r)
    <3>1. /\ pc[r] = "deploy"
          /\ \/ Deployed(r) /\ (Onward(r, "insert") \/ Ended(r))
             \/ contract' = contract /\ Ended(r)
      BY <2>3, DeployEffect DEF chain
    <3>2. CASE Deployed(r) /\ (Onward(r, "insert") \/ Ended(r))
      BY <2>1, <3>1, <3>2, ContractAdded
    <3>3. CASE contract' = contract /\ Ended(r)
      <4>1. pc'[r] \notin Creating
        BY <3>3 DEF Ended, Creating
      <4> QED BY <2>1, <3>3, <4>1, <1>1, ContractKept
    <3> QED BY <3>1, <3>2, <3>3
  <2>4. CASE ~CreatePoint(r) /\ ~Deploy(r)
    <3>1. pc'[r] \notin Creating
      <4>1. CASE Give(r)
        BY <4>1, B2CEffect, AssociateEffect, ReadEffect, CheckEffect, TransferEffect,
           RecordEffect, CreditEffect DEF Give, B2CStarts, Onward, Ended, Creating
      <4>2. CASE Spend(r)
        BY <4>2, ValidateEffect, PayEffect, DebitEffect DEF Spend, Onward, Ended, Creating
      <4>3. CASE InsertPoint(r)
        BY <4>3, InsertEffect DEF Ended, Creating
      <4> QED BY <1>2, <2>4, <4>1, <4>2, <4>3 DEF RequestStep, Create
    <3> QED BY <2>1, <2>4, <3>1, <1>1, ContractKept
  <2> QED BY <2>2, <2>3, <2>4
<1>3. ASSUME UNCHANGED <<contract, requests>> PROVE Goal
  <2>1. ContractInv'
    BY <1>3 DEF ContractInv, Used, NextAddress, requests, Fits
  <2> QED BY <1>1, <1>3, <2>1
<1>4. OperatorStep \/ Elsewhere => UNCHANGED <<contract, requests>>
  BY DEF OperatorStep, Operated, Elsewhere, chain
<1> QED BY <1>2, <1>3, <1>4, MarketSteps

(***************************************************************************)
(* What is known: rows, requests and balances belong to points that were   *)
(* made.                                                                   *)
(***************************************************************************)
ValidateStarts(r) ==
  \E k \in Customers :
    /\ balance[<<k, Old>>] # None /\ balance[<<k, Old>>] >= 1 /\ Alone(k)
    /\ req'[r] = [by |-> k, point |-> Old]

\* Where a request that gives or spends comes from.
LEMMA Travels ==
  ASSUME TypeOK, NEW r \in Requests, RequestStep(r)
  PROVE  /\ pc'[r] \in Giving =>
              \/ /\ pc[r] \in Giving
                 /\ req'[r].by = req[r].by /\ req'[r].point = req[r].point
                 /\ req'[r].addr = req[r].addr
              \/ B2C(r) /\ pc[r] = "idle" /\ B2CStarts(r)
         /\ pc'[r] \in Spending =>
              \/ pc[r] \in Spending /\ req'[r] = req[r]
              \/ pc[r] = "idle" /\ ValidateStarts(r)
<1> USE DEF Giving, Spending
<1>1. CASE B2C(r)
  BY <1>1, B2CEffect DEF B2CStarts
<1>2. CASE Associate(r) \/ CheckBalance(r) \/ Transfer(r) \/ CreateTransaction(r)
             \/ UpsertCustomerPoints(r)
  BY <1>2, AssociateEffect, CheckEffect, TransferEffect, RecordEffect, CreditEffect
     DEF Onward, Ended
<1>3. CASE ReadCustomer(r)
  <2>1. CASE Ended(r)
    BY <2>1 DEF Ended
  <2>2. CASE ~Ended(r)
    <3> DEFINE n == balance[<<req[r].by, req[r].point>>]
               new == [by |-> req[r].by, point |-> req[r].point, seen |-> n,
                       addr |-> req[r].addr]
    <3>1. pc[r] = "read" /\ pc'[r] = "check" /\ req'[r] = new
      BY <1>3, <2>2, ReadEffect
    <3>2. new.by = req[r].by /\ new.point = req[r].point /\ new.addr = req[r].addr
      OBVIOUS
    <3> HIDE DEF new
    <3> QED BY <3>1, <3>2
  <2> QED BY <2>1, <2>2
<1>4. CASE Spend(r)
  BY <1>4, ValidateEffect, PayEffect, DebitEffect DEF Spend, Onward, Ended, ValidateStarts
<1>5. CASE Create(r)
  BY <1>5, CreateEffect, DeployEffect, InsertEffect DEF Create, Onward, Ended
<1> QED BY <1>1, <1>2, <1>3, <1>4, <1>5 DEF RequestStep, Give

\* A point stays made.
LEMMA MadeStays ==
  ASSUME TypeOK, [MarketNext]_allVars
  PROVE  Made \subseteq Made'
<1>1. ASSUME NEW r \in Requests, RequestStep(r) PROVE Made \subseteq Made'
  BY <1>1, AnyStep DEF Made, Others
<1>2. OperatorStep \/ Elsewhere => Made' = Made
  BY DEF OperatorStep, Operated, Elsewhere, requests, Made
<1> QED BY <1>1, <1>2, MarketSteps

RowsKnown == \A p \in Stored : p \in Made /\ point[p].addr \in Used

RequestsKnown ==
  \A r \in Requests :
    /\ pc[r] \in Giving \cup Spending => req[r].point \in Made
    /\ pc[r] \in Giving => req[r].addr \in Used

AccountsKnown ==
  \A k \in Customers, p \in Points :
    /\ p \notin Stored => balance[<<k, p>>] = None /\ recorded[<<k, p>>] = 0
    /\ p \notin Made => sent[<<k, p>>] = 0

\* KnownInv, by table.
LEMMA KnownParts == KnownInv <=> RowsKnown /\ RequestsKnown /\ AccountsKnown
  BY DEF KnownInv, RowsKnown, RequestsKnown, AccountsKnown

\* A row appears by an insert, with an address in use.
LEMMA RowsStep ==
  ASSUME TypeOK, ContractInv, RowsKnown, [MarketNext]_allVars
  PROVE  RowsKnown'
<1>1. Made \subseteq Made' /\ Used \subseteq Used'
  BY MadeStays, ContractStep
<1>2. ASSUME point' = point PROVE RowsKnown'
  BY <1>1, <1>2 DEF RowsKnown, Stored
<1>3. ASSUME NEW r \in Requests, InsertPoint(r) PROVE RowsKnown'
  <2>1. /\ pc[r] = "insert" /\ Ended(r)
        /\ \/ /\ point'[r] = [addr |-> req[r].addr]
              /\ \A p \in Points \ {r} : point'[p] = point[p]
           \/ UNCHANGED point
    BY <1>3, InsertEffect
  <2>2. r \in Made' /\ req[r].addr \in Used
    BY <2>1 DEF Ended, Made, ContractInv, Creating
  <2> QED BY <1>1, <1>2, <2>1, <2>2 DEF RowsKnown, Stored
<1>4. ASSUME NEW p \in Points, Deleted(p) PROVE RowsKnown'
  BY <1>1, <1>4 DEF RowsKnown, Stored, Deleted
<1>5. ASSUME NEW p \in Points, Redirected(p) PROVE RowsKnown'
  BY <1>1, <1>5 DEF RowsKnown, Stored, Redirected
<1>6. ASSUME NEW r \in Requests, RequestStep(r) PROVE RowsKnown'
  BY <1>2, <1>3, <1>6, AnyStep
<1> QED BY <1>2, <1>4, <1>5, <1>6, MarketSteps DEF OperatorStep, Reset, Elsewhere, books

\* A request is told of a point that has a row.
LEMMA RequestsStep ==
  ASSUME TypeOK, ContractInv, RowsKnown, RequestsKnown, [MarketNext]_allVars
  PROVE  RequestsKnown'
<1>1. Made \subseteq Made' /\ Used \subseteq Used'
  BY MadeStays, ContractStep
<1>2. UNCHANGED requests => RequestsKnown'
  BY <1>1 DEF RequestsKnown, requests
<1>3. ASSUME NEW r \in Requests, RequestStep(r) PROVE RequestsKnown'
  <2>1. Others(r)
    BY <1>3, AnyStep
  <2>2. pc'[r] \in Giving => req'[r].point \in Made /\ req'[r].addr \in Used
    <3>1. CASE B2CStarts(r)
      <4>1. PICK k \in Customers, p \in Stored :
              req'[r] = [by |-> k, point |-> p, seen |-> None, addr |-> point[p].addr]
        BY <3>1 DEF B2CStarts
      <4> QED BY <4>1 DEF RowsKnown
    <3> QED BY <1>3, <3>1, Travels DEF RequestsKnown
  <2>3. pc'[r] \in Spending => req'[r].point \in Made
    <3>1. ValidateStarts(r) => req'[r].point = Old
      BY DEF ValidateStarts
    <3> QED BY <1>3, <3>1, Travels DEF RequestsKnown, Made
  <2> QED BY <1>1, <2>1, <2>2, <2>3 DEF Others, RequestsKnown
<1> QED BY <1>2, <1>3, MarketSteps DEF OperatorStep, Operated, Elsewhere

\* The credit leaves alone what has no row.
LEMMA CreditedNeedsRow ==
  ASSUME TypeOK, AccountsKnown, NEW r \in Requests, pc[r] = "credit",
         req[r].point \notin Stored
  PROVE  Credited(r) = None
<1>1. req[r].by \in Customers /\ req[r].point \in Points
  BY Fields DEF Giving
<1>2. balance[<<req[r].by, req[r].point>>] = None /\ point[req[r].point] = NoPoint
  BY <1>1 DEF AccountsKnown, Stored
<1> QED BY <1>2 DEF Credited

\* Balances and transactions need a row.
LEMMA AccountsStep ==
  ASSUME TypeOK, RequestsKnown, RowsKnown, AccountsKnown, [MarketNext]_allVars
  PROVE  AccountsKnown'
<1>0. Made \subseteq Made'
  BY MadeStays
<1> DEFINE B == \A k \in Customers, p \in Points : p \notin Stored' => balance'[<<k, p>>] = None
           R == \A k \in Customers, p \in Points : p \notin Stored' => recorded'[<<k, p>>] = 0
           S == \A k \in Customers, p \in Points : p \notin Made' => sent'[<<k, p>>] = 0
<1>1. B /\ R /\ S => AccountsKnown'
  BY DEF AccountsKnown
<1>2. sent' = sent => S
  BY <1>0 DEF AccountsKnown
<1>3. balance' = balance /\ Stored \subseteq Stored' => B
  BY DEF AccountsKnown
<1>4. recorded' = recorded /\ Stored \subseteq Stored' => R
  BY DEF AccountsKnown
<1> HIDE DEF B, R, S
<1>5. ASSUME NEW r \in Requests, RequestStep(r) PROVE AccountsKnown'
  <2>1. Stored \subseteq Stored'
    <3>1. InsertPoint(r) => Stored \subseteq Stored'
      <4>1. ASSUME InsertPoint(r), point'[r] = [addr |-> req[r].addr], r \in Points
            PROVE  r \in Stored'
        <5>1. req[r].addr \in Addresses
          BY <4>1, Fields, InsertEffect DEF Creating
        <5>2. req[r].addr # 0
          BY <5>1 DEF Addresses
        <5> QED BY <4>1, <5>2 DEF Stored, NoPoint
      <4> QED BY <4>1, InsertEffect DEF Stored
    <3> QED BY <1>5, <3>1, AnyStep DEF Stored
  <2>2. CASE Transfer(r)
    <3>1. pc[r] = "send" /\ UNCHANGED books /\ (Moved(r) \/ UNCHANGED history)
      BY <2>2, TransferEffect
    <3>2. req[r].point \in Made'
      BY <1>0, <3>1 DEF RequestsKnown, Giving
    <3>3. S
      BY <1>0, <1>2, <3>1, <3>2 DEF S, Moved, AccountsKnown, history, TypeOK, Accounts
    <3> QED BY <1>1, <1>3, <1>4, <2>1, <3>1, <3>3 DEF books
  <2>3. CASE CreateTransaction(r)
    <3> DEFINE k == req[r].by  p == req[r].point
    <3>1. /\ pc[r] = "record" /\ UNCHANGED <<balance, sent>>
          /\ \/ p \in Stored /\ recorded' = [recorded EXCEPT ![<<k, p>>] = @ + 1]
             \/ UNCHANGED recorded
      BY <2>3, RecordEffect
    <3>2. R
      BY <1>4, <2>1, <3>1 DEF R, AccountsKnown, TypeOK, Accounts
    <3> QED BY <1>1, <1>2, <1>3, <2>1, <3>1, <3>2
  <2>4. CASE UpsertCustomerPoints(r)
    <3> DEFINE k == req[r].by  p == req[r].point
    <3>1. /\ pc[r] = "credit" /\ UNCHANGED <<recorded, sent>>
          /\ \/ balance' = [balance EXCEPT ![<<k, p>>] = Credited(r)]
             \/ UNCHANGED balance
      BY <2>4, CreditEffect
    <3>2. p \notin Stored => Credited(r) = None
      BY <3>1, CreditedNeedsRow
    <3> HIDE DEF k, p
    <3>3. balance \in [Accounts -> Int \cup {None}]
      BY DEF TypeOK
    <3>4. ASSUME NEW l \in Customers, NEW q \in Points, q \notin Stored'
          PROVE  balance'[<<l, q>>] = None
      <4>1. q \notin Stored /\ balance[<<l, q>>] = None /\ <<l, q>> \in Accounts
        BY <2>1, <3>4 DEF AccountsKnown, Accounts
      <4>2. CASE UNCHANGED balance
        BY <4>1, <4>2
      <4>3. CASE balance' = [balance EXCEPT ![<<k, p>>] = Credited(r)]
        <5>1. CASE <<l, q>> = <<k, p>>
          BY <3>2, <3>3, <4>1, <4>3, <5>1
        <5>2. CASE <<l, q>> # <<k, p>>
          BY <3>3, <4>1, <4>3, <5>2
        <5> QED BY <5>1, <5>2
      <4> QED BY <3>1, <4>2, <4>3
    <3>5. B
      BY <3>4 DEF B
    <3> QED BY <1>1, <1>2, <1>4, <2>1, <3>1, <3>5
  <2>5. CASE Debit(r)
    <3> DEFINE k == req[r].by
    <3>1. /\ UNCHANGED <<recorded, sent>> /\ pc[r] = "debit"
          /\ \/ /\ balance[<<k, Old>>] # None
                /\ balance' = [balance EXCEPT ![<<k, Old>>] = @ - 1]
             \/ UNCHANGED balance
      BY <2>5, DebitEffect
    <3>2. k \in Customers /\ Old \in Points
      BY <3>1, Fields DEF Spending
    <3>3. B
      BY <1>3, <2>1, <3>1, <3>2 DEF B, AccountsKnown, TypeOK, Accounts
    <3> QED BY <1>1, <1>2, <1>4, <2>1, <3>1, <3>3
  <2>6. CASE UNCHANGED <<balance, recorded, sent>>
    BY <1>1, <1>2, <1>3, <1>4, <2>1, <2>6
  <2> QED BY <1>5, <2>2, <2>3, <2>4, <2>5, <2>6, B2CEffect, AssociateEffect, ReadEffect,
             CheckEffect, ValidateEffect, PayEffect, CreateEffect, DeployEffect,
             InsertEffect DEF RequestStep, Give, Spend, Create, books, history, Spent
<1>6. ASSUME NEW p \in Points, Deleted(p), sent' = sent PROVE AccountsKnown'
  <2>1. \A q \in Points \ {p} : q \in Stored <=> q \in Stored'
    BY <1>6 DEF Deleted, Stored
  <2>2. B /\ R
    BY <1>6, <2>1 DEF Deleted, B, R, AccountsKnown, Accounts
  <2> QED BY <1>1, <1>2, <1>6, <2>2
<1>7. ASSUME NEW p \in Points, Redirected(p), sent' = sent PROVE AccountsKnown'
  <2>1. Stored \subseteq Stored'
    <3>1. PICK a \in Used : point'[p] = [addr |-> a]
      BY <1>7 DEF Redirected
    <3>2. a # 0
      BY <3>1 DEF Used, Addresses
    <3> QED BY <1>7, <3>1, <3>2 DEF Redirected, Stored, NoPoint
  <2> QED BY <1>1, <1>2, <1>3, <1>4, <1>7, <2>1 DEF Redirected
<1>8. ASSUME Reset, sent' = sent PROVE AccountsKnown'
  <2>1. B
    BY <1>8 DEF Reset, B, AccountsKnown, Stored, Accounts
  <2> QED BY <1>1, <1>2, <1>4, <1>8, <2>1 DEF Reset, Stored
<1>9. Elsewhere => AccountsKnown'
  BY <1>1, <1>2, <1>3, <1>4 DEF Elsewhere, books, history, Stored
<1> QED BY <1>5, <1>6, <1>7, <1>8, <1>9, MarketSteps DEF OperatorStep, Operated

\* Every step keeps to rows that were made.
LEMMA KnownStep ==
  ASSUME TypeOK, ContractInv, KnownInv, [MarketNext]_allVars
  PROVE  KnownInv'
<1>1. (RowsKnown /\ RequestsKnown /\ AccountsKnown => KnownInv)'
  BY KnownParts, PTL
<1> QED BY <1>1, KnownParts, RowsStep, RequestsStep, AccountsStep

(***************************************************************************)
(* Transactions and transfers.                                             *)
(***************************************************************************)
\* A row appears only for points that were not made before.
LEMMA NewRows ==
  ASSUME TypeOK, [MarketNext]_allVars, NEW p \in Stored'
  PROVE  p \in Stored \/ p \notin Made
<1>1. point' = point => p \in Stored
  BY DEF Stored
<1>2. ASSUME NEW r \in Requests, InsertPoint(r) PROVE p \in Stored \/ p \notin Made
  BY <1>2, InsertEffect, Distinct DEF Stored, Made
<1>3. ASSUME NEW q \in Points, Deleted(q) \/ Redirected(q) PROVE p \in Stored
  BY <1>3 DEF Deleted, Redirected, Stored
<1> QED BY <1>1, <1>2, <1>3, AnyStep, MarketSteps DEF OperatorStep, Reset, Elsewhere, books

\* Only two handlers write what these invariants are about.
LEMMA RecordersOnly ==
  ASSUME TypeOK, NEW r \in Requests, RequestStep(r), ~Transfer(r), ~CreateTransaction(r)
  PROVE  /\ UNCHANGED <<recorded, sent, lost>> \/ (UNCHANGED <<recorded, sent>> /\ \E p \in Points : Loses(p))
         /\ pc[r] # "record" /\ pc'[r] # "record"
<1>1. CASE Give(r)
  <2>1. UpsertCustomerPoints(r) => pc[r] = "credit" /\ req[r].point \in Points
    BY Fields, CreditEffect DEF Giving
  <2> QED BY <1>1, <2>1, B2CEffect, AssociateEffect, ReadEffect, CheckEffect, CreditEffect
             DEF Give, B2CStarts, Onward, Ended, books, history
<1>2. CASE Spend(r)
  BY <1>2, ValidateEffect, PayEffect, DebitEffect
     DEF Spend, Onward, Ended, books, history, Spent, Points
<1>3. CASE Create(r)
  BY <1>3, CreateEffect, DeployEffect, InsertEffect DEF Create, Onward, Ended, books, history
<1> QED BY <1>1, <1>2, <1>3 DEF RequestStep

RecordOf(k, p) ==
  /\ recorded[<<k, p>>] + At({"record"}, k, p) <= sent[<<k, p>>]
  /\ p \in Stored \ lost => recorded[<<k, p>>] + At({"record"}, k, p) = sent[<<k, p>>]

\* RecordInv, account by account.
LEMMA RecordParts == RecordInv <=> \A k \in Customers, p \in Points : RecordOf(k, p)
  BY DEF RecordInv, RecordOf

\* The books of a point that is not there are empty.
LEMMA RecordUnmade ==
  ASSUME TypeOK, KnownInv, RecordInv, NEW k \in Customers, NEW p \in Points, p \notin Made
  PROVE  recorded[<<k, p>>] + At({"record"}, k, p) = sent[<<k, p>>]
<1>1. /\ recorded[<<k, p>>] \in Nat /\ sent[<<k, p>>] = 0
      /\ recorded[<<k, p>>] + At({"record"}, k, p) <= sent[<<k, p>>]
  BY DEF TypeOK, Accounts, KnownInv, RecordInv
<1>2. At({"record"}, k, p) \in Nat
  BY AtType
<1> QED BY <1>1, <1>2

\* Transfers and their records stay together.
LEMMA RecordStep ==
  ASSUME TypeOK, KnownInv, RecordInv, [MarketNext]_allVars
  PROVE  RecordInv'
<1> DEFINE A(k, p) == At({"record"}, k, p)
<1>1. ASSUME NEW k \in Customers, NEW p \in Points
      PROVE  /\ <<k, p>> \in Accounts /\ recorded[<<k, p>>] \in Nat /\ sent[<<k, p>>] \in Nat
             /\ At({"record"}, k, p) \in Nat /\ RecordOf(k, p)
             /\ p \in Stored' /\ p \notin lost =>
                  recorded[<<k, p>>] + At({"record"}, k, p) = sent[<<k, p>>]
  BY <1>1, AtType, RecordParts, RecordUnmade, NewRows DEF TypeOK, Accounts, RecordOf
<1>2. ASSUME UNCHANGED <<recorded, sent>>, lost \subseteq lost',
             \A k \in Customers, p \in Points : At({"record"}, k, p)' = At({"record"}, k, p)
      PROVE  RecordInv'
  BY <1>1, <1>2 DEF RecordInv, RecordOf
<1>3. ASSUME NEW r \in Requests, RequestStep(r) PROVE RecordInv'
  <2> DEFINE k == req[r].by  p == req[r].point
  <2>0. Others(r)
    BY <1>3, AnyStep
  <2>1. CASE Transfer(r)
    <3>1. /\ pc[r] = "send" /\ UNCHANGED books
          /\ \/ Moved(r) /\ Onward(r, "record") /\ UNCHANGED <<lost, moved>>
             \/ Ended(r) /\ UNCHANGED <<chain, history>>
             \/ Ended(r) /\ Moved(r) /\ Loses(p)
      BY <2>1, TransferEffect
    <3>2. k \in Customers /\ p \in Points
      BY <3>1, Fields DEF Giving
    <3> HIDE DEF k, p
    <3>3. ASSUME NEW l \in Customers, NEW q \in Points PROVE RecordOf(l, q)'
      <4>1. /\ <<l, q>> \in Accounts /\ recorded[<<l, q>>] \in Nat /\ sent[<<l, q>>] \in Nat
            /\ At({"record"}, l, q) \in Nat /\ RecordOf(l, q) /\ Stored' = Stored
            /\ recorded' = recorded
        BY <1>1, <3>1 DEF books, Stored
      <4>2. CASE Moved(r) /\ Onward(r, "record") /\ UNCHANGED <<lost, moved>>
        <5>1. /\ <<l, q>> = <<k, p>> => sent'[<<l, q>>] = sent[<<l, q>>] + 1
              /\ <<l, q>> # <<k, p>> => sent'[<<l, q>>] = sent[<<l, q>>]
          BY <4>1, <4>2 DEF Moved, TypeOK, k, p
        <5>2. /\ <<l, q>> = <<k, p>> => At({"record"}, l, q)' = At({"record"}, l, q) + 1
              /\ <<l, q>> # <<k, p>> => At({"record"}, l, q)' = At({"record"}, l, q)
          BY <2>0, <3>1, <4>2, AtMoves DEF Onward, k, p
        <5> QED BY <4>1, <4>2, <5>1, <5>2 DEF RecordOf
      <4>3. CASE Ended(r)
        <5>1. At({"record"}, l, q)' = At({"record"}, l, q)
          BY <2>0, <3>1, <4>3, AtMoves DEF Ended
        <5>2. /\ UNCHANGED <<sent, lost>>
                 \/ /\ <<l, q>> = <<k, p>> => sent'[<<l, q>>] = sent[<<l, q>>] + 1
                    /\ <<l, q>> # <<k, p>> => sent'[<<l, q>>] = sent[<<l, q>>]
                    /\ lost' = lost \cup {p}
          BY <3>1, <4>1, <4>3 DEF Moved, Loses, Onward, Ended, history, TypeOK, k, p
        <5> QED BY <4>1, <5>1, <5>2 DEF RecordOf
      <4> QED BY <3>1, <4>2, <4>3
    <3> QED BY <3>3 DEF RecordInv, RecordOf
  <2>2. CASE CreateTransaction(r)
    <3>1. /\ pc[r] = "record" /\ UNCHANGED <<point, sent>>
          /\ \/ /\ p \in Stored /\ Onward(r, "credit") /\ UNCHANGED lost
                /\ recorded' = [recorded EXCEPT ![<<k, p>>] = @ + 1]
             \/ p \notin Stored /\ Ended(r) /\ UNCHANGED <<recorded, lost>>
             \/ Ended(r) /\ lost' = lost \cup {p} /\ UNCHANGED recorded
      BY <2>2, RecordEffect DEF Loses
    <3>2. k \in Customers /\ p \in Points
      BY <3>1, Fields DEF Giving
    <3>3. pc'[r] # "record"
      BY <3>1 DEF Onward, Ended
    <3>4. ASSUME NEW l \in Customers, NEW q \in Points PROVE RecordOf(l, q)'
      <4>1. /\ <<l, q>> \in Accounts /\ recorded[<<l, q>>] \in Nat /\ sent[<<l, q>>] \in Nat
            /\ At({"record"}, l, q) \in Nat /\ RecordOf(l, q) /\ Stored' = Stored
            /\ sent' = sent /\ At({"record"}, l, q)' \in Nat
        BY <1>1, <2>0, <3>1, AtMoves DEF Stored
      <4>2. /\ <<l, q>> = <<k, p>> => At({"record"}, l, q) = At({"record"}, l, q)' + 1
            /\ <<l, q>> # <<k, p>> => At({"record"}, l, q)' = At({"record"}, l, q)
        BY <2>0, <3>1, <3>3, AtMoves
      <4>3. \/ /\ <<l, q>> = <<k, p>> => recorded'[<<l, q>>] = recorded[<<l, q>>] + 1
               /\ <<l, q>> # <<k, p>> => recorded'[<<l, q>>] = recorded[<<l, q>>]
               /\ lost' = lost
            \/ recorded' = recorded /\ lost' = lost \cup {p}
            \/ recorded' = recorded /\ lost' = lost /\ p \notin Stored
        BY <3>1, <4>1 DEF TypeOK
      <4> HIDE DEF k, p
      <4> QED BY <4>1, <4>2, <4>3 DEF RecordOf
    <3> QED BY <3>4 DEF RecordInv, RecordOf
  <2>3. CASE ~Transfer(r) /\ ~CreateTransaction(r)
    <3>1. /\ UNCHANGED <<recorded, sent>> /\ lost \subseteq lost'
          /\ pc[r] # "record" /\ pc'[r] # "record"
      BY <1>3, <2>3, RecordersOnly DEF Loses
    <3>2. \A l \in Customers, q \in Points : At({"record"}, l, q)' = At({"record"}, l, q)
      BY <2>0, <3>1, AtMoves
    <3> QED BY <1>2, <3>1, <3>2
  <2> QED BY <2>1, <2>2, <2>3
<1>4. ASSUME NEW p \in Points, Deleted(p), UNCHANGED <<requests, sent, lost>>
      PROVE  RecordInv'
  <2> SUFFICES ASSUME NEW l \in Customers, NEW q \in Points PROVE RecordOf(l, q)'
    BY DEF RecordInv, RecordOf
  <2>1. At({"record"}, l, q)' = At({"record"}, l, q)
    BY <1>4, AtStays
  <2>2. recorded'[<<l, q>>] = IF q = p THEN 0 ELSE recorded[<<l, q>>]
    BY <1>1, <1>4 DEF Deleted
  <2>3. q = p => q \notin Stored'
    BY <1>4 DEF Deleted, Stored
  <2> QED BY <1>1, <1>4, <2>1, <2>2, <2>3 DEF RecordOf
<1>5. ASSUME UNCHANGED <<requests, recorded, sent, lost>> PROVE RecordInv'
  BY <1>2, <1>5, AtStays
<1> QED BY <1>3, <1>4, <1>5, MarketSteps
        DEF OperatorStep, Operated, Redirected, Reset, Elsewhere, books, history

(***************************************************************************)
(* Credits and transfers.                                                  *)
(***************************************************************************)
\* What was sent never becomes less.
LEMMA SentGrows ==
  ASSUME TypeOK, [MarketNext]_allVars, NEW a \in Accounts
  PROVE  sent[a] \in Nat /\ sent'[a] \in Nat /\ sent[a] <= sent'[a]
<1>1. sent \in [Accounts -> Nat]
  BY DEF TypeOK
<1>2. ASSUME NEW r \in Requests, RequestStep(r)
      PROVE  sent' = sent \/ \E b : sent' = [sent EXCEPT ![b] = @ + 1]
  <2>1. Transfer(r) => Moved(r) \/ UNCHANGED history
    BY TransferEffect
  <2>2. CreateTransaction(r) => sent' = sent
    BY RecordEffect
  <2> QED BY <1>2, <2>1, <2>2, RecordersOnly DEF Moved, history
<1>3. OperatorStep \/ Elsewhere => sent' = sent
  BY DEF OperatorStep, Operated, Elsewhere, history
<1> QED BY <1>1, <1>2, <1>3, MarketSteps

SeenWasSent(r) ==
  LET n == sent[<<req[r].by, req[r].point>>] IN
  /\ pc[r] \in {"check", "send"} /\ req[r].seen # None => req[r].seen <= n
  /\ pc[r] \in {"record", "credit"} => 1 <= n /\ (req[r].seen # None => req[r].seen + 1 <= n)

SeenInv == \A r \in Requests : SeenWasSent(r)

\* CreditInv: the balances, and what was read of them.
LEMMA CreditParts == CreditInv <=> CreditWasSent /\ SeenInv
  BY DEF CreditInv, SeenInv, SeenWasSent

\* Whoever stays where it is can rely on what it read.
LEMMA SeenStays ==
  ASSUME TypeOK, NEW r \in Requests, SeenWasSent(r), pc'[r] = pc[r], req'[r] = req[r],
         [MarketNext]_allVars
  PROVE  SeenWasSent(r)'
<1>1. CASE pc[r] \in Reading
  <2> DEFINE a == <<req[r].by, req[r].point>>
  <2>1. a \in Accounts /\ req[r].seen \in Int \cup {None}
    BY <1>1, Fields DEF Giving, Reading, Accounts
  <2>2. sent[a] \in Nat /\ sent'[a] \in Nat /\ sent[a] <= sent'[a]
    BY <2>1, SentGrows
  <2> HIDE DEF a
  <2>3. /\ pc[r] \in {"check", "send"} /\ req[r].seen # None => req[r].seen <= sent[a]
        /\ pc[r] \in {"record", "credit"} =>
             1 <= sent[a] /\ (req[r].seen # None => req[r].seen + 1 <= sent[a])
    BY DEF SeenWasSent, a
  <2>4. /\ pc[r] \in {"check", "send"} /\ req[r].seen # None => req[r].seen <= sent'[a]
        /\ pc[r] \in {"record", "credit"} =>
             1 <= sent'[a] /\ (req[r].seen # None => req[r].seen + 1 <= sent'[a])
    <3>1. CASE req[r].seen = None
      BY <2>2, <2>3, <3>1
    <3>2. CASE req[r].seen # None
      <4>1. req[r].seen \in Int
        BY <2>1, <3>2
      <4> QED BY <2>2, <2>3, <4>1
    <3> QED BY <3>1, <3>2
  <2> QED BY <2>4 DEF SeenWasSent, a
<1>2. CASE pc[r] \notin Reading
  BY <1>2 DEF SeenWasSent, Reading
<1> QED BY <1>1, <1>2

\* What the moving request has read.
LEMMA SeenMoves ==
  ASSUME TypeOK, CreditInv, NEW r \in Requests, RequestStep(r), [MarketNext]_allVars
  PROVE  SeenWasSent(r)'
<1> DEFINE k == req[r].by  p == req[r].point  n == sent[<<k, p>>]
<1>1. pc[r] \in Giving => /\ <<k, p>> \in Accounts /\ n \in Nat
                          /\ req[r].seen \in Int \cup {None}
  BY Fields DEF TypeOK, Accounts
<1>2. SeenWasSent(r)
  BY CreditParts DEF SeenInv
<1>3. pc'[r] \notin Reading => SeenWasSent(r)'
  BY DEF SeenWasSent, Reading
<1>4. CASE B2C(r) \/ Associate(r) \/ UpsertCustomerPoints(r) \/ Spend(r) \/ Create(r)
  <2>1. pc'[r] \notin Reading
    BY <1>4, B2CEffect, AssociateEffect, CreditEffect, ValidateEffect, PayEffect, DebitEffect,
       CreateEffect, DeployEffect, InsertEffect
       DEF Spend, Create, B2CStarts, Onward, Ended, Reading
  <2> QED BY <1>3, <2>1
<1>5. CASE ReadCustomer(r)
  <2> DEFINE b == balance[<<k, p>>]
  <2>1. /\ pc[r] = "read" /\ UNCHANGED history
        /\ \/ /\ pc'[r] = "check"
              /\ req'[r] = [by |-> k, point |-> p, seen |-> b, addr |-> req[r].addr]
           \/ Ended(r)
    BY <1>5, ReadEffect
  <2>2. CASE Ended(r)
    BY <1>3, <2>2 DEF Ended, Reading
  <2>3. CASE ~Ended(r)
    <3>1. k \in Customers /\ p \in Points
      BY <2>1, Fields DEF Giving
    <3>2. b # None => b <= n
      BY <3>1 DEF CreditInv, CreditWasSent
    <3>3. req'[r].by = k /\ req'[r].point = p /\ req'[r].seen = b /\ pc'[r] = "check"
      BY <2>1, <2>3
    <3>4. sent' = sent
      BY <2>1 DEF history
    <3> HIDE DEF b, k, p
    <3> QED BY <3>2, <3>3, <3>4 DEF SeenWasSent
  <2> QED BY <2>1, <2>2, <2>3
<1>6. CASE CheckBalance(r)
  <2>1. pc[r] = "check" /\ sent' = sent /\ (Onward(r, "send") \/ Ended(r))
    BY <1>6, CheckEffect DEF history
  <2> QED BY <1>2, <1>3, <2>1 DEF SeenWasSent, Onward, Ended, Reading
<1>7. CASE Transfer(r)
  <2>1. pc[r] = "send" /\ ((Moved(r) /\ Onward(r, "record")) \/ Ended(r))
    BY <1>7, TransferEffect
  <2>2. CASE Ended(r)
    BY <1>3, <2>2 DEF Ended, Reading
  <2>3. CASE Moved(r) /\ Onward(r, "record")
    <3>1. sent'[<<k, p>>] = n + 1 /\ n \in Nat /\ req[r].seen \in Int \cup {None}
      BY <1>1, <2>1, <2>3 DEF Moved, TypeOK, Giving
    <3>2. pc'[r] = "record" /\ req'[r] = req[r] /\ (req[r].seen # None => req[r].seen <= n)
      BY <1>2, <2>1, <2>3 DEF Onward, SeenWasSent
    <3>3. req'[r].by = k /\ req'[r].point = p
      BY <3>2
    <3>4. req[r].seen # None => req[r].seen + 1 <= n + 1
      BY <3>1, <3>2
    <3> HIDE DEF k, p, n
    <3>5. 1 <= n + 1
      BY <3>1
    <3> QED BY <3>1, <3>2, <3>3, <3>4, <3>5 DEF SeenWasSent
  <2> QED BY <2>1, <2>2, <2>3
<1>8. CASE CreateTransaction(r)
  <2>1. pc[r] = "record" /\ sent' = sent /\ (Onward(r, "credit") \/ Ended(r))
    BY <1>8, RecordEffect
  <2> QED BY <1>2, <1>3, <2>1 DEF SeenWasSent, Onward, Ended, Reading
<1> QED BY <1>4, <1>5, <1>6, <1>7, <1>8 DEF RequestStep, Give

\* What is in the database after a credit.
LEMMA CreditedType ==
  ASSUME TypeOK, NEW r \in Requests, pc[r] = "credit"
  PROVE  Credited(r) \in Int \cup {None}
<1> DEFINE b == balance[<<req[r].by, req[r].point>>]
<1>1. b \in Int \cup {None} /\ req[r].seen \in Int \cup {None}
  BY Fields DEF TypeOK, Accounts, Giving
<1> HIDE DEF b
<1>2. CASE req[r].seen = None
  BY <1>1, <1>2 DEF Credited, b
<1>3. CASE req[r].seen # None
  <2>1. req[r].seen + 1 \in Int
    BY <1>1, <1>3
  <2> QED BY <1>3, <2>1 DEF Credited, b
<1> QED BY <1>2, <1>3

\* A credit is no more than what was sent.
LEMMA CreditedBelow ==
  ASSUME TypeOK, CreditInv, NEW r \in Requests, pc[r] = "credit", Credited(r) # None
  PROVE  Credited(r) <= sent[<<req[r].by, req[r].point>>]
<1> DEFINE k == req[r].by  p == req[r].point  b == balance[<<k, p>>]  n == sent[<<k, p>>]
<1>1. k \in Customers /\ p \in Points
  BY Fields DEF Giving
<1>2. b # None => b <= n
  BY <1>1 DEF CreditInv, CreditWasSent
<1>3. 1 <= n /\ (req[r].seen # None => req[r].seen + 1 <= n)
  BY DEF CreditInv
<1> HIDE DEF b, n
<1> QED BY <1>2, <1>3 DEF Credited, b, n

\* Whatever is written over, no balance is more than what was sent.
LEMMA CreditStep ==
  ASSUME TypeOK, CreditInv, [MarketNext]_allVars
  PROVE  CreditInv'
<1>1. ASSUME NEW k \in Customers, NEW p \in Points
      PROVE  /\ <<k, p>> \in Accounts /\ balance[<<k, p>>] \in Int \cup {None}
             /\ sent[<<k, p>>] \in Nat /\ sent'[<<k, p>>] \in Nat
             /\ sent[<<k, p>>] <= sent'[<<k, p>>]
             /\ balance[<<k, p>>] # None => balance[<<k, p>>] <= sent[<<k, p>>]
  BY <1>1, SentGrows DEF CreditInv, CreditWasSent, TypeOK, Accounts
<1>2. ASSUME \A k \in Customers, p \in Points :
               \/ balance'[<<k, p>>] = balance[<<k, p>>]
               \/ balance'[<<k, p>>] # None =>
                    balance'[<<k, p>>] \in Int /\ balance'[<<k, p>>] <= sent[<<k, p>>]
      PROVE  CreditWasSent'
  <2> SUFFICES ASSUME NEW k \in Customers, NEW p \in Points, balance'[<<k, p>>] # None
               PROVE  balance'[<<k, p>>] <= sent'[<<k, p>>]
    BY DEF CreditWasSent
  <2>1. balance'[<<k, p>>] \in Int /\ balance'[<<k, p>>] <= sent[<<k, p>>]
    BY <1>1, <1>2
  <2> QED BY <1>1, <2>1
<1>3. ASSUME NEW r \in Requests, RequestStep(r) PROVE CreditInv'
  <2>1. SeenInv'
    <3>1. \A q \in Requests \ {r} : SeenWasSent(q)'
      BY <1>3, AnyStep, SeenStays, CreditParts DEF Others, SeenInv
    <3> QED BY <1>3, <3>1, SeenMoves DEF SeenInv
  <2>2. CreditWasSent'
    <3> DEFINE k == req[r].by  p == req[r].point
    <3>1. CASE UpsertCustomerPoints(r)
      <4>1. /\ pc[r] = "credit"
            /\ \/ balance' = [balance EXCEPT ![<<k, p>>] = Credited(r)]
               \/ UNCHANGED balance
        BY <3>1, CreditEffect
      <4>2. Credited(r) # None => Credited(r) \in Int /\ Credited(r) <= sent[<<k, p>>]
        BY <4>1, CreditedType, CreditedBelow
      <4> HIDE DEF k, p
      <4> QED BY <1>1, <1>2, <4>1, <4>2 DEF TypeOK
    <3>2. CASE Debit(r)
      <4>1. \/ /\ balance[<<k, Old>>] # None
               /\ balance' = [balance EXCEPT ![<<k, Old>>] = @ - 1]
            \/ UNCHANGED balance
        BY <3>2, DebitEffect
      <4>2. balance \in [Accounts -> Int \cup {None}]
        BY DEF TypeOK
      <4> HIDE DEF k
      <4>3. ASSUME NEW a \in Accounts, balance'[a] # None
            PROVE  balance[a] # None /\ balance'[a] <= balance[a] /\ balance'[a] \in Int
        BY <4>1, <4>2, <4>3
      <4> QED BY <1>1, <1>2, <4>2, <4>3
    <3>3. CASE ~UpsertCustomerPoints(r) /\ ~Debit(r)
      <4>1. balance' = balance
        BY <1>3, <3>3, B2CEffect, AssociateEffect, ReadEffect, CheckEffect, TransferEffect,
           RecordEffect, ValidateEffect, PayEffect, CreateEffect, DeployEffect, InsertEffect
           DEF RequestStep, Give, Spend, Create, books
      <4> QED BY <1>2, <4>1
    <3> QED BY <3>1, <3>2, <3>3
  <2>3. (CreditWasSent /\ SeenInv => CreditInv)'
    BY CreditParts, PTL
  <2> QED BY <2>1, <2>2, <2>3
<1>4. ASSUME OperatorStep \/ Elsewhere PROVE CreditInv'
  <2>1. SeenInv'
    BY <1>4, SeenStays, CreditParts DEF OperatorStep, Operated, Elsewhere, requests, SeenInv
  <2>2. CreditWasSent'
    <3>1. CASE Reset
      BY <1>1, <1>2, <3>1 DEF Reset
    <3>2. ASSUME NEW p \in Points, Deleted(p) PROVE CreditWasSent'
      BY <1>1, <1>2, <3>2 DEF Deleted
    <3>3. balance' = balance => CreditWasSent'
      BY <1>2
    <3> QED BY <1>4, <3>1, <3>2, <3>3 DEF OperatorStep, Redirected, Elsewhere, books
  <2>3. (CreditWasSent /\ SeenInv => CreditInv)'
    BY CreditParts, PTL
  <2> QED BY <2>1, <2>2, <2>3
<1> QED BY <1>3, <1>4, MarketSteps

(***************************************************************************)
(* Who has joined.                                                         *)
(***************************************************************************)
JoinOnce ==
  /\ \A k \in Customers : joined[k] <= 1
  /\ \A r \in Requests : pc[r] = "associate" => joined[req[r].by] = 0

JoinFirst ==
  /\ \A k \in Customers, p \in Points : balance[<<k, p>>] # None => joined[k] > 0
  /\ \A r \in Requests : pc[r] \in Giving \ {"associate"} => joined[req[r].by] > 0

\* JoinInv: joining once, and joining before the points.
LEMMA JoinParts ==
  JoinInv <=> (polite => JoinOnce) /\ (faults = MaxFaults => JoinFirst)
  BY DEF JoinInv, JoinOnce, JoinFirst

\* Only one handler writes the associations.
LEMMA JoinersOnly ==
  ASSUME TypeOK, NEW r \in Requests, RequestStep(r), ~Associate(r)
  PROVE  joined' = joined
  BY B2CEffect, ReadEffect, CheckEffect, TransferEffect, RecordEffect, CreditEffect,
     ValidateEffect, PayEffect, DebitEffect, CreateEffect, DeployEffect, InsertEffect
     DEF RequestStep, Give, Spend, Create, books

\* Nobody joins twice while requests of a customer take turns.
LEMMA JoinOnceStep ==
  ASSUME TypeOK, polite, JoinOnce, AloneInv, [MarketNext]_allVars
  PROVE  JoinOnce'
<1>1. ASSUME joined' = joined, UNCHANGED requests PROVE JoinOnce'
  BY <1>1 DEF JoinOnce, requests
<1>2. ASSUME NEW r \in Requests, RequestStep(r) PROVE JoinOnce'
  <2> DEFINE k == req[r].by
  <2>0. Others(r)
    BY <1>2, AnyStep
  <2>1. CASE Associate(r)
    <3>1. /\ pc[r] = "associate" /\ pc'[r] # "associate"
          /\ joined' = [joined EXCEPT ![k] = @ + 1] \/ joined' = joined
      BY <2>1, AssociateEffect DEF Onward, Ended
    <3>2. k \in Customers /\ joined[k] = 0 /\ joined \in [Customers -> Nat]
      BY <3>1, Fields DEF Giving, JoinOnce, TypeOK
    <3>3. \A q \in Requests \ {r} : pc[q] = "associate" => req[q].by # k
      BY <3>1 DEF AloneInv, Trading, Giving
    <3>4. \A l \in Customers : /\ joined'[l] <= 1
                               /\ l # k => joined'[l] = joined[l]
      BY <3>1, <3>2 DEF JoinOnce
    <3>5. \A q \in Requests \ {r} : pc[q] = "associate" => req[q].by \in Customers
      BY Fields DEF Giving
    <3> HIDE DEF k
    <3> QED BY <2>0, <3>1, <3>3, <3>4, <3>5 DEF JoinOnce, Others
  <2>2. CASE ~Associate(r)
    <3>1. joined' = joined
      BY <1>2, <2>2, JoinersOnly
    <3>2. pc'[r] = "associate" => joined[req'[r].by] = 0
      <4>1. pc'[r] = "associate" => B2CStarts(r)
        BY <1>2, <2>2, B2CEffect, ReadEffect, CheckEffect, TransferEffect, RecordEffect,
           CreditEffect, ValidateEffect, PayEffect, DebitEffect, CreateEffect, DeployEffect,
           InsertEffect DEF RequestStep, Give, Spend, Create, Onward, Ended
      <4>2. ASSUME pc'[r] = "associate" PROVE joined[req'[r].by] = 0
        <5>1. PICK l \in Customers, p \in Points :
                /\ joined[l] = 0
                /\ req'[r] = [by |-> l, point |-> p, seen |-> None, addr |-> point[p].addr]
          BY <4>1, <4>2 DEF B2CStarts
        <5> QED BY <5>1
      <4> QED BY <4>2
    <3> QED BY <2>0, <3>1, <3>2 DEF JoinOnce, Others
  <2> QED BY <2>1, <2>2
<1> QED BY <1>1, <1>2, MarketSteps
        DEF OperatorStep, Operated, Deleted, Redirected, Reset, Elsewhere, books

\* The lists of a customer start with the association.
LEMMA JoinFirstStep ==
  ASSUME TypeOK, faults <= MaxFaults, faults' = MaxFaults, JoinFirst, [MarketNext]_allVars
  PROVE  JoinFirst'
<1>0. faults \in Nat /\ MaxFaults \in Nat
  BY Numbers DEF TypeOK
<1>1. ASSUME joined' = joined, UNCHANGED requests,
             \A k \in Customers, p \in Points : balance'[<<k, p>>] # None => balance[<<k, p>>] # None
      PROVE  JoinFirst'
  BY <1>1 DEF JoinFirst, requests
<1>2. ASSUME NEW r \in Requests, RequestStep(r) PROVE JoinFirst'
  <2> DEFINE k == req[r].by  p == req[r].point
  <2>0. Others(r)
    BY <1>2, AnyStep
  <2>1. CASE Associate(r)
    <3>1. /\ pc[r] = "associate" /\ balance' = balance
          /\ joined' = [joined EXCEPT ![k] = @ + 1] /\ Onward(r, "read")
      BY <1>0, <2>1, AssociateEffect
    <3>2. k \in Customers /\ joined \in [Customers -> Nat]
      BY <3>1, Fields DEF Giving, TypeOK
    <3>3. joined'[k] > 0 /\ \A l \in Customers : joined[l] > 0 => joined'[l] > 0
      BY <3>1, <3>2
    <3>4. req'[r].by = k
      BY <3>1 DEF Onward
    <3>5. \A q \in Requests : pc[q] \in Giving => req[q].by \in Customers
      BY Fields
    <3> HIDE DEF k
    <3> QED BY <2>0, <3>1, <3>3, <3>4, <3>5 DEF JoinFirst, Others
  <2>2. CASE ~Associate(r)
    <3>1. joined' = joined
      BY <1>2, <2>2, JoinersOnly
    <3>2. pc'[r] \in Giving \ {"associate"} => joined[req'[r].by] > 0
      <4>1. CASE pc[r] \in Giving
        <5>1. pc[r] \in Giving \ {"associate"} \/ pc'[r] \notin Giving
          BY <1>2, <2>2, <4>1, B2CEffect, ReadEffect, CheckEffect, TransferEffect, RecordEffect,
             CreditEffect, ValidateEffect, PayEffect, DebitEffect, CreateEffect, DeployEffect,
             InsertEffect DEF RequestStep, Give, Spend, Create, Giving
        <5> QED BY <1>2, <4>1, <5>1, Travels, B2CEffect DEF JoinFirst, Giving
      <4>2. CASE pc[r] \notin Giving
        <5> SUFFICES ASSUME pc'[r] \in Giving \ {"associate"} PROVE joined[req'[r].by] > 0
          OBVIOUS
        <5>1. B2CStarts(r)
          BY <1>2, <4>2, Travels
        <5>2. PICK l \in Customers, q \in Points :
                /\ joined[l] # 0
                /\ req'[r] = [by |-> l, point |-> q, seen |-> None, addr |-> point[q].addr]
          BY <5>1 DEF B2CStarts
        <5> QED BY <5>2 DEF TypeOK
      <4> QED BY <4>1, <4>2
    <3>3. \A l \in Customers, q \in Points : balance'[<<l, q>>] # None => joined[l] > 0
      <4>1. CASE UpsertCustomerPoints(r)
        <5>1. /\ pc[r] = "credit"
              /\ \/ balance' = [balance EXCEPT ![<<k, p>>] = Credited(r)]
                 \/ UNCHANGED balance
          BY <4>1, CreditEffect
        <5>2. joined[k] > 0
          BY <5>1 DEF JoinFirst, Giving
        <5> HIDE DEF k, p
        <5> QED BY <5>1, <5>2 DEF JoinFirst, TypeOK, Accounts
      <4>2. CASE Debit(r)
        <5>1. \/ /\ balance[<<k, Old>>] # None
                 /\ balance' = [balance EXCEPT ![<<k, Old>>] = @ - 1]
              \/ UNCHANGED balance
          BY <4>2, DebitEffect
        <5> HIDE DEF k
        <5> QED BY <5>1 DEF JoinFirst, TypeOK, Accounts
      <4>3. CASE ~UpsertCustomerPoints(r) /\ ~Debit(r)
        <5>1. balance' = balance
          BY <1>2, <2>2, <4>3, B2CEffect, ReadEffect, CheckEffect, TransferEffect,
             RecordEffect, ValidateEffect, PayEffect, CreateEffect, DeployEffect, InsertEffect
             DEF RequestStep, Give, Spend, Create, books
        <5> QED BY <5>1 DEF JoinFirst
      <4> QED BY <4>1, <4>2, <4>3
    <3> QED BY <2>0, <3>1, <3>2, <3>3 DEF JoinFirst, Others
  <2> QED BY <2>1, <2>2
<1>3. ASSUME Reset, UNCHANGED requests PROVE JoinFirst'
  <2>1. \A k \in Customers, p \in Points : balance'[<<k, p>>] # None => balance[<<k, p>>] # None
    BY <1>3 DEF Reset, Accounts
  <2> QED BY <1>1, <1>3, <2>1 DEF Reset
<1>4. ASSUME NEW p \in Points, Deleted(p), UNCHANGED requests PROVE JoinFirst'
  <2>1. \A k \in Customers, q \in Points : balance'[<<k, q>>] # None => balance[<<k, q>>] # None
    BY <1>4 DEF Deleted, Accounts
  <2> QED BY <1>1, <1>4, <2>1 DEF Deleted
<1> QED BY <1>1, <1>2, <1>3, <1>4, MarketSteps
        DEF OperatorStep, Operated, Redirected, Elsewhere, books

\* The customers' associations, while nobody is in another's way, and as long
\* as no call has raised.
LEMMA JoinStep ==
  ASSUME PointShape, JoinInv, PoliteInv, [MarketNext]_allVars
  PROVE  JoinInv'
<1>1. TypeOK /\ faults <= MaxFaults /\ faults \in Nat /\ MaxFaults \in Nat
  BY Numbers DEF PointShape, TypeOK
<1>2. polite' = polite /\ faults' <= faults /\ faults' \in Nat
  BY <1>1, AnyStep, MarketSteps DEF Others, OperatorStep, Operated, Elsewhere
<1>3. (polite => JoinOnce)'
  BY <1>1, <1>2, JoinParts, JoinOnceStep DEF PoliteInv
<1>4. (faults = MaxFaults => JoinFirst)'
  BY <1>1, <1>2, JoinParts, JoinFirstStep
<1>5. ((polite => JoinOnce) /\ (faults = MaxFaults => JoinFirst) => JoinInv)'
  BY JoinParts, PTL
<1> QED BY <1>3, <1>4, <1>5

(***************************************************************************)
(* Polite clients: one request of a customer, one creation at a time.      *)
(***************************************************************************)
\* Where a request that creates points comes from.
LEMMA Builds ==
  ASSUME TypeOK, NEW r \in Requests, RequestStep(r), pc'[r] \in Creating
  PROVE  \/ Deploy(r) /\ pc[r] = "deploy" /\ pc'[r] = "insert" /\ req'[r] = req[r] /\ Deployed(r)
         \/ CreatePoint(r) /\ pc'[r] = "deploy"
<1> USE DEF Creating
<1>1. CASE Give(r)
  BY <1>1, B2CEffect, AssociateEffect, ReadEffect, CheckEffect, TransferEffect, RecordEffect,
     CreditEffect DEF Give, B2CStarts, Onward, Ended
<1>2. CASE Spend(r)
  BY <1>2, ValidateEffect, PayEffect, DebitEffect DEF Spend, Onward, Ended
<1>3. CASE Create(r)
  BY <1>3, CreateEffect, DeployEffect, InsertEffect DEF Create, Onward, Ended
<1> QED BY <1>1, <1>2, <1>3 DEF RequestStep

AloneStarts(r) == \A q \in Trading : req[q].by # req'[r].by

\* A request of a customer starts while there is no other.
LEMMA TradersStart ==
  ASSUME TypeOK, polite, NEW r \in Requests, RequestStep(r), pc'[r] \in Giving \cup Spending
  PROVE  \/ pc[r] \in Giving \cup Spending /\ req'[r].by = req[r].by
         \/ pc[r] = "idle" /\ AloneStarts(r)
<1>1. ASSUME B2CStarts(r) PROVE AloneStarts(r)
  <2>1. PICK k \in Customers, p \in Points :
          /\ Alone(k)
          /\ req'[r] = [by |-> k, point |-> p, seen |-> None, addr |-> point[p].addr]
    BY <1>1 DEF B2CStarts
  <2>2. req'[r].by = k
    BY <2>1
  <2> QED BY <2>1, <2>2 DEF Alone, Trading, AloneStarts
<1>2. ASSUME ValidateStarts(r) PROVE AloneStarts(r)
  <2>1. PICK k \in Customers : Alone(k) /\ req'[r] = [by |-> k, point |-> Old]
    BY <1>2 DEF ValidateStarts
  <2>2. req'[r].by = k
    BY <2>1
  <2> QED BY <2>1, <2>2 DEF Alone, Trading, AloneStarts
<1> QED BY <1>1, <1>2, Travels

\* Requests of a customer take turns.
LEMMA AloneStep ==
  ASSUME TypeOK, polite, AloneInv, [MarketNext]_allVars
  PROVE  AloneInv'
<1>1. UNCHANGED requests => AloneInv'
  BY DEF AloneInv, Trading, Building, requests
<1>2. ASSUME NEW r \in Requests, RequestStep(r) PROVE AloneInv'
  <2>1. Others(r)
    BY <1>2, AnyStep
  <2>2. r \in Trading' => \A q \in Trading \ {r} : req[q].by # req'[r].by
    BY <1>2, TradersStart DEF Trading, AloneInv, AloneStarts
  <2>3. \A q, s \in Trading' : req'[q].by = req'[s].by => q = s
    <3>1. Trading' \ {r} = Trading \ {r} /\ \A q \in Trading \ {r} : req'[q] = req[q]
      BY <2>1 DEF Others, Trading
    <3> QED BY <2>2, <3>1 DEF AloneInv
  <2>4. r \in Building' => Building \subseteq {r}
    <3>1. CASE pc[r] = "deploy"
      BY <3>1 DEF AloneInv, Building, Creating
    <3>2. CASE CreatePoint(r)
      BY <3>2, CreateEffect DEF Deploys, Building
    <3> QED BY <1>2, <3>1, <3>2, Builds DEF Building
  <2>5. \A q, s \in Building' : q = s
    <3>1. Building' \ {r} = Building \ {r}
      BY <2>1 DEF Others, Building
    <3> QED BY <2>4, <3>1 DEF AloneInv
  <2>6. (AloneInv)' <=> /\ \A q, s \in Trading' : req'[q].by = req'[s].by => q = s
                        /\ \A q, s \in Building' : q = s
    BY DEF AloneInv
  <2> QED BY <2>3, <2>5, <2>6
<1> QED BY <1>1, <1>2, MarketSteps DEF OperatorStep, Operated, Elsewhere

(***************************************************************************)
(* What such a request has read is still so.                               *)
(***************************************************************************)
TradeOf(r) ==
  LET p == req[r].point  have == balance[<<req[r].by, p>>] IN
  /\ p \in Stored
  /\ pc[r] \in Giving => req[r].addr = point[p].addr
  /\ pc[r] \in Reading => req[r].seen = have
  /\ pc[r] \in Spending => have # None /\ have >= 1

\* TradeInv, request by request.
LEMMA TradeParts == TradeInv <=> \A r \in Trading : TradeOf(r)
  BY DEF TradeInv, TradeOf

\* A request writes the balances of its own customer, when it is done.
LEMMA BalanceWrites ==
  ASSUME TypeOK, NEW r \in Requests, RequestStep(r)
  PROVE  \/ balance' = balance
         \/ /\ pc[r] \in {"credit", "debit"} /\ Ended(r)
            /\ \A k \in Customers, p \in Points :
                 k # req[r].by => balance'[<<k, p>>] = balance[<<k, p>>]
<1> DEFINE c == req[r].by
<1>1. CASE UpsertCustomerPoints(r)
  <2>1. /\ pc[r] = "credit" /\ Ended(r)
        /\ \/ balance' = [balance EXCEPT ![<<c, req[r].point>>] = Credited(r)]
           \/ UNCHANGED balance
    BY <1>1, CreditEffect
  <2> HIDE DEF c
  <2>2. \/ UNCHANGED balance
        \/ \A k \in Customers, p \in Points : k # c => balance'[<<k, p>>] = balance[<<k, p>>]
    BY <2>1 DEF TypeOK, Accounts
  <2> QED BY <2>1, <2>2 DEF c
<1>2. CASE Debit(r)
  <2>1. /\ pc[r] = "debit" /\ Ended(r)
        /\ balance' = [balance EXCEPT ![<<c, Old>>] = @ - 1] \/ UNCHANGED balance
    BY <1>2, DebitEffect
  <2> HIDE DEF c
  <2>2. \/ UNCHANGED balance
        \/ \A k \in Customers, p \in Points : k # c => balance'[<<k, p>>] = balance[<<k, p>>]
    BY <2>1 DEF TypeOK, Accounts
  <2> QED BY <2>1, <2>2 DEF c
<1>3. CASE ~UpsertCustomerPoints(r) /\ ~Debit(r)
  BY <1>3, B2CEffect, AssociateEffect, ReadEffect, CheckEffect, TransferEffect, RecordEffect,
     ValidateEffect, PayEffect, CreateEffect, DeployEffect, InsertEffect
     DEF RequestStep, Give, Spend, Create, books
<1> QED BY <1>1, <1>2, <1>3

\* A request leaves the rows of other points as they are.
LEMMA RowWrites ==
  ASSUME TypeOK, KnownInv, NEW r \in Requests, RequestStep(r), NEW p \in Stored
  PROVE  p \in Stored' /\ point'[p] = point[p] /\ (InsertPoint(r) => p # r)
<1>1. r \notin Stored
  BY AnyStep, Distinct DEF KnownInv, Made
<1>2. InsertPoint(r) => point'[p] = point[p]
  BY <1>1, InsertEffect DEF Stored
<1>3. ~InsertPoint(r) => point'[p] = point[p]
  BY AnyStep
<1> QED BY <1>1, <1>2, <1>3 DEF Stored

\* Of the request that moves.
LEMMA TradeMoves ==
  ASSUME TypeOK, KnownInv, NEW r \in Requests, RequestStep(r), r \in Trading',
         r \in Trading => TradeOf(r)
  PROVE  TradeOf(r)'
<1>0. UNCHANGED <<point, balance>>
  <2>1. balance' = balance
    BY BalanceWrites DEF Ended, Trading, Giving, Spending
  <2>2. ~InsertPoint(r)
    BY InsertEffect DEF Ended, Trading, Giving, Spending
  <2> QED BY <2>1, <2>2, AnyStep
<1>1. CASE pc[r] \in Giving \cup Spending /\ ~ReadCustomer(r)
  <2>0. pc'[r] \in Giving \cup Spending /\ ~Ended(r)
    BY DEF Trading, Ended, Giving, Spending
  <2>1. req'[r] = req[r]
    <3>1. CASE Give(r)
      BY <1>1, <2>0, <3>1, B2CEffect, AssociateEffect, CheckEffect, TransferEffect,
         RecordEffect, CreditEffect DEF Give, Onward, Giving, Spending
    <3>2. CASE Spend(r)
      BY <1>1, <2>0, <3>2, ValidateEffect, PayEffect, DebitEffect
         DEF Spend, Onward, Giving, Spending
    <3>3. CASE Create(r)
      BY <1>1, <3>3, CreateEffect, DeployEffect, InsertEffect DEF Create, Giving, Spending
    <3> QED BY <3>1, <3>2, <3>3 DEF RequestStep
  <2>2. /\ pc'[r] \in Giving => pc[r] \in Giving
        /\ pc'[r] \in Spending => pc[r] \in Spending
    BY <1>1, Travels, B2CEffect DEF Giving, Spending
  <2>3. pc'[r] \in Reading => pc[r] \in Reading
    BY <1>1, B2CEffect, AssociateEffect, CheckEffect, TransferEffect, RecordEffect, CreditEffect,
       ValidateEffect, PayEffect, DebitEffect, CreateEffect, DeployEffect, InsertEffect
       DEF RequestStep, Give, Spend, Create, Onward, Ended, Trading, Giving, Spending, Creating,
           Reading, B2CStarts
  <2>4. TradeOf(r)
    BY <1>1 DEF Trading
  <2> QED BY <1>0, <2>1, <2>2, <2>3, <2>4 DEF TradeOf, Stored
<1>2. CASE ReadCustomer(r)
  <2> DEFINE k == req[r].by  p == req[r].point  b == balance[<<k, p>>]
  <2>1. /\ pc[r] = "read" /\ pc'[r] = "check"
        /\ req'[r] = [by |-> k, point |-> p, seen |-> b, addr |-> req[r].addr]
    BY <1>2, ReadEffect DEF Ended, Trading, Giving, Spending
  <2>2. /\ req'[r].by = k /\ req'[r].point = p /\ req'[r].seen = b
        /\ req'[r].addr = req[r].addr
    BY <2>1
  <2>3. TradeOf(r) /\ pc[r] \in Giving /\ pc'[r] \notin Spending
    BY <2>1 DEF Trading, Giving, Spending
  <2>4. p \in Stored /\ req[r].addr = point[p].addr
    BY <2>3 DEF TradeOf
  <2> HIDE DEF k, p, b
  <2>5. b = balance[<<k, p>>]
    BY DEF b
  <2> QED BY <1>0, <2>2, <2>3, <2>4, <2>5 DEF TradeOf, Stored
<1>3. CASE pc[r] \notin Giving \cup Spending
  <2>1. CASE B2C(r) /\ B2CStarts(r)
    <3>1. PICK k \in Customers, p \in Points :
            /\ p \in Stored /\ pc'[r] \in {"associate", "read"}
            /\ req'[r] = [by |-> k, point |-> p, seen |-> None, addr |-> point[p].addr]
      BY <2>1 DEF B2CStarts
    <3>2. req'[r].point = p /\ req'[r].addr = point[p].addr
      BY <3>1
    <3>3. pc'[r] \notin Reading /\ pc'[r] \notin Spending
      BY <3>1 DEF Reading, Spending
    <3> QED BY <1>0, <3>1, <3>2, <3>3 DEF TradeOf, Stored
  <2>2. CASE ValidateStarts(r) /\ pc'[r] \in Spending
    <3>1. PICK k \in Customers : /\ balance[<<k, Old>>] # None /\ balance[<<k, Old>>] >= 1
                                 /\ req'[r] = [by |-> k, point |-> Old]
      BY <2>2 DEF ValidateStarts
    <3>2. req'[r].by = k /\ req'[r].point = Old
      BY <3>1
    <3>3. pc'[r] \notin Reading /\ pc'[r] \notin Giving
      BY <2>2 DEF Reading, Spending, Giving
    <3>4. Old \in Stored
      BY <3>1 DEF KnownInv, Points
    <3> QED BY <1>0, <3>1, <3>2, <3>3, <3>4 DEF TradeOf, Stored
  <2> QED BY <1>3, <2>1, <2>2, Travels DEF Trading
<1> QED BY <1>1, <1>2, <1>3

\* What a request has read stays true while it is alone.
LEMMA TradeStep ==
  ASSUME TypeOK, KnownInv, polite, AloneInv, TradeInv, [MarketNext]_allVars
  PROVE  TradeInv'
<1>1. ASSUME OperatorStep PROVE TradeInv'
  BY <1>1 DEF OperatorStep, Operated, TradeInv, Trading, Busy, requests
<1>2. ASSUME Elsewhere PROVE TradeInv'
  BY <1>2 DEF Elsewhere, TradeInv, Trading, Stored, books, requests
<1>3. ASSUME NEW r \in Requests, RequestStep(r) PROVE TradeInv'
  <2>1. Others(r)
    BY <1>3, AnyStep
  <2>2. r \in Trading' => TradeOf(r)'
    BY <1>3, TradeMoves, TradeParts
  <2>3. ASSUME NEW q \in Trading \ {r} PROVE TradeOf(q)'
    <3> DEFINE k == req[q].by  p == req[q].point
    <3>1. TradeOf(q) /\ k \in Customers /\ p \in Points /\ p \in Stored
      BY TradeParts, Fields DEF TradeOf, Trading, Points
    <3>2. p \in Stored' /\ point'[p] = point[p]
      BY <1>3, <3>1, RowWrites
    <3>3. balance'[<<k, p>>] = balance[<<k, p>>]
      <4>1. pc[r] \in {"credit", "debit"} => req[r].by # k
        BY DEF AloneInv, Trading, Giving, Spending
      <4> QED BY <1>3, <3>1, <4>1, BalanceWrites
    <3>4. pc'[q] = pc[q] /\ req'[q] = req[q]
      BY <2>1 DEF Others, Trading
    <3> QED BY <3>1, <3>2, <3>3, <3>4 DEF TradeOf
  <2>4. \A q \in Trading' : q = r \/ q \in Trading \ {r}
    BY <2>1 DEF Trading, Others
  <2>5. \A q \in Trading' : TradeOf(q)'
    BY <2>2, <2>3, <2>4
  <2> QED BY <2>5 DEF TradeInv, TradeOf
<1> QED BY <1>1, <1>2, <1>3, MarketSteps

(***************************************************************************)
(* Rows and their contracts.                                               *)
(***************************************************************************)
RowsOwn == \A p \in Stored : IF p \in moved THEN Of(p) \in moved ELSE Of(p) = p

BuildersOwn ==
  \A r \in Building :
    /\ pc[r] = "deploy" => req[r].addr = NextAddress
    /\ pc[r] = "insert" => contract[req[r].addr].of = r

\* AddressInv: of rows, and of requests that create points.
LEMMA AddressParts == AddressInv <=> RowsOwn /\ BuildersOwn
  BY DEF AddressInv, RowsOwn, BuildersOwn

\* Requests leave the history of the operator alone.
LEMMA MovedStays ==
  ASSUME TypeOK, NEW r \in Requests, RequestStep(r)
  PROVE  moved' = moved
  BY B2CEffect, AssociateEffect, ReadEffect, CheckEffect, TransferEffect, RecordEffect,
     CreditEffect, ValidateEffect, PayEffect, DebitEffect, CreateEffect, DeployEffect,
     InsertEffect DEF RequestStep, Give, Spend, Create, history, Loses

\* A row keeps naming a contract of its own.
LEMMA RowsOwnStep ==
  ASSUME TypeOK, ContractInv, KnownInv, polite, AddressInv, [MarketNext]_allVars
  PROVE  RowsOwn'
<1>1. \A a \in Used : contract'[a] = contract[a]
  BY ContractStep
<1>2. \A p \in Stored : point[p].addr \in Used
  BY DEF KnownInv
<1>3. RowsOwn
  BY AddressParts
<1>4. ASSUME NEW p \in Stored', p \in Stored, point'[p] = point[p], moved' = moved
      PROVE  IF p \in moved' THEN Of(p)' \in moved' ELSE Of(p)' = p
  BY <1>1, <1>2, <1>3, <1>4 DEF RowsOwn, Of
<1>5. ASSUME NEW r \in Requests, RequestStep(r) PROVE RowsOwn'
  <2>1. moved' = moved
    BY <1>5, MovedStays
  <2>2. ASSUME NEW p \in Stored', p \notin Stored
        PROVE  IF p \in moved' THEN Of(p)' \in moved' ELSE Of(p)' = p
    <3>1. InsertPoint(r)
      BY <1>5, <2>2, AnyStep DEF Stored
    <3>2. p = r /\ point'[r] = [addr |-> req[r].addr] /\ pc[r] = "insert"
      BY <2>2, <3>1, InsertEffect DEF Stored
    <3>3. contract[req[r].addr].of = r /\ req[r].addr \in Used
      BY <3>2, AddressParts DEF BuildersOwn, Building, Creating, ContractInv
    <3>4. point'[r].addr = req[r].addr
      BY <3>2
    <3> QED BY <1>1, <2>1, <3>2, <3>3, <3>4 DEF Of
  <2>3. \A p \in Stored' : p \in Stored => point'[p] = point[p]
    BY <1>5, RowWrites
  <2>4. \A p \in Stored' : IF p \in moved' THEN Of(p)' \in moved' ELSE Of(p)' = p
    BY <1>4, <2>1, <2>2, <2>3
  <2> QED BY <2>4 DEF RowsOwn, Of
<1>6. ASSUME OperatorStep PROVE RowsOwn'
  <2>1. contract' = contract
    BY <1>6 DEF OperatorStep, Operated, chain
  <2>2. CASE Reset
    <3>1. \A p \in Stored : Of(p) \in Points
      BY <1>2 DEF Of, ContractInv, Points
    <3> QED BY <2>1, <2>2, <3>1 DEF Reset, RowsOwn, Of, Stored
  <2>3. ASSUME NEW p \in Points, Deleted(p) PROVE RowsOwn'
    BY <1>3, <2>1, <2>3 DEF Deleted, RowsOwn, Of, Stored
  <2>4. ASSUME NEW p \in Points, Redirected(p) PROVE RowsOwn'
    <3>1. PICK a \in Used : /\ point'[p] = [addr |-> a]
                            /\ moved' = moved \cup {p, contract[a].of}
      BY <2>4 DEF Redirected
    <3>2. /\ \A q \in Points \ {p} : point'[q] = point[q]
          /\ p \in Stored
      BY <2>4 DEF Redirected
    <3>3. ASSUME NEW q \in Stored'
          PROVE  IF q \in moved' THEN contract'[point'[q].addr].of \in moved'
                                 ELSE contract'[point'[q].addr].of = q
      <4>1. CASE q = p
        <5>1. point'[p].addr = a
          BY <3>1
        <5> QED BY <2>1, <3>1, <4>1, <5>1
      <4>2. CASE q # p
        <5>1. q \in Stored /\ point'[q] = point[q]
          BY <3>2, <4>2 DEF Stored
        <5> QED BY <1>3, <2>1, <3>1, <5>1 DEF RowsOwn, Of
      <4> QED BY <4>1, <4>2
    <3> QED BY <3>3 DEF RowsOwn, Of
  <2> QED BY <1>6, <2>2, <2>3, <2>4 DEF OperatorStep
<1>7. Elsewhere => RowsOwn'
  BY <1>3 DEF Elsewhere, RowsOwn, Of, Stored, books, chain, history
<1> QED BY <1>5, <1>6, <1>7, MarketSteps

\* A request that creates points keeps its address to itself.
LEMMA BuildersOwnStep ==
  ASSUME TypeOK, ContractInv, polite, AloneInv, AddressInv, [MarketNext]_allVars
  PROVE  BuildersOwn'
<1>1. BuildersOwn /\ \A a \in Used : contract'[a] = contract[a]
  BY AddressParts, ContractStep
<1>2. ASSUME NEW r \in Requests, RequestStep(r) PROVE BuildersOwn'
  <2>1. Others(r)
    BY <1>2, AnyStep
  <2>2. CASE CreatePoint(r)
    <3>1. /\ pc'[r] = "deploy" /\ Building = {} /\ contract' = contract
          /\ \E h \in Lives : req'[r] = [life |-> h, addr |-> NextAddress]
      BY <2>2, CreateEffect DEF Deploys, Building, chain
    <3>2. req'[r].addr = NextAddress /\ NextAddress' = NextAddress
      BY <3>1 DEF NextAddress
    <3>3. \A q \in Building' : q = r
      BY <2>1, <3>1 DEF Building, Others
    <3> QED BY <3>1, <3>2, <3>3 DEF BuildersOwn
  <2>3. CASE Deploy(r) /\ pc[r] = "deploy"
    <3>1. \A q \in Building' : q = r
      BY <2>1, <2>3 DEF AloneInv, Building, Creating, Others
    <3>2. r \in Building' => /\ pc'[r] = "insert" /\ req'[r] = req[r] /\ Deployed(r)
      BY <1>2, <2>3, Builds, CreateEffect DEF Building
    <3>3. ASSUME r \in Building' PROVE contract'[req'[r].addr].of = r
      <4>1. req[r].addr = NextAddress
        BY <1>1, <2>3 DEF BuildersOwn, Building, Creating
      <4>2. contract'[NextAddress].of = r
        BY <2>1, <2>3, <3>2, <3>3, ContractAdded DEF Onward
      <4> QED BY <3>2, <3>3, <4>1, <4>2
    <3> QED BY <3>1, <3>2, <3>3 DEF BuildersOwn
  <2>4. CASE ~CreatePoint(r) /\ ~Deploy(r)
    <3>1. r \notin Building' /\ contract' = contract
      BY <1>2, <2>4, Builds, AnyStep DEF Building
    <3>2. NextAddress' = NextAddress /\ Building' \subseteq Building
      BY <2>1, <3>1 DEF NextAddress, Building, Others
    <3>3. \A q \in Building' : pc'[q] = pc[q] /\ req'[q] = req[q]
      BY <2>1, <3>1 DEF Building, Others
    <3> QED BY <1>1, <3>1, <3>2, <3>3 DEF BuildersOwn
  <2>5. Deploy(r) => pc[r] = "deploy"
    BY DeployEffect
  <2> QED BY <2>2, <2>3, <2>4, <2>5
<1>3. UNCHANGED <<contract, requests>> => BuildersOwn'
  BY <1>1 DEF BuildersOwn, Building, NextAddress, requests
<1> QED BY <1>2, <1>3, MarketSteps DEF OperatorStep, Operated, Elsewhere, chain

\* Every step keeps the addresses apart.
LEMMA AddressStep ==
  ASSUME TypeOK, ContractInv, KnownInv, polite, AloneInv, AddressInv, [MarketNext]_allVars
  PROVE  AddressInv'
<1>1. (RowsOwn /\ BuildersOwn => AddressInv)'
  BY AddressParts, PTL
<1> QED BY <1>1, RowsOwnStep, BuildersOwnStep

\* Two rows name the same contract only if the operator had a hand in both.
LEMMA AddressIsOwn ==
  ASSUME AddressInv, NEW p \in Stored, NEW q \in Stored \ moved,
         point[p].addr = point[q].addr
  PROVE  p = q
  BY DEF AddressInv, Of

(***************************************************************************)
(* Contracts without points of customers.                                  *)
(***************************************************************************)
\* The two handlers that move points, and the one that makes them.
LEMMA ChainWrites ==
  ASSUME TypeOK, NEW r \in Requests, RequestStep(r)
  PROVE  \/ UNCHANGED <<till, coins>>
         \/ /\ Transfer(r) /\ Moved(r) /\ pc[r] = "send"
            /\ Onward(r, "record") \/ Ended(r)
         \/ Pay(r) /\ Spent(req[r].by) /\ pc[r] = "pay" /\ (Onward(r, "debit") \/ Ended(r))
         \/ Deploy(r) /\ Deployed(r) /\ pc[r] = "deploy"
<1>1. CASE Give(r)
  BY <1>1, B2CEffect, AssociateEffect, ReadEffect, CheckEffect, TransferEffect, RecordEffect,
     CreditEffect DEF Give, chain
<1>2. CASE Spend(r)
  BY <1>2, ValidateEffect, PayEffect, DebitEffect DEF Spend, chain
<1>3. CASE Create(r)
  BY <1>3, CreateEffect, DeployEffect, InsertEffect DEF Create, chain
<1> QED BY <1>1, <1>2, <1>3 DEF RequestStep

\* Other contracts than the one that a transfer or a payment goes to.
LEMMA OtherContracts ==
  ASSUME TypeOK, NEW r \in Requests, NEW a \in Addresses,
         \/ Moved(r) /\ pc[r] \in Giving /\ a # req[r].addr
         \/ Spent(req[r].by) /\ pc[r] \in Spending /\ a # ListingToken
  PROVE  till'[a] = till[a] /\ \A k \in Customers : coins'[<<k, a>>] = coins[<<k, a>>]
<1> DEFINE c == req[r].by  b == req[r].addr
<1>1. till \in [Addresses -> Nat] /\ coins \in [Customers \X Addresses -> Nat]
  BY DEF TypeOK
<1>2. CASE Moved(r) /\ a # b
  <2>1. /\ till' = [till EXCEPT ![b] = @ - 1]
        /\ coins' = [coins EXCEPT ![<<c, b>>] = @ + 1]
    BY <1>2 DEF Moved
  <2> HIDE DEF c, b
  <2> QED BY <1>1, <1>2, <2>1
<1>3. CASE Spent(c) /\ a # ListingToken
  <2>1. /\ till' = [till EXCEPT ![ListingToken] = @ + 1]
        /\ coins' = [coins EXCEPT ![<<c, ListingToken>>] = @ - 1]
    BY <1>3 DEF Spent
  <2> HIDE DEF c
  <2> QED BY <1>1, <1>3, <2>1
<1> QED BY <1>2, <1>3

\* A contract that was not deployed has no points.
LEMMA EmptyStep ==
  ASSUME TypeOK, ContractInv, KnownInv, EmptyInv, [MarketNext]_allVars
  PROVE  EmptyInv'
<1>0. Used \subseteq Used'
  BY ContractStep
<1>1. coins' = coins => EmptyInv'
  BY <1>0 DEF EmptyInv
<1>2. ASSUME NEW r \in Requests, RequestStep(r) PROVE EmptyInv'
  <2>1. ASSUME NEW a \in Addresses \ Used, NEW k \in Customers
        PROVE  coins'[<<k, a>>] = 0
    <3>1. coins[<<k, a>>] = 0
      BY DEF EmptyInv
    <3>2. pc[r] \in Giving => a # req[r].addr
      BY DEF KnownInv
    <3>3. a # ListingToken
      BY DEF ContractInv, ListingToken
    <3>4. Deployed(r) => coins' = coins
      BY DEF Deployed
    <3>5. (pc[r] = "send" => pc[r] \in Giving) /\ (pc[r] = "pay" => pc[r] \in Spending)
      BY DEF Giving, Spending
    <3> QED BY <1>2, <3>1, <3>2, <3>3, <3>4, <3>5, ChainWrites, OtherContracts
  <2> QED BY <1>0, <2>1 DEF EmptyInv
<1> QED BY <1>1, <1>2, MarketSteps DEF OperatorStep, Operated, Elsewhere, chain

\* Nobody gets or spends points of a contract that has no row yet.
LEMMA FreshStep ==
  ASSUME TypeOK, ContractInv, KnownInv, EmptyInv, polite, AloneInv, TradeInv, AddressInv,
         FreshInv, [MarketNext]_allVars
  PROVE  FreshInv'
<1>1. ASSUME OperatorStep PROVE FreshInv'
  BY <1>1 DEF OperatorStep, Operated, FreshInv, Busy, Creating, requests
<1>2. Elsewhere => FreshInv'
  BY DEF Elsewhere, FreshInv, requests, chain, history
<1>3. ASSUME NEW r \in Requests, RequestStep(r) PROVE FreshInv'
  <2>1. Others(r) /\ moved' = moved
    BY <1>3, AnyStep, MovedStays
  <2> SUFFICES ASSUME NEW q \in Requests, pc'[q] = "insert", q \notin moved'
               PROVE  /\ till'[req'[q].addr] = Supply
                      /\ \A k \in Customers : coins'[<<k, req'[q].addr>>] = 0
    BY DEF FreshInv
  <2>2. CASE q = r
    <3>1. /\ Deploy(r) /\ pc[r] = "deploy" /\ req'[r] = req[r] /\ Deployed(r)
      BY <1>3, <2>2, Builds, CreateEffect DEF Creating
    <3>2. req[r].addr = NextAddress
      BY <3>1 DEF AddressInv, Building, Creating
    <3>3. NextAddress \in Addresses /\ NextAddress \notin Used
      BY <3>1, RoomLeft
    <3>4. till'[NextAddress] = Supply /\ coins' = coins
      BY <3>1, <3>3 DEF Deployed, TypeOK
    <3>5. \A k \in Customers : coins[<<k, NextAddress>>] = 0
      BY <3>3 DEF EmptyInv
    <3> HIDE DEF NextAddress
    <3> QED BY <2>2, <3>1, <3>2, <3>4, <3>5
  <2>3. CASE q # r
    <3> DEFINE a == req[q].addr
    <3>1. pc[q] = "insert" /\ req'[q] = req[q] /\ q \notin moved /\ q \in Building
      BY <2>1, <2>3 DEF Others, Building, Creating
    <3>2. /\ till[a] = Supply /\ \A k \in Customers : coins[<<k, a>>] = 0
          /\ a \in Addresses /\ contract[a].of = q
      BY <3>1, Fields DEF FreshInv, AddressInv, Building
    <3>3. pc[r] \in Giving => req[r].addr # a
      <4> SUFFICES ASSUME pc[r] \in Giving, req[r].addr = a PROVE FALSE
        OBVIOUS
      <4> DEFINE p == req[r].point
      <4>1. p \in Stored /\ point[p].addr = a
        BY TradeParts DEF TradeOf, Trading
      <4>2. Of(p) = q
        BY <3>2, <4>1 DEF Of
      <4>3. p = q
        BY <3>1, <4>1, <4>2 DEF AddressInv
      <4>4. q \notin Stored
        BY <3>1, Distinct DEF KnownInv, Made
      <4> QED BY <4>1, <4>3, <4>4
    <3>4. a # ListingToken
      BY <3>2, Distinct DEF ContractInv, ListingToken
    <3>5. (pc[r] = "send" => pc[r] \in Giving) /\ (pc[r] = "pay" => pc[r] \in Spending)
      BY DEF Giving, Spending
    <3>6. ~Deploy(r)
      BY <2>3, <3>1, DeployEffect DEF AloneInv, Building, Creating
    <3> HIDE DEF a
    <3>7. till'[a] = till[a] /\ \A k \in Customers : coins'[<<k, a>>] = coins[<<k, a>>]
      BY <1>3, <3>2, <3>3, <3>4, <3>5, <3>6, ChainWrites, OtherContracts
    <3> QED BY <3>1, <3>2, <3>7 DEF a
  <2> QED BY <2>2, <2>3
<1> QED BY <1>1, <1>2, <1>3, MarketSteps

\* What polite clients can rely on.
LEMMA PoliteStep ==
  ASSUME TypeOK, ContractInv, KnownInv, EmptyInv, PoliteInv, [MarketNext]_allVars
  PROVE  PoliteInv'
<1>1. polite' = polite
  BY AnyStep, MarketSteps DEF Others, OperatorStep, Operated, Elsewhere
<1> QED BY <1>1, AloneStep, TradeStep, AddressStep, FreshStep DEF PoliteInv

(***************************************************************************)
(* The balance in the database and in the contract.                        *)
(***************************************************************************)
Calm == Stored \ (lost \cup moved)

InDatabase(k, p) == IF balance[<<k, p>>] = None THEN 0 ELSE balance[<<k, p>>]

BalanceOf(k, p) ==
  InDatabase(k, p) + At({"record", "credit"}, k, p) - At({"debit"}, k, p)
    = coins[<<k, point[p].addr>>]

\* BalanceIsOnChain, account by account.
LEMMA BalanceParts ==
  BalanceIsOnChain <=> (polite => \A k \in Customers, p \in Calm : BalanceOf(k, p))
  BY DEF BalanceIsOnChain, BalanceOf, InDatabase, Calm

\* The credit of somebody who is alone adds one point.
LEMMA CreditedAlone ==
  ASSUME TypeOK, TradeInv, NEW r \in Requests, pc[r] = "credit"
  PROVE  LET b == balance[<<req[r].by, req[r].point>>] IN
         Credited(r) = IF b = None THEN 1 ELSE b + 1
<1> DEFINE k == req[r].by  p == req[r].point  b == balance[<<k, p>>]
<1>1. p \in Stored /\ req[r].seen = b
  BY DEF TradeInv, Trading, Giving, Reading
<1>2. point[p] # NoPoint
  BY <1>1 DEF Stored
<1> HIDE DEF b
<1>3. Credited(r) = IF b = None THEN 1 ELSE b + 1
  BY <1>1, <1>2 DEF Credited, b
<1> QED BY <1>3 DEF b

\* What the four quantities are.
LEMMA BalanceTypes ==
  ASSUME TypeOK, KnownInv, NEW k \in Customers, NEW p \in Stored
  PROVE  /\ p \in Points /\ <<k, p>> \in Accounts /\ point[p].addr \in Addresses
         /\ balance[<<k, p>>] \in Int \cup {None} /\ InDatabase(k, p) \in Int
         /\ coins[<<k, point[p].addr>>] \in Nat
         /\ At({"record", "credit"}, k, p) \in Nat /\ At({"debit"}, k, p) \in Nat
<1>1. p \in Points /\ <<k, p>> \in Accounts /\ point[p].addr \in Addresses
  BY DEF Stored, Accounts, KnownInv, Used
<1>2. balance[<<k, p>>] \in Int \cup {None} /\ coins[<<k, point[p].addr>>] \in Nat
  BY <1>1 DEF TypeOK
<1> QED BY <1>1, <1>2, AtType DEF InDatabase

\* A step that does not touch the account.
LEMMA BalanceKept ==
  ASSUME NEW k \in Customers, NEW p \in Stored, BalanceOf(k, p), point'[p] = point[p],
         balance'[<<k, p>>] = balance[<<k, p>>],
         coins'[<<k, point[p].addr>>] = coins[<<k, point[p].addr>>],
         At({"record", "credit"}, k, p)' = At({"record", "credit"}, k, p),
         At({"debit"}, k, p)' = At({"debit"}, k, p)
  PROVE  BalanceOf(k, p)'
<1>1. InDatabase(k, p)' = InDatabase(k, p)
  BY DEF InDatabase
<1> QED BY <1>1 DEF BalanceOf

\* The balance after a transfer.
LEMMA BalanceTransfer ==
  ASSUME TypeOK, KnownInv, TradeInv, AddressInv, NEW r \in Requests, Transfer(r),
         NEW k \in Customers, NEW p \in Calm, p \in Calm', BalanceOf(k, p)
  PROVE  BalanceOf(k, p)'
<1> DEFINE c == req[r].by  q == req[r].point  a == req[r].addr  b == point[p].addr
<1>1. /\ Others(r) /\ pc[r] = "send" /\ UNCHANGED books
      /\ \/ Moved(r) /\ Onward(r, "record")
         \/ Ended(r) /\ UNCHANGED <<chain, history>>
         \/ Ended(r) /\ Moved(r) /\ Loses(q)
  BY TransferEffect
<1>2. /\ c \in Customers /\ q \in Stored /\ a = point[q].addr /\ a \in Addresses
  BY <1>1, Fields DEF TradeInv, Trading, Giving
<1>3. /\ b \in Addresses /\ coins[<<k, b>>] \in Nat /\ p \in Stored
      /\ InDatabase(k, p) \in Int /\ At({"record", "credit"}, k, p) \in Nat
      /\ At({"debit"}, k, p) \in Nat
  BY BalanceTypes DEF Calm
<1>4. a = b <=> q = p
  BY <1>2, AddressIsOwn DEF Calm
<1>5. /\ InDatabase(k, p)' = InDatabase(k, p) /\ point'[p].addr = b
      /\ point' = point /\ balance' = balance
  BY <1>1 DEF InDatabase, books
<1>6. At({"debit"}, k, p)' = At({"debit"}, k, p)
  BY <1>1, AtMoves DEF Onward, Ended
<1>7. Moved(r) => coins'[<<k, b>>] = IF <<k, p>> = <<c, q>> THEN coins[<<k, b>>] + 1
                                                           ELSE coins[<<k, b>>]
  <2>1. Moved(r) => coins' = [coins EXCEPT ![<<c, a>>] = @ + 1]
    BY DEF Moved
  <2>2. <<k, b>> = <<c, a>> <=> <<k, p>> = <<c, q>>
    BY <1>4
  <2>3. coins \in [Customers \X Addresses -> Nat] /\ <<k, b>> \in Customers \X Addresses
    BY <1>3 DEF TypeOK
  <2> HIDE DEF c, q, a, b
  <2> QED BY <2>1, <2>2, <2>3
<1>8. CASE Moved(r) /\ Onward(r, "record")
  <2>1. At({"record", "credit"}, k, p)' = IF <<k, p>> = <<c, q>>
                                             THEN At({"record", "credit"}, k, p) + 1
                                             ELSE At({"record", "credit"}, k, p)
    BY <1>1, <1>8, AtMoves DEF Onward
  <2> HIDE DEF c, q, a, b
  <2> QED BY <1>3, <1>5, <1>6, <1>7, <1>8, <2>1 DEF BalanceOf, b
<1>9. CASE Ended(r)
  <2>1. At({"record", "credit"}, k, p)' = At({"record", "credit"}, k, p)
    BY <1>1, <1>9, AtMoves DEF Ended
  <2>2. coins'[<<k, b>>] = coins[<<k, b>>]
    <3>1. Loses(q) => p # q
      BY DEF Calm, Loses
    <3>2. CASE UNCHANGED <<chain, history>>
      BY <3>2 DEF chain
    <3>3. CASE Moved(r) /\ Loses(q)
      BY <1>7, <3>1, <3>3
    <3> QED BY <1>1, <1>9, <3>2, <3>3 DEF Onward, Ended
  <2> QED BY <1>3, <1>5, <1>6, <2>1, <2>2, BalanceKept
<1> QED BY <1>1, <1>8, <1>9

\* The balance after a record.
LEMMA BalanceRecord ==
  ASSUME TypeOK, TradeInv, NEW r \in Requests, CreateTransaction(r),
         NEW k \in Customers, NEW p \in Calm, p \in Calm', BalanceOf(k, p)
  PROVE  BalanceOf(k, p)'
<1> DEFINE c == req[r].by  q == req[r].point
<1>1. /\ Others(r) /\ pc[r] = "record" /\ UNCHANGED <<point, balance, chain>>
      /\ \/ Onward(r, "credit")
         \/ q \notin Stored /\ Ended(r)
         \/ Ended(r) /\ Loses(q)
  BY RecordEffect
<1>2. q \in Stored
  BY <1>1 DEF TradeInv, Trading, Giving
<1>3. Loses(q) => p # q
  BY DEF Calm, Loses
<1>4. At({"record", "credit"}, k, p)' = At({"record", "credit"}, k, p)
  <2>1. CASE Onward(r, "credit")
    BY <1>1, <2>1, AtMoves DEF Onward
  <2>2. CASE Ended(r) /\ p # q
    BY <1>1, <2>2, AtMoves DEF Ended
  <2> QED BY <1>1, <1>2, <1>3, <2>1, <2>2
<1>5. At({"debit"}, k, p)' = At({"debit"}, k, p)
  BY <1>1, AtMoves DEF Onward, Ended
<1>6. p \in Stored
  BY DEF Calm
<1> QED BY <1>1, <1>4, <1>5, <1>6, BalanceKept DEF chain

\* The balance after a credit.
LEMMA BalanceCredit ==
  ASSUME TypeOK, KnownInv, TradeInv, NEW r \in Requests, UpsertCustomerPoints(r),
         NEW k \in Customers, NEW p \in Calm, p \in Calm', BalanceOf(k, p)
  PROVE  BalanceOf(k, p)'
<1> DEFINE c == req[r].by  q == req[r].point  x == balance[<<k, p>>]
<1>1. /\ Others(r) /\ pc[r] = "credit" /\ Ended(r) /\ UNCHANGED <<point, chain>>
      /\ \/ balance' = [balance EXCEPT ![<<c, q>>] = Credited(r)]
         \/ Loses(q) /\ UNCHANGED balance
  BY CreditEffect
<1>2. /\ x \in Int \cup {None} /\ <<k, p>> \in Accounts /\ p \in Stored
      /\ InDatabase(k, p) \in Int /\ At({"record", "credit"}, k, p) \in Nat
      /\ At({"debit"}, k, p) \in Nat /\ coins[<<k, point[p].addr>>] \in Nat
  BY BalanceTypes DEF Calm
<1>3. At({"debit"}, k, p)' = At({"debit"}, k, p)
  BY <1>1, AtMoves DEF Ended
<1>4. CASE <<k, p>> # <<c, q>>
  <2>1. At({"record", "credit"}, k, p)' = At({"record", "credit"}, k, p)
    BY <1>1, <1>4, AtMoves DEF Ended
  <2>2. balance'[<<k, p>>] = x
    <3> HIDE DEF c, q
    <3> QED BY <1>1, <1>2, <1>4 DEF TypeOK
  <2> QED BY <1>1, <1>2, <1>3, <2>1, <2>2, BalanceKept DEF chain
<1>5. CASE <<k, p>> = <<c, q>>
  <2>1. /\ At({"record", "credit"}, k, p) = At({"record", "credit"}, k, p)' + 1
        /\ At({"record", "credit"}, k, p)' \in Nat
    BY <1>1, <1>5, AtMoves DEF Ended
  <2>2. ~Loses(q)
    BY <1>5 DEF Calm, Loses
  <2>3. Credited(r) = IF x = None THEN 1 ELSE x + 1
    BY <1>1, <1>5, CreditedAlone
  <2>4. balance'[<<k, p>>] = Credited(r)
    <3> HIDE DEF c, q
    <3> QED BY <1>1, <1>2, <1>5, <2>2 DEF TypeOK
  <2>5. InDatabase(k, p)' = InDatabase(k, p) + 1
    <3>1. None # 1 /\ (x # None => x + 1 \in Int /\ x + 1 # None)
      BY <1>2, Null
    <3> HIDE DEF x
    <3>2. InDatabase(k, p) = IF x = None THEN 0 ELSE x
      BY DEF InDatabase, x
    <3>3. InDatabase(k, p)' = IF x = None THEN 1 ELSE x + 1
      BY <2>3, <2>4, <3>1 DEF InDatabase
    <3> QED BY <1>2, <3>2, <3>3
  <2>6. coins'[<<k, point'[p].addr>>] = coins[<<k, point[p].addr>>]
    BY <1>1 DEF chain
  <2> HIDE DEF c, q, x
  <2> QED BY <1>2, <1>3, <2>1, <2>5, <2>6 DEF BalanceOf
<1> QED BY <1>4, <1>5

\* The balance after a payment.
LEMMA BalancePay ==
  ASSUME TypeOK, ContractInv, KnownInv, TradeInv, AddressInv, NEW r \in Requests, Pay(r),
         NEW k \in Customers, NEW p \in Calm, p \in Calm', BalanceOf(k, p)
  PROVE  BalanceOf(k, p)'
<1> DEFINE c == req[r].by  b == point[p].addr
<1>1. /\ Others(r) /\ pc[r] = "pay" /\ UNCHANGED books
      /\ \/ Spent(c) /\ Onward(r, "debit") /\ point[Old].addr = ListingToken
         \/ Ended(r) /\ UNCHANGED <<chain, history>>
         \/ Ended(r) /\ Spent(c) /\ Loses(Old)
  BY PayEffect
<1>2. c \in Customers /\ req[r].point = Old
  BY <1>1, Fields DEF Spending
<1>3. /\ b \in Addresses /\ coins[<<k, b>>] \in Nat /\ p \in Stored
      /\ InDatabase(k, p) \in Int /\ At({"record", "credit"}, k, p) \in Nat
      /\ At({"debit"}, k, p) \in Nat
  BY BalanceTypes DEF Calm
<1>4. b = ListingToken => p = Old
  BY <1>3 DEF AddressInv, Of, ContractInv, ListingToken, Calm
<1>5. /\ InDatabase(k, p)' = InDatabase(k, p) /\ point'[p].addr = b
      /\ point' = point /\ balance' = balance
  BY <1>1 DEF InDatabase, books
<1>6. At({"record", "credit"}, k, p)' = At({"record", "credit"}, k, p)
  BY <1>1, AtMoves DEF Onward, Ended
<1>7. Spent(c) => /\ <<k, b>> = <<c, ListingToken>> => coins'[<<k, b>>] = coins[<<k, b>>] - 1
                  /\ <<k, b>> # <<c, ListingToken>> => coins'[<<k, b>>] = coins[<<k, b>>]
  <2>1. coins \in [Customers \X Addresses -> Nat] /\ <<k, b>> \in Customers \X Addresses
    BY <1>3 DEF TypeOK
  <2> HIDE DEF c, b
  <2> QED BY <2>1 DEF Spent
<1>8. CASE Spent(c) /\ Onward(r, "debit") /\ point[Old].addr = ListingToken
  <2>1. At({"debit"}, k, p)' = IF <<k, p>> = <<c, Old>> THEN At({"debit"}, k, p) + 1
                                                        ELSE At({"debit"}, k, p)
    BY <1>1, <1>2, <1>8, AtMoves DEF Onward
  <2>2. p = Old => b = ListingToken
    BY <1>8
  <2> HIDE DEF c, b
  <2> QED BY <1>3, <1>4, <1>5, <1>6, <1>7, <1>8, <2>1, <2>2 DEF BalanceOf, b
<1>9. CASE Ended(r)
  <2>1. At({"debit"}, k, p)' = At({"debit"}, k, p)
    BY <1>1, <1>9, AtMoves DEF Ended
  <2>2. coins'[<<k, b>>] = coins[<<k, b>>]
    <3>1. CASE UNCHANGED <<chain, history>>
      BY <3>1 DEF chain
    <3>2. CASE Spent(c) /\ Loses(Old)
      <4>1. p # Old
        BY <3>2 DEF Calm, Loses
      <4> QED BY <1>4, <1>7, <3>2, <4>1
    <3> QED BY <1>1, <1>9, <3>1, <3>2 DEF Onward, Ended
  <2> QED BY <1>3, <1>5, <1>6, <2>1, <2>2, BalanceKept
<1> QED BY <1>1, <1>8, <1>9

\* The balance after a debit.
LEMMA BalanceDebit ==
  ASSUME TypeOK, KnownInv, TradeInv, NEW r \in Requests, Debit(r),
         NEW k \in Customers, NEW p \in Calm, p \in Calm', BalanceOf(k, p)
  PROVE  BalanceOf(k, p)'
<1> DEFINE c == req[r].by  x == balance[<<k, p>>]
<1>1. /\ Others(r) /\ pc[r] = "debit" /\ Ended(r) /\ UNCHANGED <<point, chain>>
      /\ \/ balance' = [balance EXCEPT ![<<c, Old>>] = @ - 1]
         \/ balance[<<c, Old>>] = None
         \/ Loses(Old) /\ UNCHANGED balance
  BY DebitEffect
<1>2. /\ x \in Int \cup {None} /\ <<k, p>> \in Accounts /\ p \in Stored
      /\ InDatabase(k, p) \in Int /\ At({"record", "credit"}, k, p) \in Nat
      /\ At({"debit"}, k, p) \in Nat /\ coins[<<k, point[p].addr>>] \in Nat
  BY BalanceTypes DEF Calm
<1>3. c \in Customers /\ req[r].point = Old /\ balance[<<c, Old>>] # None
  BY <1>1, Fields DEF Spending, TradeInv, Trading
<1>4. At({"record", "credit"}, k, p)' = At({"record", "credit"}, k, p)
  BY <1>1, AtMoves DEF Ended
<1>5. CASE <<k, p>> # <<c, Old>>
  <2>1. At({"debit"}, k, p)' = At({"debit"}, k, p)
    BY <1>1, <1>3, <1>5, AtMoves DEF Ended
  <2>2. balance'[<<k, p>>] = x
    <3> HIDE DEF c
    <3> QED BY <1>1, <1>2, <1>3, <1>5 DEF TypeOK
  <2> QED BY <1>1, <1>2, <1>4, <2>1, <2>2, BalanceKept DEF chain
<1>6. CASE <<k, p>> = <<c, Old>>
  <2>1. /\ At({"debit"}, k, p) = At({"debit"}, k, p)' + 1 /\ At({"debit"}, k, p)' \in Nat
    BY <1>1, <1>3, <1>6, AtMoves DEF Ended
  <2>2. ~Loses(Old)
    BY <1>6 DEF Calm, Loses
  <2>3. x # None /\ x \in Int /\ balance'[<<k, p>>] = x - 1
    <3> HIDE DEF c
    <3> QED BY <1>1, <1>2, <1>3, <1>6, <2>2 DEF TypeOK
  <2>4. InDatabase(k, p)' = InDatabase(k, p) - 1
    <3>1. x - 1 # None
      BY <2>3, Null
    <3> HIDE DEF x
    <3>2. InDatabase(k, p) = x
      BY <2>3 DEF InDatabase, x
    <3>3. InDatabase(k, p)' = x - 1
      BY <2>3, <3>1 DEF InDatabase
    <3> QED BY <3>2, <3>3
  <2>5. coins'[<<k, point'[p].addr>>] = coins[<<k, point[p].addr>>]
    BY <1>1 DEF chain
  <2> HIDE DEF c, x
  <2> QED BY <1>2, <1>4, <2>1, <2>4, <2>5 DEF BalanceOf
<1> QED BY <1>5, <1>6

\* The handlers that leave balances, coins and these places alone.
LEMMA BalanceQuiet ==
  ASSUME TypeOK, NEW r \in Requests, RequestStep(r), ~Transfer(r), ~CreateTransaction(r),
         ~UpsertCustomerPoints(r), ~Pay(r), ~Debit(r)
  PROVE  /\ UNCHANGED <<balance, coins>>
         /\ pc[r] \notin {"record", "credit", "debit"}
         /\ pc'[r] \notin {"record", "credit", "debit"}
<1>1. CASE Give(r)
  BY <1>1, B2CEffect, AssociateEffect, ReadEffect, CheckEffect
     DEF Give, books, chain, B2CStarts, Onward, Ended
<1>2. CASE Spend(r)
  BY <1>2, ValidateEffect DEF Spend, books, chain
<1>3. CASE Create(r)
  BY <1>3, CreateEffect, DeployEffect, InsertEffect
     DEF Create, books, chain, Deployed, Onward, Ended
<1> QED BY <1>1, <1>2, <1>3 DEF RequestStep

\* A row that was inserted starts with nothing.
LEMMA NobodyAsks ==
  ASSUME TypeOK, KnownInv, NEW p \in Points, p \notin Made, NEW places,
         places \subseteq Giving \cup Spending, NEW k
  PROVE  At(places, k, p) = 0
<1> DEFINE S == {r \in Requests : pc[r] \in places /\ req[r].by = k /\ req[r].point = p}
<1>1. S = {}
  BY DEF KnownInv
<1> QED BY <1>1, FS_EmptySet DEF At

\* A new row is written by the request it is named after, with its contract.
LEMMA NewRow ==
  ASSUME TypeOK, ContractInv, KnownInv, FreshInv, NEW r \in Requests, RequestStep(r),
         NEW p \in Calm', p \notin Stored
  PROVE  /\ InsertPoint(r) /\ p = r /\ p \in Points /\ p \notin Made /\ Others(r) /\ Ended(r)
         /\ pc[r] = "insert" /\ point'[p].addr = req[r].addr
         /\ UNCHANGED <<balance, joined, recorded, bought, chain, history>>
         /\ till[req[r].addr] = Supply
         /\ \A k \in Customers : coins[<<k, req[r].addr>>] = 0
<1>1. InsertPoint(r)
  BY AnyStep DEF Calm, Stored
<1>2. /\ p = r /\ point'[p] = [addr |-> req[r].addr] /\ p \in Points /\ pc[r] = "insert"
      /\ UNCHANGED <<balance, joined, recorded, bought, chain, history>> /\ Others(r) /\ Ended(r)
  BY <1>1, InsertEffect DEF Calm, Stored
<1>3. p \notin moved /\ p \notin Made
  BY <1>2, Distinct DEF Calm, history, Made
<1> QED BY <1>1, <1>2, <1>3 DEF FreshInv

\* A new kind of points has no balances.
LEMMA BalanceNew ==
  ASSUME TypeOK, ContractInv, KnownInv, FreshInv, NEW r \in Requests, RequestStep(r),
         NEW k \in Customers, NEW p \in Calm', p \notin Stored
  PROVE  BalanceOf(k, p)'
<1>1. /\ p = r /\ p \in Points /\ p \notin Made /\ Others(r) /\ Ended(r) /\ pc[r] = "insert"
      /\ point'[p].addr = req[r].addr /\ coins' = coins /\ balance' = balance
      /\ coins[<<k, req[r].addr>>] = 0
  BY NewRow DEF chain
<1>2. InDatabase(k, p)' = 0
  BY <1>1 DEF KnownInv, InDatabase
<1>3. /\ At({"record", "credit"}, k, p) = 0 /\ At({"debit"}, k, p) = 0
  BY <1>1, NobodyAsks DEF Giving, Spending
<1>4. /\ At({"record", "credit"}, k, p)' = 0 /\ At({"debit"}, k, p)' = 0
  BY <1>1, <1>3, AtMoves DEF Ended
<1> QED BY <1>1, <1>2, <1>4 DEF BalanceOf

\* The operator takes points out of the comparison.
LEMMA OperatorCalm ==
  ASSUME TypeOK, OperatorStep, NEW p \in Calm'
  PROVE  /\ p \in Calm /\ point'[p] = point[p] /\ UNCHANGED <<chain, requests>>
         /\ \A k \in Customers : /\ balance'[<<k, p>>] = balance[<<k, p>>]
                                 /\ recorded'[<<k, p>>] = recorded[<<k, p>>]
         /\ p = Old => bought' = bought
<1>1. p \in Points
  BY DEF Calm, Stored
<1>2. CASE Reset
  BY <1>1, <1>2 DEF Reset, Calm
<1>3. ASSUME NEW q \in Points, Deleted(q) PROVE p # q
  BY <1>3 DEF Deleted, Calm, Stored
<1>4. ASSUME NEW q \in Points, Redirected(q) PROVE p # q /\ moved \subseteq moved'
  BY <1>4 DEF Redirected, Calm
<1>5. \A k \in Customers : <<k, p>> \in Accounts
  BY <1>1 DEF Accounts
<1>6. lost' = lost /\ UNCHANGED <<chain, requests>>
  BY DEF OperatorStep, Operated
<1> QED BY <1>2, <1>3, <1>4, <1>5, <1>6 DEF OperatorStep, Deleted, Redirected, Calm, Stored

\* Points stay lost.
LEMMA LostGrows ==
  ASSUME TypeOK, NEW r \in Requests, RequestStep(r)
  PROVE  lost \subseteq lost'
  BY TransferEffect, RecordEffect, RecordersOnly DEF Loses, history

\* Every step keeps the balance and the chain together.
LEMMA BalanceStep ==
  ASSUME TypeOK, ContractInv, KnownInv, polite, TradeInv, AddressInv, FreshInv,
         BalanceIsOnChain, [MarketNext]_allVars
  PROVE  BalanceIsOnChain'
<1>1. \A k \in Customers, p \in Calm : BalanceOf(k, p)
  BY BalanceParts
<1>2. ASSUME NEW r \in Requests, RequestStep(r), NEW k \in Customers, NEW p \in Calm'
      PROVE  BalanceOf(k, p)'
  <2>1. CASE p \notin Stored
    BY <1>2, <2>1, BalanceNew
  <2>2. CASE p \in Stored
    <3>1. p \in Calm
      <4>1. lost \subseteq lost' /\ moved' = moved
        BY <1>2, MovedStays, LostGrows
      <4> QED BY <2>2, <4>1 DEF Calm
    <3>2. BalanceOf(k, p) /\ Others(r) /\ point'[p] = point[p]
      BY <1>1, <1>2, <2>2, <3>1, AnyStep, RowWrites
    <3>3. CASE Transfer(r)
      BY <1>2, <3>1, <3>2, <3>3, BalanceTransfer
    <3>4. CASE CreateTransaction(r)
      BY <1>2, <3>1, <3>2, <3>4, BalanceRecord
    <3>5. CASE UpsertCustomerPoints(r)
      BY <1>2, <3>1, <3>2, <3>5, BalanceCredit
    <3>6. CASE Pay(r)
      BY <1>2, <3>1, <3>2, <3>6, BalancePay
    <3>7. CASE Debit(r)
      BY <1>2, <3>1, <3>2, <3>7, BalanceDebit
    <3>8. CASE /\ ~Transfer(r) /\ ~CreateTransaction(r) /\ ~UpsertCustomerPoints(r)
               /\ ~Pay(r) /\ ~Debit(r)
      <4>1. /\ UNCHANGED <<balance, coins>> /\ pc[r] \notin {"record", "credit", "debit"}
            /\ pc'[r] \notin {"record", "credit", "debit"}
        BY <1>2, <3>8, BalanceQuiet
      <4>2. /\ At({"record", "credit"}, k, p)' = At({"record", "credit"}, k, p)
            /\ At({"debit"}, k, p)' = At({"debit"}, k, p)
        BY <3>2, <4>1, AtMoves
      <4> QED BY <2>2, <3>2, <4>1, <4>2, BalanceKept
    <3> QED BY <3>3, <3>4, <3>5, <3>6, <3>7, <3>8
  <2> QED BY <2>1, <2>2
<1>3. ASSUME OperatorStep \/ Elsewhere, NEW k \in Customers, NEW p \in Calm'
      PROVE  BalanceOf(k, p)'
  <2>1. /\ p \in Calm /\ point'[p] = point[p] /\ balance'[<<k, p>>] = balance[<<k, p>>]
        /\ coins' = coins /\ UNCHANGED requests
    BY <1>3, OperatorCalm DEF Elsewhere, books, chain, history, Calm, Stored
  <2>2. /\ At({"record", "credit"}, k, p)' = At({"record", "credit"}, k, p)
        /\ At({"debit"}, k, p)' = At({"debit"}, k, p)
    BY <2>1, AtStays
  <2>3. p \in Stored
    BY <2>1 DEF Calm
  <2> QED BY <1>1, <2>1, <2>2, <2>3, BalanceKept
<1>4. \A k \in Customers, p \in Calm' : BalanceOf(k, p)'
  BY <1>2, <1>3, MarketSteps
<1> QED BY <1>4 DEF BalanceIsOnChain, BalanceOf, InDatabase, Calm

(***************************************************************************)
(* No balance is below zero.                                               *)
(***************************************************************************)
\* No step makes a balance negative.
LEMMA OverdrawnStep ==
  ASSUME TypeOK, polite, TradeInv, NeverOverdrawn, [MarketNext]_allVars
  PROVE  NeverOverdrawn'
<1>0. \A a \in Accounts : /\ balance[a] \in Int \cup {None}
                          /\ balance[a] # None => balance[a] >= 0
  BY DEF NeverOverdrawn, TypeOK
<1>1. ASSUME \A a \in Accounts : \/ balance'[a] = balance[a]
                                 \/ balance'[a] = None
                                 \/ balance'[a] \in Nat
      PROVE  NeverOverdrawn'
  BY <1>0, <1>1 DEF NeverOverdrawn
<1>2. ASSUME NEW r \in Requests, RequestStep(r) PROVE NeverOverdrawn'
  <2> DEFINE c == req[r].by  q == req[r].point
  <2>1. CASE UpsertCustomerPoints(r)
    <3>1. /\ pc[r] = "credit"
          /\ \/ balance' = [balance EXCEPT ![<<c, q>>] = Credited(r)]
             \/ UNCHANGED balance
      BY <2>1, CreditEffect
    <3>2. <<c, q>> \in Accounts
      BY <3>1, Fields DEF Giving, Accounts
    <3>3. Credited(r) \in Nat
      BY <1>0, <3>1, <3>2, CreditedAlone
    <3> HIDE DEF c, q
    <3> QED BY <1>1, <3>1, <3>3 DEF TypeOK
  <2>2. CASE Debit(r)
    <3>1. /\ pc[r] = "debit"
          /\ \/ balance' = [balance EXCEPT ![<<c, Old>>] = @ - 1]
             \/ UNCHANGED balance
      BY <2>2, DebitEffect
    <3>2. /\ <<c, Old>> \in Accounts /\ balance[<<c, Old>>] # None
          /\ balance[<<c, Old>>] >= 1
      BY <3>1, Fields DEF Spending, Accounts, TradeInv, Trading
    <3>3. balance[<<c, Old>>] - 1 \in Nat
      BY <1>0, <3>2
    <3> HIDE DEF c
    <3> QED BY <1>1, <3>1, <3>3 DEF TypeOK
  <2>3. CASE ~UpsertCustomerPoints(r) /\ ~Debit(r)
    <3>1. balance' = balance
      BY <1>2, <2>3, B2CEffect, AssociateEffect, ReadEffect, CheckEffect, TransferEffect,
         RecordEffect, ValidateEffect, PayEffect, CreateEffect, DeployEffect, InsertEffect
         DEF RequestStep, Give, Spend, Create, books
    <3> QED BY <1>1, <3>1
  <2> QED BY <2>1, <2>2, <2>3
<1>3. ASSUME OperatorStep PROVE NeverOverdrawn'
  <2>1. \A a \in Accounts : \/ balance'[a] = balance[a] \/ balance'[a] = None
                            \/ balance'[a] \in Nat
    BY <1>3 DEF OperatorStep, Reset, Deleted, Redirected
  <2> QED BY <1>1, <2>1
<1>4. Elsewhere => NeverOverdrawn'
  BY <1>1 DEF Elsewhere, books
<1> QED BY <1>2, <1>3, <1>4, MarketSteps

(***************************************************************************)
(* The dashboard.                                                          *)
(***************************************************************************)
Transfers(p) == [k \in Customers |-> recorded[<<k, p>>]]
Waits(place, p) == Cardinality({r \in Requests : pc[r] = place /\ req[r].point = p})
Open(p)   == Waits("record", p)
Paying(p) == Waits("debit", p)

DashboardOf(p) ==
  till[point[p].addr] + (Tally(Transfers(p)) + Payments(p)) + Open(p)
    = Supply + 2 * Payments(p) + Paying(p)

\* DashboardAddsUp, by kind of points.
LEMMA DashboardParts == DashboardAddsUp <=> (polite => \A p \in Calm : DashboardOf(p))
  BY DEF DashboardAddsUp, DashboardOf, Calm, GetPointsData, GetTransactionStats, Transfers,
         Open, Paying, Waits

\* Requests at a place where they are about to write a row, when one moves.
LEMMA WaitsMoves ==
  ASSUME NEW r \in Requests, Others(r), NEW p, NEW place
  PROVE  LET here  == pc[r] = place /\ req[r].point = p
             there == pc'[r] = place /\ req'[r].point = p
         IN /\ Waits(place, p) \in Nat /\ Waits(place, p)' \in Nat
            /\ here /\ ~there => Waits(place, p) = Waits(place, p)' + 1
            /\ ~here /\ there => Waits(place, p)' = Waits(place, p) + 1
            /\ (here <=> there) => Waits(place, p)' = Waits(place, p)
<1> DEFINE S == {q \in Requests : pc[q] = place /\ req[q].point = p}
           T == {q \in Requests : pc'[q] = place /\ req'[q].point = p}
<1>1. Waits(place, p) = Cardinality(S) /\ Waits(place, p)' = Cardinality(T)
  BY DEF Waits
<1>2. IsFiniteSet(S) /\ IsFiniteSet(T)
  BY Finite, FS_Subset
<1>3. S \ {r} = T \ {r}
  BY DEF Others
<1>4. /\ r \in S <=> pc[r] = place /\ req[r].point = p
      /\ r \in T <=> pc'[r] = place /\ req'[r].point = p
  OBVIOUS
<1> HIDE DEF S, T
<1> QED BY <1>1, <1>2, <1>3, <1>4, OneMoves

\* They are a number.
LEMMA WaitsType ==
  ASSUME NEW p, NEW place PROVE Waits(place, p) \in Nat
<1> DEFINE S == {q \in Requests : pc[q] = place /\ req[q].point = p}
<1>1. IsFiniteSet(S)
  BY Finite, FS_Subset
<1> QED BY <1>1, FS_CardinalityType DEF Waits

\* A request that is not about to record a payment, before or after.
LEMMA PayingStays ==
  ASSUME NEW r \in Requests, Others(r), NEW p, pc[r] # "debit", pc'[r] # "debit"
  PROVE  Paying(p)' = Paying(p)
  BY WaitsMoves DEF Paying

\* Payments are made and recorded by two steps.
LEMMA PayersOnly ==
  ASSUME TypeOK, NEW r \in Requests, RequestStep(r), ~Pay(r), ~Debit(r)
  PROVE  bought' = bought /\ pc[r] # "debit" /\ pc'[r] # "debit"
<1>1. CASE Give(r)
  BY <1>1, B2CEffect, AssociateEffect, ReadEffect, CheckEffect, TransferEffect, RecordEffect,
     CreditEffect DEF Give, B2CStarts, Onward, Ended, books
<1>2. CASE Spend(r)
  BY <1>2, ValidateEffect DEF Spend, books
<1>3. CASE Create(r)
  BY <1>3, CreateEffect, DeployEffect, InsertEffect DEF Create, Onward, Ended, books
<1> QED BY <1>1, <1>2, <1>3 DEF RequestStep

\* The transfers of a kind of points have a sum.
LEMMA TransfersTallied ==
  ASSUME TypeOK, NEW p \in Points
  PROVE  Tallied(Transfers(p)) /\ Tally(Transfers(p)) \in Nat
<1>1. \A k \in Customers : recorded[<<k, p>>] \in Nat
  BY DEF TypeOK, Accounts
<1>2. Tallied(Transfers(p))
  BY <1>1, Finite DEF Tallied, Transfers
<1> QED BY <1>2, TallyType

\* The figures are numbers.
LEMMA DashboardTypes ==
  ASSUME TypeOK, KnownInv, NEW p \in Stored
  PROVE  /\ p \in Points /\ point[p].addr \in Used /\ point[p].addr \in Addresses
         /\ till[point[p].addr] \in Nat /\ Tally(Transfers(p)) \in Nat
         /\ Open(p) \in Nat /\ Paying(p) \in Nat /\ Payments(p) \in Nat
<1>1. p \in Points /\ point[p].addr \in Used /\ point[p].addr \in Addresses
  BY DEF Stored, KnownInv, Used
<1>2. Open(p) \in Nat /\ Paying(p) \in Nat
  BY WaitsType DEF Open, Paying
<1>3. till[point[p].addr] \in Nat /\ Payments(p) \in Nat
  BY <1>1 DEF TypeOK, Payments
<1> QED BY <1>1, <1>2, <1>3, TransfersTallied

\* A step that touches none of the figures.
LEMMA DashboardKept ==
  ASSUME NEW p \in Stored, DashboardOf(p), point'[p] = point[p],
         till'[point[p].addr] = till[point[p].addr],
         \A k \in Customers : recorded'[<<k, p>>] = recorded[<<k, p>>], Open(p)' = Open(p),
         Payments(p)' = Payments(p), Paying(p)' = Paying(p)
  PROVE  DashboardOf(p)'
<1>1. Transfers(p)' = Transfers(p)
  BY DEF Transfers
<1>2. Tally(Transfers(p))' = Tally(Transfers(p))
  BY <1>1
<1> QED BY <1>2 DEF DashboardOf

\* The figures after a transfer.
LEMMA DashboardTransfer ==
  ASSUME TypeOK, KnownInv, TradeInv, AddressInv, NEW r \in Requests, Transfer(r),
         NEW p \in Calm, p \in Calm', DashboardOf(p)
  PROVE  DashboardOf(p)'
<1> DEFINE q == req[r].point  a == req[r].addr  b == point[p].addr
<1>1. /\ Others(r) /\ pc[r] = "send" /\ UNCHANGED books
      /\ \/ Moved(r) /\ Onward(r, "record")
         \/ Ended(r) /\ UNCHANGED <<chain, history>>
         \/ Ended(r) /\ Moved(r) /\ Loses(q)
  BY TransferEffect
<1>2. q \in Stored /\ a = point[q].addr /\ a \in Addresses
  BY <1>1, Fields DEF TradeInv, Trading, Giving
<1>3. /\ b \in Addresses /\ till[b] \in Nat /\ p \in Stored
      /\ Tally(Transfers(p)) \in Nat /\ Open(p) \in Nat
      /\ Payments(p) \in Nat /\ Paying(p) \in Nat
  BY DashboardTypes DEF Calm
<1>4. a = b <=> q = p
  BY <1>2, AddressIsOwn DEF Calm
<1>5. /\ point' = point /\ recorded' = recorded
      /\ Tally(Transfers(p))' = Tally(Transfers(p))
      /\ Payments(p)' = Payments(p) /\ Paying(p)' = Paying(p)
  <2>1. point' = point /\ recorded' = recorded /\ bought' = bought
    BY <1>1 DEF books
  <2>2. Transfers(p)' = Transfers(p) /\ Payments(p)' = Payments(p)
    BY <2>1 DEF Transfers, Payments
  <2>3. Paying(p)' = Paying(p)
    BY <1>1, PayingStays DEF Onward, Ended
  <2> QED BY <2>1, <2>2, <2>3
<1>6. Moved(r) => till'[b] = IF p = q THEN till[b] - 1 ELSE till[b]
  <2>1. till \in [Addresses -> Nat]
    BY DEF TypeOK
  <2>2. Moved(r) => till' = [till EXCEPT ![a] = @ - 1]
    BY DEF Moved
  <2> HIDE DEF q, a, b
  <2> QED BY <1>3, <1>4, <2>1, <2>2
<1>7. CASE Moved(r) /\ Onward(r, "record")
  <2>1. Open(p)' = IF p = q THEN Open(p) + 1 ELSE Open(p)
    BY <1>1, <1>7, WaitsMoves DEF Open, Onward
  <2>2. till'[point'[p].addr] = IF p = q THEN till[b] - 1 ELSE till[b]
    BY <1>5, <1>6, <1>7
  <2> HIDE DEF q, a
  <2> QED BY <1>3, <1>5, <2>1, <2>2 DEF DashboardOf
<1>8. CASE Ended(r)
  <2>1. Open(p)' = Open(p)
    BY <1>1, <1>8, WaitsMoves DEF Open, Ended
  <2>2. till'[b] = till[b]
    <3>1. Loses(q) => p # q
      BY DEF Calm, Loses
    <3>2. CASE UNCHANGED <<chain, history>>
      BY <3>2 DEF chain
    <3>3. CASE Moved(r) /\ Loses(q)
      BY <1>6, <3>1, <3>3
    <3> QED BY <1>1, <1>8, <3>2, <3>3 DEF Onward, Ended
  <2> QED BY <1>3, <1>5, <2>1, <2>2, DashboardKept
<1> QED BY <1>1, <1>7, <1>8

\* The figures after a record.
LEMMA DashboardRecord ==
  ASSUME TypeOK, TypeOK', KnownInv, TradeInv, NEW r \in Requests, CreateTransaction(r),
         NEW p \in Calm, p \in Calm', DashboardOf(p)
  PROVE  DashboardOf(p)'
<1> DEFINE c == req[r].by  q == req[r].point
<1>1. /\ Others(r) /\ pc[r] = "record" /\ UNCHANGED <<point, bought, chain>>
      /\ \/ Onward(r, "credit") /\ recorded' = [recorded EXCEPT ![<<c, q>>] = @ + 1]
         \/ q \notin Stored /\ Ended(r) /\ UNCHANGED recorded
         \/ Ended(r) /\ Loses(q) /\ UNCHANGED recorded
  BY RecordEffect
<1>2. q \in Stored /\ c \in Customers
  BY <1>1, Fields DEF TradeInv, Trading, Giving
<1>3. /\ p \in Points /\ p \in Stored /\ till[point[p].addr] \in Nat
      /\ Tally(Transfers(p)) \in Nat /\ Open(p) \in Nat
      /\ Payments(p) \in Nat /\ Paying(p) \in Nat
  BY DashboardTypes DEF Calm
<1>4. Loses(q) => p # q
  BY DEF Calm, Loses
<1>5. recorded \in [Accounts -> Nat] /\ \A k \in Customers : <<k, p>> \in Accounts
  BY <1>3 DEF TypeOK, Accounts
<1>8. Payments(p)' = Payments(p) /\ Paying(p)' = Paying(p)
  BY <1>1, PayingStays DEF Payments, Onward, Ended
<1>6. CASE p = q
  <2>1. Onward(r, "credit") /\ recorded' = [recorded EXCEPT ![<<c, q>>] = @ + 1]
    BY <1>1, <1>2, <1>4, <1>6
  <2>2. Open(p) = Open(p)' + 1 /\ Open(p)' \in Nat
    BY <1>1, <1>6, <2>1, WaitsMoves DEF Open, Onward
  <2> DEFINE f == Transfers(p)  g == [k \in Customers |-> recorded'[<<k, p>>]]
  <2>3. Transfers(p)' = g /\ Tally(Transfers(p))' = Tally(g)
    BY DEF Transfers
  <2>4. Tallied(f)
    BY <1>3, TransfersTallied
  <2>5. \A k \in Customers : recorded'[<<k, p>>] = IF k = c THEN recorded[<<k, p>>] + 1
                                                          ELSE recorded[<<k, p>>]
    <3> HIDE DEF c, q
    <3> QED BY <1>5, <1>6, <2>1
  <2>6. Tallied(g)
    BY <1>5, <2>5, Finite DEF Tallied
  <2>7. /\ \A k : k # c => ValueAt(f, k) = ValueAt(g, k)
        /\ ValueAt(f, c) = recorded[<<c, p>>] /\ ValueAt(g, c) = recorded[<<c, p>>] + 1
    BY <1>2, <2>5 DEF ValueAt, Transfers
  <2>8. Tally(g) + ValueAt(f, c) = Tally(f) + ValueAt(g, c)
    BY <2>4, <2>6, <2>7, TallyChange
  <2>9. recorded[<<c, p>>] \in Nat /\ Tally(f) \in Nat /\ Tally(g) \in Nat
    BY <1>2, <1>5, <2>4, <2>6, TallyType
  <2>10. Tally(g) = Tally(f) + 1
    BY <2>7, <2>8, <2>9
  <2>11. till' = till /\ point' = point
    BY <1>1 DEF chain
  <2> HIDE DEF c, q, f, g
  <2> QED BY <1>3, <1>8, <2>2, <2>3, <2>9, <2>10, <2>11 DEF DashboardOf, f
<1>7. CASE p # q
  <2>1. Open(p)' = Open(p)
    BY <1>1, <1>7, WaitsMoves DEF Open, Onward, Ended
  <2>2. \A k \in Customers : recorded'[<<k, p>>] = recorded[<<k, p>>]
    <3> HIDE DEF c, q
    <3> QED BY <1>1, <1>5, <1>7
  <2> QED BY <1>1, <1>3, <1>8, <2>1, <2>2, DashboardKept DEF chain
<1> QED BY <1>6, <1>7

\* The figures after a payment: the price is in the wallet of the merchant.
LEMMA DashboardPay ==
  ASSUME TypeOK, ContractInv, KnownInv, AddressInv, NEW r \in Requests, Pay(r),
         NEW p \in Calm, p \in Calm', DashboardOf(p)
  PROVE  DashboardOf(p)'
<1> DEFINE b == point[p].addr
<1>1. /\ Others(r) /\ pc[r] = "pay" /\ UNCHANGED books
      /\ \/ Spent(req[r].by) /\ Onward(r, "debit") /\ point[Old].addr = ListingToken
         \/ Ended(r) /\ UNCHANGED <<chain, history>>
         \/ Ended(r) /\ Spent(req[r].by) /\ Loses(Old)
  BY PayEffect
<1>2. req[r].point = Old
  BY <1>1, Fields DEF Spending
<1>3. /\ b \in Addresses /\ till[b] \in Nat /\ p \in Stored
      /\ Tally(Transfers(p)) \in Nat /\ Open(p) \in Nat
      /\ Payments(p) \in Nat /\ Paying(p) \in Nat
  BY DashboardTypes DEF Calm
<1>4. b = ListingToken => p = Old
  BY <1>3 DEF AddressInv, Of, ContractInv, ListingToken, Calm
<1>5. /\ point' = point /\ recorded' = recorded /\ Payments(p)' = Payments(p)
      /\ Tally(Transfers(p))' = Tally(Transfers(p)) /\ Open(p)' = Open(p)
  <2>1. point' = point /\ recorded' = recorded /\ bought' = bought
    BY <1>1 DEF books
  <2>2. Transfers(p)' = Transfers(p) /\ Payments(p)' = Payments(p)
    BY <2>1 DEF Transfers, Payments
  <2>3. Open(p)' = Open(p)
    BY <1>1, WaitsMoves DEF Open, Onward, Ended
  <2> QED BY <2>1, <2>2, <2>3
<1>6. Spent(req[r].by) =>
        till'[b] = IF b = ListingToken THEN till[b] + 1 ELSE till[b]
  <2>1. till \in [Addresses -> Nat]
    BY DEF TypeOK
  <2> HIDE DEF b
  <2> QED BY <1>3, <2>1 DEF Spent
<1>7. CASE Spent(req[r].by) /\ Onward(r, "debit") /\ point[Old].addr = ListingToken
  <2>1. Paying(p)' = IF p = Old THEN Paying(p) + 1 ELSE Paying(p)
    BY <1>1, <1>2, <1>7, WaitsMoves DEF Paying, Onward
  <2>2. till'[point'[p].addr] = IF p = Old THEN till[b] + 1 ELSE till[b]
    BY <1>4, <1>5, <1>6, <1>7
  <2> QED BY <1>3, <1>5, <2>1, <2>2, Numbers DEF DashboardOf
<1>8. CASE Ended(r)
  <2>1. Paying(p)' = Paying(p)
    BY <1>1, <1>8, PayingStays DEF Ended
  <2>2. till'[b] = till[b]
    <3>1. Loses(Old) => p # Old
      BY DEF Calm, Loses
    <3>2. CASE UNCHANGED <<chain, history>>
      BY <3>2 DEF chain
    <3>3. CASE Spent(req[r].by) /\ Loses(Old)
      BY <1>4, <1>6, <3>1, <3>3
    <3> QED BY <1>1, <1>8, <3>2, <3>3 DEF Onward, Ended
  <2> QED BY <1>3, <1>5, <2>1, <2>2, DashboardKept
<1> QED BY <1>1, <1>7, <1>8

\* The figures after the record of a payment.
LEMMA DashboardDebit ==
  ASSUME TypeOK, KnownInv, TradeInv, NEW r \in Requests, Debit(r),
         NEW p \in Calm, p \in Calm', DashboardOf(p)
  PROVE  DashboardOf(p)'
<1>1. /\ Others(r) /\ pc[r] = "debit" /\ Ended(r) /\ UNCHANGED <<point, recorded, chain>>
      /\ \/ bought' = bought + 1
         \/ balance[<<req[r].by, Old>>] = None
         \/ Loses(Old) /\ bought' = bought
  BY DebitEffect
<1>2. req[r].point = Old
  BY <1>1, Fields DEF Spending
<1>3. /\ till[point[p].addr] \in Nat /\ p \in Stored
      /\ Tally(Transfers(p)) \in Nat /\ Open(p) \in Nat
      /\ Payments(p) \in Nat /\ Paying(p) \in Nat
  BY DashboardTypes DEF Calm
<1>4. balance[<<req[r].by, Old>>] # None
  BY <1>1, <1>2 DEF TradeInv, Trading, Spending
<1>5. Loses(Old) => p # Old
  BY DEF Calm, Loses
<1>6. Open(p)' = Open(p)
  BY <1>1, WaitsMoves DEF Open, Ended
<1>7. CASE p = Old
  <2>1. bought' = bought + 1
    BY <1>1, <1>4, <1>5, <1>7
  <2>2. Payments(p)' = Payments(p) + 1
    BY <1>7, <2>1 DEF Payments
  <2>3. Paying(p) = Paying(p)' + 1 /\ Paying(p)' \in Nat
    BY <1>1, <1>2, <1>7, WaitsMoves DEF Paying, Ended
  <2>4. Transfers(p)' = Transfers(p)
    BY <1>1 DEF Transfers
  <2>5. Tally(Transfers(p))' = Tally(Transfers(p)) /\ till' = till /\ point' = point
    BY <1>1, <2>4 DEF chain
  <2> QED BY <1>3, <1>6, <2>2, <2>3, <2>5, Numbers DEF DashboardOf
<1>8. CASE p # Old
  <2>1. Payments(p)' = Payments(p)
    BY <1>8 DEF Payments
  <2>2. Paying(p)' = Paying(p)
    BY <1>1, <1>2, <1>8, WaitsMoves DEF Paying, Ended
  <2> QED BY <1>1, <1>3, <1>6, <2>1, <2>2, DashboardKept DEF chain
<1> QED BY <1>7, <1>8

\* The figures of new points.
LEMMA DashboardNew ==
  ASSUME TypeOK, ContractInv, KnownInv, FreshInv, NEW r \in Requests, RequestStep(r),
         NEW p \in Calm', p \notin Stored
  PROVE  DashboardOf(p)'
<1>1. /\ p = r /\ p \in Points /\ p \notin Made /\ Others(r) /\ Ended(r) /\ pc[r] = "insert"
      /\ point'[p].addr = req[r].addr /\ till' = till /\ recorded' = recorded
      /\ till[req[r].addr] = Supply
  BY NewRow DEF chain
<1>2. Tally(Transfers(p)) = 0
  <2>1. \A k \in Customers : recorded[<<k, p>>] = 0
    BY <1>1 DEF KnownInv
  <2> QED BY <1>1, <2>1, TransfersTallied, TallyZero DEF Transfers
<1>3. Transfers(p)' = Transfers(p)
  BY <1>1 DEF Transfers
<1>4. Tally(Transfers(p))' = 0
  BY <1>2, <1>3
<1>5. Open(p) = 0
  <2>1. {q \in Requests : pc[q] = "record" /\ req[q].point = p} = {}
    BY <1>1 DEF KnownInv, Giving
  <2> QED BY <2>1, FS_EmptySet DEF Open, Waits
<1>6. Open(p)' = 0
  BY <1>1, <1>5, WaitsMoves DEF Open, Ended
<1>7. Payments(p)' = 0 /\ Paying(p)' = 0
  <2>1. {q \in Requests : pc[q] = "debit" /\ req[q].point = p} = {}
    BY <1>1 DEF KnownInv, Spending
  <2>2. Paying(p) = 0
    BY <2>1, FS_EmptySet DEF Paying, Waits
  <2>3. Paying(p)' = 0
    BY <1>1, <2>2, PayingStays DEF Ended
  <2> QED BY <1>1, <2>3 DEF Payments, Made
<1> QED BY <1>1, <1>4, <1>6, <1>7, Numbers DEF DashboardOf

\* Every step keeps the figures together.
LEMMA DashboardStep ==
  ASSUME TypeOK, TypeOK', ContractInv, KnownInv, polite, TradeInv, AddressInv, FreshInv,
         DashboardAddsUp, [MarketNext]_allVars
  PROVE  DashboardAddsUp'
<1>1. \A p \in Calm : DashboardOf(p)
  BY DashboardParts
<1>2. ASSUME NEW r \in Requests, RequestStep(r), NEW p \in Calm' PROVE DashboardOf(p)'
  <2>1. CASE p \notin Stored
    BY <1>2, <2>1, DashboardNew
  <2>2. CASE p \in Stored
    <3>1. p \in Calm
      BY <1>2, <2>2, MovedStays, LostGrows DEF Calm
    <3>2. DashboardOf(p) /\ Others(r) /\ point'[p] = point[p]
      BY <1>1, <1>2, <2>2, <3>1, AnyStep, RowWrites
    <3>3. CASE Transfer(r)
      BY <1>2, <3>1, <3>2, <3>3, DashboardTransfer
    <3>4. CASE CreateTransaction(r)
      BY <1>2, <3>1, <3>2, <3>4, DashboardRecord
    <3>6. CASE Pay(r)
      BY <1>2, <3>1, <3>2, <3>6, DashboardPay
    <3>7. CASE Debit(r)
      BY <1>2, <3>1, <3>2, <3>7, DashboardDebit
    <3>5. CASE ~Transfer(r) /\ ~CreateTransaction(r) /\ ~Pay(r) /\ ~Debit(r)
      <4>1. recorded' = recorded /\ pc[r] # "record" /\ pc'[r] # "record"
        BY <1>2, <3>5, RecordersOnly
      <4>2. Open(p)' = Open(p)
        BY <3>2, <4>1, WaitsMoves DEF Open
      <4>3. till'[point[p].addr] = till[point[p].addr]
        <5>1. point[p].addr \in Used /\ point[p].addr \in Addresses
          BY <2>2, DashboardTypes
        <5>2. CASE Deployed(r) /\ pc[r] = "deploy"
          <6>1. NextAddress \notin Used
            BY <5>2, RoomLeft
          <6> HIDE DEF NextAddress
          <6> QED BY <5>1, <5>2, <6>1 DEF Deployed, TypeOK
        <5> QED BY <1>2, <3>5, <5>2, ChainWrites
      <4>4. Payments(p)' = Payments(p) /\ Paying(p)' = Paying(p)
        BY <1>2, <3>2, <3>5, PayersOnly, PayingStays DEF Payments
      <4> QED BY <2>2, <3>2, <4>1, <4>2, <4>3, <4>4, DashboardKept
    <3> QED BY <3>3, <3>4, <3>5, <3>6, <3>7
  <2> QED BY <2>1, <2>2
<1>3. ASSUME OperatorStep \/ Elsewhere, NEW p \in Calm' PROVE DashboardOf(p)'
  <2>1. /\ p \in Calm /\ point'[p] = point[p] /\ till' = till /\ UNCHANGED requests
        /\ \A k \in Customers : recorded'[<<k, p>>] = recorded[<<k, p>>]
        /\ p = Old => bought' = bought
    BY <1>3, OperatorCalm DEF Elsewhere, books, chain, history, Calm, Stored
  <2>2. Open(p)' = Open(p) /\ Payments(p)' = Payments(p) /\ Paying(p)' = Paying(p)
    BY <2>1 DEF Open, Paying, Waits, Payments, requests
  <2>3. p \in Stored
    BY <2>1 DEF Calm
  <2> QED BY <1>1, <2>1, <2>2, <2>3, DashboardKept
<1>4. \A p \in Calm' : DashboardOf(p)'
  BY <1>2, <1>3, MarketSteps
<1> QED BY <1>4 DEF DashboardAddsUp, DashboardOf, Calm, GetPointsData, GetTransactionStats,
                    Transfers, Open, Paying, Waits

(***************************************************************************)
(* The invariant of the points.                                            *)
(***************************************************************************)
\* Nothing has happened yet.
LEMMA FirstContract ==
  ASSUME Init
  PROVE  /\ Used = {1} /\ contract[1] = Deployment(Old, 24) /\ contract[1].of = Old
         /\ Fits(contract[1]) /\ contract[1] \in Contracts
         /\ Stored = {Old} /\ point[Old].addr = 1 /\ Old \in Points
<1>1. 1 \in Addresses
  BY SomeAddresses
<1>2. /\ contract[1] = Deployment(Old, 24)
      /\ \A a \in Addresses : a # 1 => contract[a] = NoContract
  BY <1>1 DEF Init
<1>3. Epoch(24) = 1 /\ Window(24) = 24
  BY DEF Epoch, Window
<1>4. Deployment(Old, 24) = [of |-> Old, life |-> 24, epoch |-> 1, window |-> 24]
  BY <1>3 DEF Deployment
<1>5. Deployment(Old, 24).of = Old /\ Deployment(Old, 24) # NoContract
  BY <1>4, Distinct DEF NoContract
<1>6. Fits(contract[1])
  BY <1>2, <1>4 DEF Fits, MaxWindow
<1>7. Used = {1}
  BY <1>1, <1>2, <1>5 DEF Used
<1>8. Stored = {Old} /\ point[Old].addr = 1 /\ Old \in Points
  <2>1. Old \in Points /\ [addr |-> 1] # NoPoint
    BY DEF Points, NoPoint
  <2> QED BY <2>1 DEF Init, Stored
<1> QED BY <1>2, <1>4, <1>5, <1>6, <1>7, <1>8 DEF Contracts, Points

\* The initial tables have their types.
LEMMA TypeInit == Init => PointShape
<1> SUFFICES ASSUME Init PROVE PointShape
  OBVIOUS
<1>1. contract \in [Addresses -> Contracts \cup {NoContract}]
  BY FirstContract DEF Init
<1>2. point \in [Points -> [addr : Addresses \cup {0}]]
  BY SomeAddresses DEF Init, NoPoint
<1>3. till \in [Addresses -> Nat] /\ coins \in [Customers \X Addresses -> Nat]
  BY Numbers DEF Init
<1>4. /\ balance \in [Accounts -> Int \cup {None}] /\ joined \in [Customers -> Nat]
      /\ recorded \in [Accounts -> Nat] /\ sent \in [Accounts -> Nat] /\ bought \in Nat
  BY DEF Init
<1>5. /\ pc \in [Requests -> Busy \cup {"idle", "over"}]
      /\ req \in [Requests -> Gifts \cup Purchases \cup Creations \cup {None}]
      /\ \A r \in Requests : pc[r] = "idle" /\ req[r] = None
  BY DEF Init
<1>6. /\ wallet \in {"set", "none", "unreadable", "foreign"} /\ lost \cup moved \subseteq Points
      /\ polite \in BOOLEAN /\ faults \in Nat /\ admin \in Nat /\ faults <= MaxFaults
  BY Numbers DEF Init
<1>7. \A r \in Requests : pc[r] \notin Busy
  BY <1>5 DEF Busy, Giving, Spending, Creating
<1>8. \A r \in Requests : /\ pc[r] \in Giving => req[r] \in Gifts
                          /\ pc[r] \in Spending => req[r] \in Purchases
                          /\ pc[r] \in Creating => req[r] \in Creations
                          /\ pc[r] \notin Busy => req[r] = None
  BY <1>5, <1>7 DEF Busy
<1> QED BY <1>1, <1>2, <1>3, <1>4, <1>5, <1>6, <1>8 DEF PointShape, TypeOK

\* The invariant of the points holds at first.
LEMMA PointInit == Init => PointInv
<1> SUFFICES ASSUME Init PROVE PointInv
  OBVIOUS
<1>0. \A r \in Requests : pc[r] = "idle"
  BY DEF Init
<1>1. /\ \A k \in Customers, p \in Points :
           /\ <<k, p>> \in Accounts /\ balance[<<k, p>>] = None
           /\ recorded[<<k, p>>] = 0 /\ sent[<<k, p>>] = 0
      /\ \A k \in Customers, a \in Addresses : coins[<<k, a>>] = 0
      /\ \A k \in Customers : joined[k] = 0
  BY DEF Init, Accounts
<1>2. /\ Used = {1} /\ contract[1].of = Old /\ Fits(contract[1])
      /\ Stored = {Old} /\ point[Old].addr = 1 /\ Old \in Points
  BY FirstContract
<1>3. ContractInv
  <2>1. Cardinality(Used) = 1
    BY <1>2, FS_Singleton
  <2>2. Used = 1 .. Cardinality(Used)
    BY <1>2, <2>1
  <2> QED BY <1>0, <1>2, <2>2 DEF ContractInv, Creating
<1>4. KnownInv
  BY <1>0, <1>1, <1>2 DEF KnownInv, Made, Giving, Spending
<1>5. \A k \in Customers, p \in Points, places \in SUBSET Busy : At(places, k, p) = 0
  <2> SUFFICES ASSUME NEW k \in Customers, NEW p \in Points, NEW places \in SUBSET Busy
               PROVE  At(places, k, p) = 0
    OBVIOUS
  <2>1. {r \in Requests : pc[r] \in places /\ req[r].by = k /\ req[r].point = p} = {}
    BY <1>0 DEF Busy, Giving, Spending, Creating
  <2> QED BY <2>1, FS_EmptySet DEF At
<1>6. {"record"} \in SUBSET Busy /\ {"record", "credit"} \in SUBSET Busy /\ {"debit"} \in SUBSET Busy
  BY DEF Busy, Giving, Spending
<1>7. RecordInv
  <2>1. \A k \in Customers, p \in Points : At({"record"}, k, p) = 0
    BY <1>5, <1>6
  <2>2. \A k \in Customers, p \in Points : recorded[<<k, p>>] = 0 /\ sent[<<k, p>>] = 0
    BY <1>1
  <2>3. ASSUME NEW k \in Customers, NEW p \in Points PROVE RecordOf(k, p)
    <3>1. At({"record"}, k, p) = 0 /\ recorded[<<k, p>>] = 0 /\ sent[<<k, p>>] = 0
      BY <2>1, <2>2
    <3> QED BY <3>1 DEF RecordOf
  <2> QED BY <2>3, RecordParts
<1>8. CreditInv
  BY <1>0, <1>1 DEF CreditInv, CreditWasSent
<1>9. JoinInv
  BY <1>0, <1>1 DEF JoinInv, Giving
<1>10. EmptyInv
  BY <1>1 DEF EmptyInv
<1>11. PoliteInv
  <2>1. Trading = {} /\ Building = {}
    BY <1>0 DEF Trading, Building, Giving, Spending, Creating
  <2>2. AddressInv
    BY <1>2, <2>1 DEF AddressInv, Of, Init
  <2> QED BY <1>0, <2>1, <2>2 DEF PoliteInv, AloneInv, TradeInv, FreshInv
<1>12. NeverOverdrawn
  <2>1. \A a \in Accounts : balance[a] = None
    BY DEF Init
  <2> QED BY <2>1 DEF NeverOverdrawn
<1>13. BalanceIsOnChain
  <2>1. \A k \in Customers : coins[<<k, 1>>] = 0
    BY <1>1, SomeAddresses
  <2> QED BY <1>1, <1>2, <1>5, <1>6, <2>1 DEF BalanceIsOnChain
<1>14. DashboardAddsUp
  <2> SUFFICES DashboardOf(Old)
    BY <1>2, DashboardParts DEF Calm
  <2>1. Tally(Transfers(Old)) = 0
    BY <1>1, <1>2, TypeInit, TransfersTallied, TallyZero DEF Transfers, PointShape
  <2>2. Open(Old) = 0 /\ Paying(Old) = 0 /\ Payments(Old) = 0
    <3>1. /\ {r \in Requests : pc[r] = "record" /\ req[r].point = Old} = {}
          /\ {r \in Requests : pc[r] = "debit" /\ req[r].point = Old} = {}
      BY <1>0
    <3>2. bought = 0
      BY DEF Init
    <3> QED BY <3>1, <3>2, FS_EmptySet DEF Open, Paying, Waits, Payments
  <2>3. till[1] = Supply
    BY SomeAddresses DEF Init
  <2> QED BY <1>2, <2>1, <2>2, <2>3, Numbers DEF DashboardOf
<1> QED BY <1>3, <1>4, <1>7, <1>8, <1>9, <1>10, <1>11, <1>12, <1>13, <1>14, TypeInit
        DEF PointInv, BookInv

\* And every step keeps it.
LEMMA PointStepInv ==
  ASSUME PointInv, [MarketNext]_allVars
  PROVE  PointInv'
<1> USE DEF PointInv
<1>1. PointShape' /\ TypeOK /\ TypeOK'
  BY PointShapeStep DEF PointShape
<1>2. ContractInv' /\ KnownInv' /\ RecordInv' /\ CreditInv'
  BY <1>1, ContractStep, KnownStep, RecordStep, CreditStep
<1>3. JoinInv' /\ EmptyInv' /\ PoliteInv'
  BY <1>1, JoinStep, EmptyStep, PoliteStep
<1>4. polite' = polite
  BY <1>1, AnyStep, MarketSteps DEF Others, OperatorStep, Operated, Elsewhere
<1>5. NeverOverdrawn' /\ BalanceIsOnChain' /\ DashboardAddsUp'
  <2>1. CASE polite
    BY <1>1, <2>1, OverdrawnStep, BalanceStep, DashboardStep DEF PoliteInv, BookInv
  <2>2. CASE ~polite
    BY <1>4, <2>2 DEF NeverOverdrawn, BalanceIsOnChain, DashboardAddsUp
  <2> QED BY <2>1, <2>2
<1>6. BookInv'
  BY <1>5 DEF BookInv
<1> QED BY <1>1, <1>2, <1>3, <1>6

\* The inductive invariant of the points, whatever raises and whoever is in
\* whose way; the parts under polite hold for clients that keep apart.
THEOREM PointsInvariant == MarketSpec => []PointInv
<1>1. MarketInit => PointInv
  BY PointInit DEF MarketInit
<1>2. PointInv /\ [MarketNext]_allVars => PointInv'
  BY PointStepInv
<1> QED BY <1>1, <1>2, PTL DEF MarketSpec

\* BalancesFollowTransfers: the balance of a customer in the database is the
\* one in the contract, is never negative, and never more than was sent.
THEOREM Balances == MarketSpec => []BalancesFollowTransfers
<1>1. PointInv => BalancesFollowTransfers
  BY DEF PointInv, BookInv, CreditInv, BalancesFollowTransfers
<1> QED BY <1>1, PointsInvariant, PTL

\* ShownPointsAgree: the merchant's figures of a kind of points add up, both
\* lists of a customer are the same, and nobody joins twice.
THEOREM ShownPoints == MarketSpec => []ShownPointsAgree
<1>1. ASSUME PointInv PROVE ListsAgree /\ JoinedOnce
  BY <1>1 DEF PointInv, JoinInv, ListsAgree, JoinedOnce, CustomerPoints, PointsByPhone
<1>2. PointInv => ShownPointsAgree
  BY <1>1 DEF PointInv, BookInv, ShownPointsAgree
<1> QED BY <1>2, PointsInvariant, PTL

\* TransfersAreRecorded and RecordsAreTransfers, the halves of
\* RecordsFollowTransfers that are not about types.
LEMMA RecordsFollow == PointInv => TransfersAreRecorded /\ RecordsAreTransfers
<1> SUFFICES ASSUME PointInv PROVE TransfersAreRecorded /\ RecordsAreTransfers
  OBVIOUS
<1>1. RecordInv /\ TypeOK /\ Stored \subseteq Points
  BY DEF PointInv, PointShape, Stored
<1>2. TransfersAreRecorded
  BY <1>1 DEF RecordInv, TransfersAreRecorded
<1>3. ASSUME NEW k \in Customers, NEW p \in Points PROVE recorded[<<k, p>>] <= sent[<<k, p>>]
  <2>1. /\ recorded[<<k, p>>] \in Nat /\ sent[<<k, p>>] \in Nat
        /\ At({"record"}, k, p) \in Nat
        /\ recorded[<<k, p>>] + At({"record"}, k, p) <= sent[<<k, p>>]
    BY <1>1, AtType DEF TypeOK, Accounts, RecordInv
  <2> QED BY <2>1
<1> QED BY <1>2, <1>3 DEF RecordsAreTransfers

\* OwnContract and WindowsReachTheEnd, the halves of ContractsFit that are
\* about points.
LEMMA ContractsOwn == PointInv => OwnContract /\ WindowsReachTheEnd
  BY DEF PointInv, PoliteInv, AddressInv, ContractInv, Of, Used, Fits, OwnContract,
         WindowsReachTheEnd

(***************************************************************************)
(* The inductive invariant of the activations.                             *)
(***************************************************************************)
Row     == [group : Activations \cup {None}, point : Points \cup {None}]
Listing == [amount : 1 .. MaxAmount, token : Addresses]
Order   == [point : Points, token : Addresses, amount : 1 .. MaxAmount,
            seen : 0 .. Issued, codes : SUBSET Nat]

SheetShape ==
  /\ work \in {"points", "vouchers"} /\ own \in BOOLEAN
  /\ gone \in BOOLEAN /\ deleted \in BOOLEAN
  /\ left \in 0 .. Issued /\ nft \in 0 .. Coupons
  /\ code \in [Codes -> Row \cup {NoCode}]
  /\ shelf \in [Activations -> Listing \cup {None}]
  /\ batch \subseteq Activations /\ \A a \in batch : shelf[a] # None
  /\ at \in [Activations -> {"idle", "fetch", "list", "persist", "over"}]
  /\ act \in [Activations -> Order \cup {None}]
  /\ \A a \in Running : act[a] \in Order

\* A listing is made by its activation, and its row by the same, afterwards.
ShelfInv ==
  /\ \A a \in Activations :
       /\ at[a] \in {"idle", "fetch", "list"} => shelf[a] = None
       /\ at[a] = "persist" =>
            a \notin batch /\ shelf[a] = [amount |-> act[a].amount, token |-> act[a].token]
  /\ work = "points" => \A a \in Activations : at[a] = "idle"
  /\ polite => \A a, b \in Running : a = b

\* Codes are in the groups of rows, and those that have a price are.
RowInv ==
  /\ \A c \in Present : /\ code[c].group \in batch \cup {None}
                        /\ code[c].point # None => code[c].group # None
  /\ gone => Present = {}

\* A code's price and its listing are the same point's; so it is for the
\* activation that will write them, unless the point is deleted meanwhile.
PriceInv ==
  /\ \A c \in Present : code[c].point # None =>
       /\ code[c].point \in Stored
       /\ code[c].point \notin moved =>
            shelf[code[c].group].token = point[code[c].point].addr
  /\ \A a \in Running :
       /\ act[a].point \in Made
       /\ act[a].point \in Stored \ moved => act[a].token = point[act[a].point].addr

Stranded == {a \in Activations : shelf[a] # None /\ a \notin batch}
Amounted(S) == Tally([a \in S |-> shelf[a].amount])
Count == Cardinality(Present)

\* Coupons are in the wallet, in listings with a row, or in listings without.
SupplyInv == nft + Amounted(batch) + Amounted(Stranded) = Coupons

\* New codes are numbered from what there was when the activation looked; there
\* is a coupon for each of them once they are listed.
OwnInv == own /\ ~gone =>
  /\ Present = 1 .. Count /\ Count = Amounted(batch)
  /\ \A c \in Present : code[c].group # None
  /\ \A a \in batch : CodesInGroup(a) = shelf[a].amount
  /\ \A a \in Activations : at[a] \in {"list", "persist"} =>
       \E m \in 0 .. Count :
         /\ act[a].codes = m + 1 .. m + act[a].amount
         /\ at[a] = "persist" => m + act[a].amount <= Coupons

\* Bought codes wait for the activation that looked at them.
BoughtInv == ~own /\ ~gone /\ polite /\ ~deleted =>
  /\ Present = Codes
  /\ \A c \in Codes : code[c].point = None => code[c].group = None
  /\ Cardinality(Unactivated) + Amounted(batch) = Coupons
  /\ \A a \in batch : CodesInGroup(a) = shelf[a].amount
  /\ \A a \in Activations :
       /\ at[a] = "fetch" => act[a].amount <= Cardinality(Unactivated)
       /\ at[a] \in {"list", "persist"} =>
            act[a].codes \subseteq Unactivated /\ Cardinality(act[a].codes) = act[a].amount

\* What is left was announced, whenever it was read.
LeftInv == own =>
  /\ \A a \in Running : act[a].amount <= act[a].seen
  /\ ~gone => /\ left + Count >= Issued
              /\ polite => left + Count = Issued
              /\ \A a \in Running : /\ act[a].seen + Count >= Issued
                                    /\ polite => act[a].seen = left

SheetInv == SheetShape /\ ShelfInv /\ RowInv /\ PriceInv /\ SupplyInv /\ OwnInv /\ BoughtInv /\ LeftInv

(***************************************************************************)
(* What the steps do.                                                      *)
(***************************************************************************)
\* A row is not an absent one, and a listing is not NULL.
LEMMA RowsAreThere ==
  /\ \A x \in Row : x # NoCode
  /\ None \notin Listing
  /\ Coupons \in Nat /\ Issued \in Nat /\ MaxAmount \in Nat
<1>1. ASSUME NEW x \in Row PROVE x # NoCode
  <2>1. DOMAIN x = {"group", "point"} /\ DOMAIN NoCode = {"group"}
    BY DEF Row, NoCode
  <2> QED BY <2>1
<1>2. Coupons \in Nat /\ Issued \in Nat /\ MaxAmount \in Nat
  BY Amounts
<1>3. Listing \subseteq [amount : Nat, token : Nat]
  BY <1>2 DEF Listing, Addresses
<1> QED BY <1>1, <1>2, <1>3, NullIsNoRow

\* A step of activation a leaves the others alone.
Shifted(a) ==
  /\ at' \in [Activations -> {"idle", "fetch", "list", "persist", "over"}]
  /\ act' = [b \in Activations |-> act'[b]]
  /\ \A b \in Activations \ {a} : at'[b] = at[b] /\ act'[b] = act[b]

Closed(a) == at'[a] = "over" /\ act'[a] = None

\* An activation that goes on leaves the others alone.
LEMMA StepShifts ==
  ASSUME SheetShape, NEW a \in Activations, NEW place \in {"fetch", "list", "persist"}, NEW x,
         Step(a, place), act' = [act EXCEPT ![a] = x]
  PROVE  Shifted(a) /\ at'[a] = place /\ act'[a] = x
  BY DEF SheetShape, Step, Shifted

\* So does one that ends.
LEMMA OverCloses ==
  ASSUME SheetShape, NEW a \in Activations, Over(a)
  PROVE  Shifted(a) /\ Closed(a)
  BY DEF SheetShape, Over, Step, Shifted, Closed

\* Activate has only read, yet.
LEMMA ActivateEffect ==
  ASSUME SheetShape, NEW a \in Activations, Activate(a)
  PROVE  /\ Shifted(a) /\ at[a] = "idle" /\ at'[a] = "fetch" /\ ~gone
         /\ polite => Running = {}
         /\ UNCHANGED <<sheet, nft, shelf>>
         /\ \E p \in Stored, n \in 1 .. MaxAmount :
              /\ n <= (IF own THEN left ELSE Cardinality(Unactivated))
              /\ act'[a] = [point |-> p, token |-> point[p].addr, amount |-> n,
                            seen |-> left, codes |-> {}]
<1>1. PICK p \in Points, n \in 1 .. MaxAmount :
        /\ point[p] # NoPoint
        /\ n <= (IF own THEN left ELSE Cardinality(Unactivated))
        /\ act' = [act EXCEPT ![a] = [point |-> p, token |-> point[p].addr, amount |-> n,
                                      seen |-> left, codes |-> {}]]
  BY DEF Activate
<1> DEFINE new == [point |-> p, token |-> point[p].addr, amount |-> n, seen |-> left,
                   codes |-> {}]
<1>2. act' = [act EXCEPT ![a] = new]
  BY <1>1
<1>3. p \in Stored
  BY <1>1 DEF Stored
<1> HIDE DEF new
<1>4. Shifted(a) /\ at'[a] = "fetch" /\ act'[a] = new
  BY <1>2, StepShifts DEF Activate
<1> QED BY <1>1, <1>3, <1>4 DEF Activate, new

FetchedCodes(a, S) ==
  IF own THEN S = NewNumbers(a)
         ELSE /\ S \subseteq Unactivated
              /\ \/ Cardinality(S) = act[a].amount
                 \/ S = Unactivated /\ Cardinality(S) < act[a].amount

\* The codes are fetched, or the activation ends.
LEMMA FetchEffect ==
  ASSUME SheetShape, NEW a \in Activations, FetchCodes(a)
  PROVE  /\ Shifted(a) /\ at[a] = "fetch" /\ UNCHANGED <<sheet, nft, shelf>>
         /\ \/ Closed(a)
            \/ /\ at'[a] = "list"
               /\ \E S : /\ FetchedCodes(a, S)
                         /\ act'[a] = [point |-> act[a].point, token |-> act[a].token,
                                       amount |-> act[a].amount, seen |-> act[a].seen,
                                       codes |-> S]
<1>1. CASE ~CanSign
  BY <1>1, OverCloses DEF FetchCodes
<1>2. CASE CanSign
  <2>1. PICK S \in IF own THEN {NewNumbers(a)} ELSE SUBSET Unactivated :
          /\ \/ own \/ Cardinality(S) = act[a].amount
             \/ S = Unactivated /\ Cardinality(S) < act[a].amount
          /\ act' = [act EXCEPT ![a].codes = S]
    BY <1>2 DEF FetchCodes
  <2>2. at[a] = "fetch" /\ Step(a, "list") /\ UNCHANGED <<sheet, nft, shelf>>
    BY <1>2 DEF FetchCodes
  <2>3. act[a] \in Order
    BY <2>2 DEF SheetShape, Running
  <2> DEFINE new == [point |-> act[a].point, token |-> act[a].token,
                     amount |-> act[a].amount, seen |-> act[a].seen, codes |-> S]
  <2>4. act'[a] = new
    BY <2>1, <2>3, Zenon DEF SheetShape, Order
  <2>5. /\ act' = [b \in Activations |-> act'[b]]
        /\ \A b \in Activations \ {a} : act'[b] = act[b]
    BY <2>1, Zenon DEF SheetShape
  <2>6. /\ at' \in [Activations -> {"idle", "fetch", "list", "persist", "over"}]
        /\ at'[a] = "list" /\ \A b \in Activations \ {a} : at'[b] = at[b]
    BY <2>2 DEF SheetShape, Step
  <2>7. FetchedCodes(a, S)
    BY <2>1 DEF FetchedCodes
  <2> HIDE DEF new
  <2> QED BY <2>2, <2>4, <2>5, <2>6, <2>7 DEF Shifted, new
<1> QED BY <1>1, <1>2

Shelved(a) ==
  /\ nft >= act[a].amount /\ nft' = nft - act[a].amount
  /\ shelf'[a] = [amount |-> act[a].amount, token |-> act[a].token]
  /\ shelf' = [b \in Activations |-> shelf'[b]]
  /\ \A b \in Activations \ {a} : shelf'[b] = shelf[b]

\* The coupons are listed, whether or not the answer comes, or they are not.
LEMMA ListEffect ==
  ASSUME SheetShape, NEW a \in Activations, ListCoupon(a)
  PROVE  /\ Shifted(a) /\ at[a] = "list" /\ UNCHANGED sheet
         /\ \/ Shelved(a) /\ at'[a] = "persist" /\ act'[a] = act[a]
            \/ Shelved(a) /\ Closed(a)
            \/ UNCHANGED <<nft, shelf>> /\ Closed(a)
<1>1. Listed(a) => Shelved(a)
  BY DEF Listed, Shelved, SheetShape
<1>2. ASSUME Step(a, "persist"), UNCHANGED act
      PROVE  Shifted(a) /\ at'[a] = "persist" /\ act'[a] = act[a]
  BY <1>2 DEF SheetShape, Step, Shifted
<1> QED BY <1>1, <1>2, OverCloses DEF ListCoupon

\* All the rows are written, or none.
LEMMA PersistEffect ==
  ASSUME SheetShape, NEW a \in Activations, Persist(a)
  PROVE  /\ Shifted(a) /\ at[a] = "persist" /\ Closed(a) /\ UNCHANGED <<nft, shelf, gone>>
         /\ \/ /\ Acceptable(a) /\ code' = Rewritten(a) /\ batch' = batch \cup {a}
               /\ left' = IF own THEN act[a].seen - act[a].amount ELSE left
            \/ UNCHANGED sheet
  BY OverCloses DEF Persist, sheet

\* All that happens to vouchers.
LEMMA SheetSteps ==
  ASSUME TypeOK, [MarketNext]_allVars
  PROVE  /\ UNCHANGED <<work, own, polite>>
         /\ \/ UNCHANGED marketVars
            \/ /\ work = "vouchers" /\ UNCHANGED <<books, chain, requests, history, deleted>>
               /\ \E a \in Activations :
                    Activate(a) \/ FetchCodes(a) \/ ListCoupon(a) \/ Persist(a)
            \/ \E p \in Points : /\ work = "vouchers" /\ Deleted(p) /\ Operated /\ DeletePriced(p)
            \/ DeleteVoucher /\ UNCHANGED <<books, chain, requests, history>>
<1>1. polite' = polite
  BY AnyStep, MarketSteps DEF Others, OperatorStep, Operated, Elsewhere
<1>2. UNCHANGED <<work, own>>
  BY DEF MarketNext, allVars, fixed
<1>3. CASE UNCHANGED allVars
  BY <1>1, <1>2, <1>3 DEF allVars
<1>4. CASE MarketNext
  <2>1. CASE work = "points" /\ UNCHANGED marketVars
    BY <1>1, <1>2, <2>1
  <2>2. CASE work = "vouchers" /\ PointStep
    <3>1. CASE DeleteVoucher
      BY <1>1, <1>2, <3>1 DEF DeleteVoucher, Operation, books, history
    <3> QED BY <1>1, <1>2, <2>2, <3>1, DeleteEffect DEF PointStep
  <2>3. CASE work = "vouchers" /\ \E a \in Activations : ActivationStep(a)
    BY <1>1, <1>2, <2>3 DEF ActivationStep
  <2> QED BY <1>4, <2>1, <2>2, <2>3 DEF MarketNext
<1> QED BY <1>3, <1>4

(***************************************************************************)
(* The shape of the tables.                                                *)
(***************************************************************************)
\* There are finitely many codes.
LEMMA SomeCodes ==
  ASSUME SheetShape
  PROVE  /\ IsFiniteSet(Codes) /\ Codes \subseteq Nat /\ Cardinality(Codes) = Coupons
         /\ IsFiniteSet(Present) /\ Present \subseteq Codes /\ Count \in Nat
         /\ Unactivated \subseteq Present /\ IsFiniteSet(Unactivated)
         /\ Cardinality(Unactivated) \in Nat
<1>1. IsFiniteSet(Codes) /\ Cardinality(Codes) = Coupons /\ Codes \subseteq Nat
  <2>1. Coupons \in Nat
    BY RowsAreThere
  <2> QED BY <2>1, FS_Interval DEF Codes
<1>2. Present \subseteq Codes /\ Unactivated \subseteq Present
  BY DEF Present, Unactivated
<1>3. IsFiniteSet(Present) /\ IsFiniteSet(Unactivated)
  BY <1>1, <1>2, FS_Subset
<1> QED BY <1>1, <1>2, <1>3, FS_CardinalityType DEF Count

\* Of the activation that moves.
LEMMA OrderMoves ==
  ASSUME SheetShape, SheetShape', NEW a \in Activations, Shifted(a)
  PROVE  /\ Running' \ {a} = Running \ {a}
         /\ \A b \in Activations \ {a} : at'[b] = at[b] /\ act'[b] = act[b]
  BY DEF Shifted, Running

ShapeOfSheet ==
  /\ work \in {"points", "vouchers"} /\ own \in BOOLEAN
  /\ gone \in BOOLEAN /\ deleted \in BOOLEAN
  /\ left \in 0 .. Issued /\ nft \in 0 .. Coupons
  /\ code \in [Codes -> Row \cup {NoCode}]
  /\ shelf \in [Activations -> Listing \cup {None}]
  /\ batch \subseteq Activations /\ \A a \in batch : shelf[a] # None

ShapeOfOrders ==
  /\ at \in [Activations -> {"idle", "fetch", "list", "persist", "over"}]
  /\ act \in [Activations -> Order \cup {None}]
  /\ \A a \in Running : act[a] \in Order

\* The types of tables and of activations.
LEMMA SheetParts == SheetShape <=> ShapeOfSheet /\ ShapeOfOrders
  BY DEF SheetShape, ShapeOfSheet, ShapeOfOrders

\* Activations that do not move keep their types.
LEMMA OrdersShape ==
  ASSUME SheetShape, NEW a \in Activations, Shifted(a), Closed(a) \/ act'[a] \in Order
  PROVE  ShapeOfOrders'
<1>1. act'[a] \in Order \cup {None} /\ (at'[a] \in {"fetch", "list", "persist"} => act'[a] \in Order)
  BY DEF Closed
<1>2. act' \in [Activations -> Order \cup {None}]
  BY <1>1 DEF Shifted, SheetShape
<1>3. \A b \in Running' : act'[b] \in Order
  BY <1>1 DEF Shifted, SheetShape, Running
<1> QED BY <1>2, <1>3 DEF ShapeOfOrders, Shifted

\* The codes of DeletePriced keep their groups.
LEMMA UnpricedCodes ==
  ASSUME SheetShape, NEW p \in Points, DeletePriced(p)
  PROVE  /\ Present' = Present /\ code' \in [Codes -> Row \cup {NoCode}]
         /\ \A c \in Present : /\ code'[c].group = code[c].group
                               /\ code'[c].point = IF code[c].point = p THEN None
                                                                       ELSE code[c].point
<1>1. \A c \in Present : code[c] \in Row /\ c \in Codes
  BY DEF Present, SheetShape
<1>2. code' = [c \in Codes |-> IF c \in Present /\ code[c].point = p
                                 THEN [code[c] EXCEPT !.point = None] ELSE code[c]]
  BY DEF DeletePriced
<1>3. ASSUME NEW c \in Present, code[c].point = p
      PROVE  code'[c] = [group |-> code[c].group, point |-> None]
  <2>1. code'[c] = [code[c] EXCEPT !.point = None]
    BY <1>1, <1>2, <1>3
  <2> QED BY <1>1, <2>1, Zenon DEF Row
<1>4. ASSUME NEW c \in Present, code[c].point # p PROVE code'[c] = code[c]
  BY <1>1, <1>2, <1>4
<1>5. ASSUME NEW c \in Present PROVE code'[c] \in Row
  <2>1. CASE code[c].point = p
    <3>1. code'[c] = [group |-> code[c].group, point |-> None]
      BY <1>3, <2>1
    <3>2. code[c].group \in Activations \cup {None}
      BY <1>1 DEF Row
    <3> QED BY <3>1, <3>2 DEF Row
  <2>2. CASE code[c].point # p
    BY <1>1, <1>4, <2>2
  <2> QED BY <2>1, <2>2
<1>6. \A c \in Codes : c \notin Present => code'[c] = NoCode
  BY <1>2 DEF Present
<1>7. Present' = Present
  <2>1. \A c \in Present : code'[c] # NoCode
    BY <1>5, RowsAreThere
  <2>2. Present' = {c \in Codes : code'[c] # NoCode} /\ Present \subseteq Codes
    BY DEF Present
  <2> QED BY <1>6, <2>1, <2>2
<1>8. code' \in [Codes -> Row \cup {NoCode}]
  <2>1. \A c \in Codes : code'[c] \in Row \cup {NoCode}
    BY <1>5, <1>6
  <2>2. code' = [c \in Codes |-> code'[c]]
    BY <1>2, Zenon
  <2> QED BY <2>1, <2>2
<1>9. ASSUME NEW c \in Present
      PROVE  /\ code'[c].group = code[c].group
             /\ code'[c].point = IF code[c].point = p THEN None ELSE code[c].point
  <2>1. CASE code[c].point = p
    <3> DEFINE g == code[c].group
    <3>1. code'[c] = [group |-> g, point |-> None]
      BY <1>3, <2>1
    <3> HIDE DEF g
    <3>2. code'[c].group = g /\ code'[c].point = None
      BY <3>1
    <3> QED BY <2>1, <3>2 DEF g
  <2>2. CASE code[c].point # p
    BY <1>4, <2>2
  <2> QED BY <2>1, <2>2
<1> QED BY <1>7, <1>8, <1>9

\* Every step keeps the types.
LEMMA SheetShapeStep ==
  ASSUME TypeOK, SheetShape, ShelfInv, LeftInv, [MarketNext]_allVars
  PROVE  SheetShape'
<1>0. (ShapeOfSheet /\ ShapeOfOrders => SheetShape)'
  BY SheetParts, PTL
<1>1. UNCHANGED <<work, own>> /\ ShapeOfSheet /\ ShapeOfOrders
  BY SheetSteps, SheetParts
<1>2. UNCHANGED marketVars => SheetShape'
  BY <1>1 DEF SheetShape, marketVars, sheet, activation, Running
<1>3. ASSUME NEW a \in Activations, Activate(a), deleted' = deleted PROVE SheetShape'
  <2>1. PICK p \in Stored, n \in 1 .. MaxAmount :
          act'[a] = [point |-> p, token |-> point[p].addr, amount |-> n,
                     seen |-> left, codes |-> {}]
    BY <1>3, ActivateEffect
  <2>2. p \in Points /\ point[p].addr \in Addresses
    BY RowOfPoint DEF Stored
  <2>3. act'[a] \in Order
    BY <2>1, <2>2 DEF Order, SheetShape
  <2>4. Shifted(a) /\ UNCHANGED <<sheet, nft, shelf>>
    BY <1>3, ActivateEffect
  <2>5. ShapeOfOrders'
    BY <2>3, <2>4, OrdersShape
  <2>6. ShapeOfSheet'
    BY <1>1, <1>3, <2>4 DEF ShapeOfSheet, sheet
  <2> QED BY <1>0, <2>5, <2>6
<1>4. ASSUME NEW a \in Activations, FetchCodes(a), deleted' = deleted PROVE SheetShape'
  <2>1. Shifted(a) /\ at[a] = "fetch" /\ UNCHANGED <<sheet, nft, shelf>>
    BY <1>4, FetchEffect
  <2>2. Closed(a) \/ act'[a] \in Order
    <3>1. ASSUME ~Closed(a) PROVE act'[a] \in Order
      <4>1. PICK S : /\ FetchedCodes(a, S)
                     /\ act'[a] = [point |-> act[a].point, token |-> act[a].token,
                                   amount |-> act[a].amount, seen |-> act[a].seen,
                                   codes |-> S]
        BY <1>4, <3>1, FetchEffect
      <4>2. act[a] \in Order
        BY <2>1 DEF SheetShape, Running
      <4>3. S \subseteq Nat
        <5>1. CASE own
          <6>1. Cardinality(Present) \in Nat /\ act[a].amount \in Nat
            BY <4>2, SomeCodes, RowsAreThere DEF Order, Count
          <6> QED BY <4>1, <5>1, <6>1 DEF FetchedCodes, NewNumbers
        <5>2. CASE ~own
          BY <4>1, <5>2, SomeCodes DEF FetchedCodes
        <5> QED BY <5>1, <5>2
      <4>4. /\ act[a].point \in Points /\ act[a].token \in Addresses
            /\ act[a].amount \in 1 .. MaxAmount /\ act[a].seen \in 0 .. Issued
        BY <4>2 DEF Order
      <4> QED BY <4>1, <4>3, <4>4 DEF Order
    <3> QED BY <3>1
  <2>3. ShapeOfOrders'
    BY <2>1, <2>2, OrdersShape
  <2>4. ShapeOfSheet'
    BY <1>1, <1>4, <2>1 DEF ShapeOfSheet, sheet
  <2> QED BY <1>0, <2>3, <2>4
<1>5. ASSUME NEW a \in Activations, ListCoupon(a), deleted' = deleted PROVE SheetShape'
  <2>1. Shifted(a) /\ at[a] = "list" /\ UNCHANGED sheet
    BY <1>5, ListEffect
  <2>2. act[a] \in Order
    BY <2>1 DEF SheetShape, Running
  <2>3. ShapeOfOrders'
    BY <1>5, <2>1, <2>2, ListEffect, OrdersShape
  <2>4. CASE UNCHANGED <<nft, shelf>>
    BY <1>0, <1>1, <1>5, <2>1, <2>3, <2>4 DEF ShapeOfSheet, sheet
  <2>5. CASE Shelved(a)
    <3>1. act[a].amount \in 1 .. MaxAmount /\ act[a].token \in Addresses
      BY <2>2 DEF Order
    <3>2. shelf'[a] \in Listing /\ shelf'[a] # None
      BY <2>5, <3>1, RowsAreThere DEF Shelved, Listing
    <3>3. nft' \in 0 .. Coupons
      BY <2>5, <3>1, RowsAreThere DEF Shelved, SheetShape
    <3>4. shelf' \in [Activations -> Listing \cup {None}]
      BY <2>5, <3>2 DEF Shelved, SheetShape
    <3>5. \A b \in batch : shelf'[b] # None
      BY <2>5, <3>2 DEF Shelved, SheetShape
    <3>6. ShapeOfSheet'
      BY <1>1, <1>5, <2>1, <3>3, <3>4, <3>5 DEF ShapeOfSheet, sheet
    <3> QED BY <1>0, <2>3, <3>6
  <2> QED BY <1>5, <2>4, <2>5, ListEffect
<1>6. ASSUME NEW a \in Activations, Persist(a), deleted' = deleted PROVE SheetShape'
  <2>1. Shifted(a) /\ at[a] = "persist" /\ Closed(a) /\ UNCHANGED <<nft, shelf, gone>>
    BY <1>6, PersistEffect
  <2>2. ShapeOfOrders'
    BY <2>1, OrdersShape
  <2>3. CASE UNCHANGED sheet
    BY <1>0, <1>1, <1>6, <2>1, <2>2, <2>3 DEF ShapeOfSheet, sheet
  <2>4. CASE /\ code' = Rewritten(a) /\ batch' = batch \cup {a}
             /\ left' = IF own THEN act[a].seen - act[a].amount ELSE left
    <3>1. act[a] \in Order /\ a \in Running
      BY <2>1 DEF SheetShape, Running
    <3>2. /\ act[a].point \in Points /\ act[a].seen \in 0 .. Issued
          /\ act[a].amount \in 1 .. MaxAmount
          /\ own => act[a].amount <= act[a].seen
      BY <3>1 DEF Order, LeftInv
    <3>3. left' \in 0 .. Issued
      BY <2>4, <3>2, RowsAreThere DEF SheetShape
    <3>4. [group |-> a, point |-> act[a].point] \in Row
      BY <3>2 DEF Row
    <3>5. code' \in [Codes -> Row \cup {NoCode}]
      BY <2>4, <3>4 DEF Rewritten, SheetShape
    <3>6. shelf[a] # None
      <4>1. shelf[a] = [amount |-> act[a].amount, token |-> act[a].token]
        BY <2>1 DEF ShelfInv
      <4>2. shelf[a] \in Listing
        BY <3>1, <4>1 DEF Order, Listing
      <4> QED BY <4>2, RowsAreThere
    <3>7. batch' \subseteq Activations /\ \A b \in batch' : shelf'[b] # None
      BY <2>1, <2>4, <3>6 DEF SheetShape
    <3>8. ShapeOfSheet'
      BY <1>1, <1>6, <2>1, <3>3, <3>5, <3>7 DEF ShapeOfSheet
    <3> QED BY <1>0, <2>2, <3>8
  <2> QED BY <1>6, <2>3, <2>4, PersistEffect
<1>7. ASSUME NEW p \in Points, DeletePriced(p) PROVE SheetShape'
  <2>3. code' \in [Codes -> Row \cup {NoCode}]
    BY <1>7, UnpricedCodes
  <2>4. /\ UNCHANGED <<left, gone, batch, nft, shelf, activation>> /\ deleted' = TRUE
    BY <1>7 DEF DeletePriced
  <2>5. ShapeOfSheet'
    BY <1>1, <2>3, <2>4 DEF ShapeOfSheet
  <2>6. ShapeOfOrders'
    BY <1>1, <2>4 DEF ShapeOfOrders, Running, activation
  <2> QED BY <1>0, <2>5, <2>6
<1>8. ASSUME DeleteVoucher PROVE SheetShape'
  <2>1. /\ code' \in [Codes -> Row \cup {NoCode}] /\ gone' = TRUE
        /\ UNCHANGED <<left, batch, nft, shelf, activation, deleted>>
    BY <1>8 DEF DeleteVoucher
  <2>2. ShapeOfSheet'
    BY <1>1, <2>1 DEF ShapeOfSheet
  <2>3. ShapeOfOrders'
    BY <1>1, <2>1 DEF ShapeOfOrders, Running, activation
  <2> QED BY <1>0, <2>2, <2>3
<1> QED BY <1>2, <1>3, <1>4, <1>5, <1>6, <1>7, <1>8, SheetSteps

(***************************************************************************)
(* Listings and rows.                                                      *)
(***************************************************************************)
\* An activation makes its own listing, and its row afterwards.
LEMMA ShelfStep ==
  ASSUME TypeOK, SheetShape, SheetShape', ShelfInv, [MarketNext]_allVars
  PROVE  ShelfInv'
<1>0. UNCHANGED <<work, own, polite>>
  BY SheetSteps
<1>1. ASSUME UNCHANGED <<shelf, batch, activation>> PROVE ShelfInv'
  BY <1>0, <1>1 DEF ShelfInv, activation, Running
<1>2. ASSUME NEW a \in Activations, work = "vouchers", Shifted(a),
             \A b \in Activations \ {a} : shelf'[b] = shelf[b] /\ (b \in batch' => b \in batch),
             at'[a] \in {"idle", "fetch", "list"} => shelf'[a] = None,
             at'[a] = "persist" =>
               a \notin batch' /\ shelf'[a] = [amount |-> act'[a].amount, token |-> act'[a].token],
             polite => Running \subseteq {a}
      PROVE  ShelfInv'
  <2>1. ASSUME NEW b \in Activations
        PROVE  /\ at'[b] \in {"idle", "fetch", "list"} => shelf'[b] = None
               /\ at'[b] = "persist" =>
                    b \notin batch' /\ shelf'[b] = [amount |-> act'[b].amount, token |-> act'[b].token]
    <3>1. CASE b = a
      BY <1>2, <3>1
    <3>2. CASE b # a
      BY <1>2, <3>2 DEF ShelfInv, Shifted
    <3> QED BY <3>1, <3>2
  <2>2. Running' \ {a} = Running \ {a}
    BY <1>2, OrderMoves
  <2>3. polite' => \A x, y \in Running' : x = y
    BY <1>0, <1>2, <2>2
  <2> QED BY <1>0, <1>2, <2>1, <2>3 DEF ShelfInv
<1>3. ASSUME NEW a \in Activations, a \in Running PROVE polite => Running \subseteq {a}
  BY <1>3 DEF ShelfInv
<1>4. ASSUME NEW a \in Activations, work = "vouchers",
             Activate(a) \/ FetchCodes(a) \/ ListCoupon(a) \/ Persist(a)
      PROVE  ShelfInv'
  <2>1. CASE Activate(a)
    <3>1. /\ Shifted(a) /\ at[a] = "idle" /\ at'[a] = "fetch" /\ (polite => Running = {})
          /\ UNCHANGED <<sheet, nft, shelf>>
      BY <2>1, ActivateEffect
    <3> QED BY <1>2, <1>4, <3>1 DEF sheet, ShelfInv
  <2>2. CASE FetchCodes(a)
    <3>1. /\ Shifted(a) /\ at[a] = "fetch" /\ UNCHANGED <<sheet, nft, shelf>>
          /\ at'[a] \in {"over", "list"}
      BY <2>2, FetchEffect DEF Closed
    <3>2. polite => Running \subseteq {a}
      BY <1>3, <3>1 DEF Running
    <3> QED BY <1>2, <1>4, <3>1, <3>2 DEF sheet, ShelfInv
  <2>3. CASE ListCoupon(a)
    <3>1. /\ Shifted(a) /\ at[a] = "list" /\ UNCHANGED sheet
          /\ \/ Shelved(a) /\ at'[a] = "persist" /\ act'[a] = act[a]
             \/ Shelved(a) /\ Closed(a)
             \/ UNCHANGED <<nft, shelf>> /\ Closed(a)
      BY <2>3, ListEffect
    <3>2. polite => Running \subseteq {a}
      BY <1>3, <3>1 DEF Running
    <3>3. a \notin batch
      BY <3>1 DEF ShelfInv, SheetShape
    <3>4. \A b \in Activations \ {a} : shelf'[b] = shelf[b]
      BY <3>1 DEF Shelved
    <3>5. at'[a] \notin {"idle", "fetch", "list"}
      BY <3>1 DEF Closed
    <3>6. at'[a] = "persist" => shelf'[a] = [amount |-> act'[a].amount, token |-> act'[a].token]
      BY <3>1 DEF Closed, Shelved
    <3> QED BY <1>2, <1>4, <3>1, <3>2, <3>3, <3>4, <3>5, <3>6 DEF sheet
  <2>4. CASE Persist(a)
    <3>1. /\ Shifted(a) /\ at[a] = "persist" /\ Closed(a) /\ shelf' = shelf
          /\ batch' \subseteq batch \cup {a}
      BY <2>4, PersistEffect DEF sheet
    <3>2. polite => Running \subseteq {a}
      BY <1>3, <3>1 DEF Running
    <3> QED BY <1>2, <1>4, <3>1, <3>2 DEF Closed
  <2> QED BY <1>4, <2>1, <2>2, <2>3, <2>4
<1> QED BY <1>1, <1>4, SheetSteps DEF marketVars, sheet, DeletePriced, DeleteVoucher

\* The listing of an activation is what was ordered.
LEMMA ListedOrder ==
  ASSUME SheetShape, ShelfInv, NEW a \in Activations, at[a] = "persist"
  PROVE  /\ a \notin batch /\ a \in Stranded
         /\ shelf[a].amount = act[a].amount /\ shelf[a].token = act[a].token
<1> DEFINE n == act[a].amount  t == act[a].token
<1>1. a \notin batch /\ shelf[a] = [amount |-> n, token |-> t]
  BY DEF ShelfInv
<1>2. n \in 1 .. MaxAmount /\ t \in Addresses
  BY DEF SheetShape, Running, Order
<1> HIDE DEF n, t
<1>3. shelf[a].amount = n /\ shelf[a].token = t /\ shelf[a] \in Listing
  BY <1>1, <1>2 DEF Listing
<1> QED BY <1>1, <1>3, RowsAreThere DEF n, t, Stranded

\* What an activation writes.
LEMMA RewrittenCodes ==
  ASSUME SheetShape, NEW a \in Activations, Persist(a), Acceptable(a), code' = Rewritten(a)
  PROVE  /\ a \in Running /\ act[a] \in Order /\ act[a].point \in Points
         /\ Written(a) \cap Codes \subseteq Present'
         /\ Present' = Present \cup (Written(a) \cap Codes)
         /\ \A c \in Written(a) \cap Codes : code'[c].group = a /\ code'[c].point = act[a].point
         /\ \A c \in Codes \ Written(a) : code'[c] = code[c]
<1>1. a \in Running /\ act[a] \in Order
  BY PersistEffect DEF SheetShape, Running
<1>2. act[a].point \in Points
  BY <1>1 DEF Order
<1>3. [group |-> a, point |-> act[a].point] \in Row
  BY <1>2 DEF Row
<1>4. /\ \A c \in Written(a) \cap Codes : code'[c] = [group |-> a, point |-> act[a].point]
      /\ \A c \in Codes \ Written(a) : code'[c] = code[c]
  BY DEF Rewritten
<1>5. Present' = Present \cup (Written(a) \cap Codes)
  <2>1. [group |-> a, point |-> act[a].point] # NoCode
    BY <1>3, RowsAreThere
  <2> QED BY <1>4, <2>1 DEF Present
<1> QED BY <1>1, <1>2, <1>4, <1>5

\* A code joins a group only with the row of that group.
LEMMA RowStep ==
  ASSUME TypeOK, SheetShape, RowInv, [MarketNext]_allVars
  PROVE  RowInv'
<1>1. ASSUME UNCHANGED sheet PROVE RowInv'
  BY <1>1 DEF RowInv, sheet, Present
<1>2. ASSUME NEW p \in Points, DeletePriced(p) PROVE RowInv'
  <2>1. batch' = batch /\ gone' = gone
    BY <1>2 DEF DeletePriced
  <2> QED BY <1>2, <2>1, UnpricedCodes DEF RowInv
<1>3. ASSUME DeleteVoucher PROVE RowInv'
  <2>1. Present' = {}
    BY <1>3 DEF DeleteVoucher, Present
  <2> QED BY <2>1 DEF RowInv
<1>4. ASSUME NEW a \in Activations, Persist(a), Acceptable(a), code' = Rewritten(a),
             batch' = batch \cup {a}, gone' = gone
      PROVE  RowInv'
  <2>1. /\ Present' = Present \cup (Written(a) \cap Codes)
        /\ \A c \in Written(a) \cap Codes : code'[c].group = a
        /\ \A c \in Codes \ Written(a) : code'[c] = code[c]
    BY <1>4, RewrittenCodes
  <2>2. Present \subseteq Codes
    BY DEF Present
  <2>3. gone => Written(a) = {}
    BY <1>4 DEF Acceptable, Written, RowInv
  <2>4. a # None
    BY Shelves
  <2>5. ASSUME NEW c \in Present'
        PROVE  code'[c].group \in batch' \cup {None} /\ (code'[c].point # None => code'[c].group # None)
    <3>1. CASE c \in Written(a)
      BY <1>4, <2>1, <2>2, <2>4, <3>1
    <3>2. CASE c \notin Written(a)
      BY <1>4, <2>1, <2>2, <3>2 DEF RowInv
    <3> QED BY <3>1, <3>2
  <2>6. gone' => Present' = {}
    BY <1>4, <2>1, <2>3 DEF RowInv
  <2> QED BY <2>5, <2>6 DEF RowInv
<1>5. ASSUME NEW a \in Activations, Activate(a) \/ FetchCodes(a) \/ ListCoupon(a) \/ Persist(a)
      PROVE  RowInv'
  BY <1>1, <1>4, <1>5, ActivateEffect, FetchEffect, ListEffect, PersistEffect
<1> QED BY <1>1, <1>2, <1>3, <1>5, SheetSteps DEF marketVars

(***************************************************************************)
(* Prices.                                                                 *)
(***************************************************************************)
\* A row that stays where it was, if the operator has not touched it.
RowsStay ==
  \A p \in Stored : /\ p \in Stored'
                    /\ p \notin moved' => p \notin moved /\ point'[p].addr = point[p].addr

\* What happens to vouchers and to rows of points.
LEMMA QuietSteps ==
  ASSUME TypeOK, KnownInv, [MarketNext]_allVars
  PROVE  \/ UNCHANGED marketVars /\ work = "points"
         \/ UNCHANGED marketVars /\ RowsStay
         \/ /\ work = "vouchers" /\ UNCHANGED <<books, chain, requests, history, deleted>>
            /\ \E a \in Activations :
                 Activate(a) \/ FetchCodes(a) \/ ListCoupon(a) \/ Persist(a)
         \/ \E p \in Points : Deleted(p) /\ DeletePriced(p)
         \/ DeleteVoucher /\ UNCHANGED <<books, chain, requests, history>>
<1>1. CASE UNCHANGED allVars
  BY <1>1 DEF allVars, vars, books, history, RowsStay, Stored
<1>2. CASE work = "points" /\ UNCHANGED marketVars
  BY <1>2
<1>3. CASE work = "vouchers" /\ PointStep
  <2>1. ASSUME NEW r \in Requests, Create(r) PROVE RowsStay
    <3>1. RequestStep(r)
      BY <2>1 DEF RequestStep
    <3> QED BY <3>1, RowWrites, MovedStays DEF RowsStay
  <2>2. ASSUME NEW p \in Points, UpdatePointContractAddress(p) PROVE RowsStay
    <3>1. Redirected(p)
      BY <2>2, UpdateEffect
    <3>2. PICK a \in Used : /\ point'[p] = [addr |-> a]
                            /\ moved' = moved \cup {p, contract[a].of}
      BY <3>1 DEF Redirected
    <3>3. a # 0
      BY <3>2 DEF Used, Addresses
    <3>4. p \in Stored'
      BY <3>2, <3>3 DEF Stored, NoPoint
    <3>5. \A q \in Stored : q # p => q \in Stored' /\ point'[q] = point[q]
      BY <3>1 DEF Redirected, Stored
    <3> QED BY <3>2, <3>4, <3>5 DEF RowsStay
  <2>3. DeleteVoucher => UNCHANGED <<books, chain, requests, history>>
    BY DEF DeleteVoucher, Operation, books, history
  <2> QED BY <1>3, <2>1, <2>2, <2>3, DeleteEffect DEF PointStep
<1>4. CASE work = "vouchers" /\ \E a \in Activations : ActivationStep(a)
  BY <1>4 DEF ActivationStep
<1>5. CASE MarketNext
  BY <1>2, <1>3, <1>4, <1>5 DEF MarketNext
<1> QED BY <1>1, <1>5

PricesFit ==
  \A c \in Present : code[c].point # None =>
    /\ code[c].point \in Stored
    /\ code[c].point \notin moved =>
         shelf[code[c].group].token = point[code[c].point].addr

OrderFits(a) ==
  /\ act[a].point \in Made
  /\ act[a].point \in Stored \ moved => act[a].token = point[act[a].point].addr

OrdersFit == \A a \in Running : OrderFits(a)

\* PriceInv: of codes, and of activations.
LEMMA PriceParts == PriceInv <=> PricesFit /\ OrdersFit
  BY DEF PriceInv, PricesFit, OrdersFit, OrderFits

\* A code's price stays the point of its listing.
LEMMA PricesStep ==
  ASSUME TypeOK, KnownInv, SheetShape, ShelfInv, RowInv, PricesFit, OrdersFit,
         [MarketNext]_allVars
  PROVE  PricesFit'
<1>0. ASSUME NEW c \in Present, code[c].point # None
      PROVE  /\ code[c].group \in batch /\ code[c].point \in Stored
             /\ code[c].point \notin moved =>
                  shelf[code[c].group].token = point[code[c].point].addr
  BY <1>0 DEF RowInv, PricesFit
<1>1. CASE UNCHANGED marketVars /\ work = "points"
  <2>1. batch = {}
    BY <1>1 DEF ShelfInv, SheetShape
  <2>2. Present' = Present /\ code' = code
    BY <1>1 DEF marketVars, sheet, Present
  <2> QED BY <1>0, <2>1, <2>2 DEF PricesFit
<1>2. CASE UNCHANGED marketVars /\ RowsStay
  <2>1. Present' = Present /\ code' = code /\ shelf' = shelf
    BY <1>2 DEF marketVars, sheet, Present
  <2> QED BY <1>0, <1>2, <2>1 DEF PricesFit, RowsStay
<1>3. ASSUME NEW p \in Points, Deleted(p), DeletePriced(p) PROVE PricesFit'
  <2>1. /\ Present' = Present /\ shelf' = shelf /\ moved' = moved
        /\ \A c \in Present : /\ code'[c].group = code[c].group
                              /\ code'[c].point = IF code[c].point = p THEN None ELSE code[c].point
    BY <1>3, UnpricedCodes DEF DeletePriced, Deleted
  <2>2. \A q \in Stored : q # p => q \in Stored' /\ point'[q] = point[q]
    BY <1>3 DEF Deleted, Stored
  <2> QED BY <1>0, <2>1, <2>2 DEF PricesFit
<1>4. ASSUME DeleteVoucher PROVE PricesFit'
  <2>1. Present' = {}
    BY <1>4 DEF DeleteVoucher, Present
  <2> QED BY <2>1 DEF PricesFit
<1>5. ASSUME NEW a \in Activations, UNCHANGED <<books, history>>, UNCHANGED code,
             \A b \in batch : shelf'[b] = shelf[b]
      PROVE  PricesFit'
  BY <1>0, <1>5 DEF PricesFit, Present, Stored, books, history
<1>6. ASSUME NEW a \in Activations, UNCHANGED <<books, history>>,
             Persist(a), Acceptable(a), code' = Rewritten(a), shelf' = shelf
      PROVE  PricesFit'
  <2>1. /\ a \in Running /\ act[a].point \in Points
        /\ Present' = Present \cup (Written(a) \cap Codes)
        /\ \A c \in Written(a) \cap Codes : code'[c].group = a /\ code'[c].point = act[a].point
        /\ \A c \in Codes \ Written(a) : code'[c] = code[c]
    BY <1>6, RewrittenCodes
  <2>2. Written(a) # {} => act[a].point \in Stored
    BY <1>6, <2>1 DEF Acceptable, Stored
  <2>3. act[a].point \in Stored \ moved => shelf[a].token = point[act[a].point].addr
    <3>1. at[a] = "persist"
      BY <1>6, PersistEffect
    <3>2. shelf[a].token = act[a].token
      BY <3>1, ListedOrder
    <3> QED BY <2>1, <3>2 DEF OrdersFit, OrderFits
  <2>4. UNCHANGED <<point, moved>> /\ Stored' = Stored /\ Present \subseteq Codes
    BY <1>6 DEF books, history, Stored, Present
  <2>5. ASSUME NEW c \in Present', code'[c].point # None
        PROVE  /\ code'[c].point \in Stored
               /\ code'[c].point \notin moved =>
                    shelf[code'[c].group].token = point[code'[c].point].addr
    <3>1. CASE c \in Written(a)
      BY <2>1, <2>2, <2>3, <2>4, <3>1
    <3>2. CASE c \notin Written(a)
      BY <1>0, <2>1, <2>4, <2>5, <3>2
    <3> QED BY <3>1, <3>2
  <2> QED BY <1>6, <2>4, <2>5 DEF PricesFit
<1>7. ASSUME NEW a \in Activations, UNCHANGED <<books, history>>,
             Activate(a) \/ FetchCodes(a) \/ ListCoupon(a) \/ Persist(a)
      PROVE  PricesFit'
  <2>1. CASE Activate(a) \/ FetchCodes(a)
    BY <1>5, <1>7, <2>1, ActivateEffect, FetchEffect DEF sheet
  <2>2. CASE ListCoupon(a)
    <3>1. code' = code /\ at[a] = "list" /\ (Shelved(a) \/ shelf' = shelf)
      BY <2>2, ListEffect DEF sheet
    <3>2. a \notin batch /\ batch \subseteq Activations
      BY <3>1 DEF ShelfInv, SheetShape
    <3>3. \A b \in batch : shelf'[b] = shelf[b]
      BY <3>1, <3>2 DEF Shelved
    <3> QED BY <1>5, <1>7, <3>1, <3>3
  <2>3. CASE Persist(a)
    BY <1>5, <1>6, <1>7, <2>3, PersistEffect DEF sheet
  <2> QED BY <1>7, <2>1, <2>2, <2>3
<1> QED BY <1>1, <1>2, <1>3, <1>4, <1>7, QuietSteps

\* An activation's point stays the one it has read.
LEMMA OrdersStep ==
  ASSUME TypeOK, KnownInv, SheetShape, ShelfInv, OrdersFit, [MarketNext]_allVars
  PROVE  OrdersFit'
<1>0. Made \subseteq Made'
  BY MadeStays
<1>1. CASE UNCHANGED marketVars /\ work = "points"
  <2>1. Running' = {}
    BY <1>1 DEF ShelfInv, Running, marketVars, activation
  <2> QED BY <2>1 DEF OrdersFit
<1>2. CASE UNCHANGED marketVars /\ RowsStay
  <2>1. Running' = Running /\ act' = act
    BY <1>2 DEF marketVars, activation, Running
  <2>2. ASSUME NEW a \in Running PROVE OrderFits(a)'
    <3>1. OrderFits(a)
      BY DEF OrdersFit
    <3>2. act[a].point \in Stored' => act[a].point \in Stored
      BY <3>1, NewRows DEF OrderFits
    <3> QED BY <1>0, <1>2, <2>1, <3>1, <3>2 DEF OrderFits, RowsStay
  <2> QED BY <2>1, <2>2 DEF OrdersFit
<1>3. ASSUME NEW p \in Points, Deleted(p), DeletePriced(p) PROVE OrdersFit'
  <2>1. Running' = Running /\ act' = act /\ moved' = moved
    BY <1>3 DEF DeletePriced, Deleted, activation, Running
  <2>2. \A q \in Stored' : q \in Stored /\ point'[q] = point[q]
    BY <1>3 DEF Deleted, Stored
  <2> QED BY <1>0, <2>1, <2>2 DEF OrdersFit, OrderFits
<1>4. ASSUME DeleteVoucher, UNCHANGED <<books, chain, requests, history>> PROVE OrdersFit'
  <2>1. Running' = Running /\ act' = act /\ Stored' = Stored /\ UNCHANGED <<point, moved>>
    BY <1>4 DEF DeleteVoucher, activation, Running, Stored, books, history
  <2> QED BY <1>0, <2>1 DEF OrdersFit, OrderFits
<1>5. ASSUME NEW a \in Activations, UNCHANGED <<books, history>>,
             Activate(a) \/ FetchCodes(a) \/ ListCoupon(a) \/ Persist(a)
      PROVE  OrdersFit'
  <2>1. Shifted(a) /\ Stored' = Stored /\ UNCHANGED <<point, moved>>
    BY <1>5, ActivateEffect, FetchEffect, ListEffect, PersistEffect
       DEF books, history, Stored
  <2>2. ASSUME a \in Running' PROVE OrderFits(a)'
    <3>1. CASE Activate(a)
      <4>1. PICK p \in Stored, n \in 1 .. MaxAmount :
              act'[a] = [point |-> p, token |-> point[p].addr, amount |-> n,
                         seen |-> left, codes |-> {}]
        BY <3>1, ActivateEffect
      <4>2. act'[a].point = p /\ act'[a].token = point[p].addr /\ p \in Made
        BY <4>1 DEF KnownInv
      <4> QED BY <1>0, <2>1, <4>2 DEF OrderFits
    <3>2. CASE FetchCodes(a)
      <4>1. at[a] = "fetch" /\ ~Closed(a)
        BY <2>2, <3>2, FetchEffect DEF Running, Closed
      <4>2. PICK S : act'[a] = [point |-> act[a].point, token |-> act[a].token,
                                amount |-> act[a].amount, seen |-> act[a].seen, codes |-> S]
        BY <3>2, <4>1, FetchEffect
      <4>3. act'[a].point = act[a].point /\ act'[a].token = act[a].token
        BY <4>2
      <4> QED BY <1>0, <2>1, <4>1, <4>3 DEF OrdersFit, OrderFits, Running
    <3>3. CASE ListCoupon(a) \/ Persist(a)
      <4>1. act'[a] = act[a] /\ a \in Running
        BY <2>2, <3>3, ListEffect, PersistEffect DEF Running, Closed
      <4> QED BY <1>0, <2>1, <4>1 DEF OrdersFit, OrderFits
    <3> QED BY <1>5, <3>1, <3>2, <3>3
  <2>3. ASSUME NEW b \in Running', b # a PROVE OrderFits(b)'
    <3>1. b \in Running /\ act'[b] = act[b]
      BY <2>1, <2>3 DEF Shifted, Running
    <3> QED BY <1>0, <2>1, <3>1 DEF OrdersFit, OrderFits
  <2> QED BY <2>2, <2>3 DEF OrdersFit
<1> QED BY <1>1, <1>2, <1>3, <1>4, <1>5, QuietSteps

\* Every step keeps prices and listings together.
LEMMA PriceStep ==
  ASSUME TypeOK, KnownInv, SheetShape, ShelfInv, RowInv, PriceInv, [MarketNext]_allVars
  PROVE  PriceInv'
<1>1. (PricesFit /\ OrdersFit => PriceInv)'
  BY PriceParts, PTL
<1> QED BY <1>1, PriceParts, PricesStep, OrdersStep

(***************************************************************************)
(* Sums of listings.                                                       *)
(***************************************************************************)
ListedAmounts == \A a \in Activations : shelf[a] # None => shelf[a].amount \in 1 .. MaxAmount

\* A listing has at least a coupon.
LEMMA AmountsListed ==
  ASSUME SheetShape
  PROVE  ListedAmounts
<1> SUFFICES ASSUME NEW a \in Activations, shelf[a] # None PROVE shelf[a].amount \in 1 .. MaxAmount
  BY DEF ListedAmounts
<1>1. shelf[a] \in Listing
  BY DEF SheetShape
<1> QED BY <1>1 DEF Listing

\* Listings have a sum.
LEMMA AmountedType ==
  ASSUME SheetShape, NEW S, S \subseteq {a \in Activations : shelf[a] # None}
  PROVE  /\ Tallied([a \in S |-> shelf[a].amount]) /\ Amounted(S) \in Nat
         /\ IsFiniteSet(S)
<1>1. IsFiniteSet(S)
  BY Shelves, FS_Subset
<1>2. \A a \in S : shelf[a].amount \in Nat
  BY AmountsListed, RowsAreThere DEF ListedAmounts
<1>3. Tallied([a \in S |-> shelf[a].amount])
  BY <1>1, <1>2 DEF Tallied
<1> QED BY <1>1, <1>3, TallyType DEF Amounted

\* The sum with one listing more.
LEMMA AmountedMore ==
  ASSUME SheetShape, SheetShape',
         NEW S, S \subseteq {a \in Activations : shelf[a] # None},
         NEW T, T \subseteq {a \in Activations : shelf'[a] # None},
         NEW a \in Activations, a \notin S, T = S \cup {a},
         \A b \in S : shelf'[b] = shelf[b]
  PROVE  Tally([b \in T |-> shelf'[b].amount]) = Tally([b \in S |-> shelf[b].amount]) + shelf'[a].amount
<1> DEFINE f == [b \in S |-> shelf[b].amount]  g == [b \in T |-> shelf'[b].amount]
<1>1. Tallied(f) /\ Tally(f) \in Nat
  BY AmountedType DEF Amounted
<1>2. Tallied(g) /\ Tally(g) \in Nat
  <2>1. IsFiniteSet(T)
    BY Shelves, FS_Subset
  <2>2. \A b \in T : shelf'[b].amount \in Nat
    <3>1. ListedAmounts'
      <4>1. (SheetShape => ListedAmounts)'
        BY AmountsListed, PTL
      <4> QED BY <4>1
    <3> QED BY <3>1, RowsAreThere DEF ListedAmounts
  <2>3. Tallied(g)
    BY <2>1, <2>2 DEF Tallied
  <2> QED BY <2>3, TallyType
<1>3. \A b : b # a => ValueAt(f, b) = ValueAt(g, b)
  BY DEF ValueAt
<1>4. ValueAt(f, a) = 0 /\ ValueAt(g, a) = shelf'[a].amount
  BY DEF ValueAt
<1>5. shelf'[a].amount \in Nat
  BY <1>2 DEF Tallied
<1> HIDE DEF f, g
<1>6. Tally(g) + ValueAt(f, a) = Tally(f) + ValueAt(g, a)
  BY <1>1, <1>2, <1>3, TallyChange
<1>7. Tally(g) = Tally(f) + shelf'[a].amount
  BY <1>1, <1>2, <1>4, <1>5, <1>6
<1> QED BY <1>7 DEF f, g

\* Which stays if they do.
LEMMA AmountedSame ==
  ASSUME NEW S, \A b \in S : shelf'[b] = shelf[b]
  PROVE  Tally([b \in S |-> shelf'[b].amount]) = Tally([b \in S |-> shelf[b].amount])
<1>1. [b \in S |-> shelf'[b].amount] = [b \in S |-> shelf[b].amount]
  OBVIOUS
<1> QED BY <1>1

\* Listings with a row and without; numbers of coupons.
LEMMA StrandedSet ==
  ASSUME SheetShape
  PROVE  /\ Stranded \subseteq {a \in Activations : shelf[a] # None}
         /\ batch \subseteq {a \in Activations : shelf[a] # None}
         /\ Amounted(batch) \in Nat /\ Amounted(Stranded) \in Nat /\ nft \in Nat
<1>1. /\ Stranded \subseteq {a \in Activations : shelf[a] # None}
      /\ batch \subseteq {a \in Activations : shelf[a] # None}
  BY DEF SheetShape, Stranded
<1>2. Amounted(Stranded) \in Nat
  BY <1>1, AmountedType
<1>3. Amounted(batch) \in Nat
  BY <1>1, AmountedType
<1>4. nft \in Nat
  BY RowsAreThere DEF SheetShape
<1> QED BY <1>1, <1>2, <1>3, <1>4

\* What the sums become.
LEMMA SumsStep ==
  ASSUME SheetShape, SheetShape', ShelfInv, NEW a \in Activations,
         Activate(a) \/ FetchCodes(a) \/ ListCoupon(a) \/ Persist(a)
  PROVE  \/ /\ UNCHANGED <<nft, batch>> /\ Amounted(batch)' = Amounted(batch)
            /\ Amounted(Stranded)' = Amounted(Stranded)
         \/ /\ ListCoupon(a) /\ nft' = nft - act[a].amount /\ Amounted(batch)' = Amounted(batch)
            /\ Amounted(Stranded)' = Amounted(Stranded) + act[a].amount
         \/ /\ Persist(a) /\ nft' = nft /\ batch' = batch \cup {a}
            /\ Amounted(batch)' = Amounted(batch) + act[a].amount
            /\ Amounted(Stranded) = Amounted(Stranded)' + act[a].amount
<1>0. /\ Stranded \subseteq {b \in Activations : shelf[b] # None}
      /\ batch \subseteq {b \in Activations : shelf[b] # None}
  BY StrandedSet
<1>1. CASE UNCHANGED <<nft, shelf, batch>>
  <2>1. Stranded' = Stranded
    BY <1>1 DEF Stranded
  <2> QED BY <1>1, <2>1 DEF Amounted
<1>2. CASE ListCoupon(a) /\ Shelved(a)
  <2>1. at[a] = "list" /\ batch' = batch /\ nft' = nft - act[a].amount
    BY <1>2, ListEffect DEF sheet, Shelved
  <2>2. shelf[a] = None /\ act[a] \in Order
    BY <2>1 DEF ShelfInv, SheetShape, Running
  <2> DEFINE n == act[a].amount  t == act[a].token
  <2>3. shelf'[a] = [amount |-> n, token |-> t] /\ n \in 1 .. MaxAmount /\ t \in Addresses
    BY <1>2, <2>2 DEF Shelved, Order
  <2> HIDE DEF n, t
  <2>4. shelf'[a].amount = n /\ shelf'[a] # None
    BY <2>3, RowsAreThere DEF Listing
  <2>5. \A b \in Activations : b # a => shelf'[b] = shelf[b]
    BY <1>2 DEF Shelved
  <2>6. a \notin batch /\ a \notin Stranded
    BY <1>0, <2>2
  <2>7. Stranded' = Stranded \cup {a}
    BY <2>1, <2>4, <2>5, <2>6 DEF Stranded
  <2>8. Stranded' \subseteq {b \in Activations : shelf'[b] # None}
    BY DEF Stranded
  <2>9. Amounted(Stranded)' = Amounted(Stranded) + n
    <3>1. Tally([b \in Stranded' |-> shelf'[b].amount])
            = Tally([b \in Stranded |-> shelf[b].amount]) + shelf'[a].amount
      BY <1>0, <2>5, <2>6, <2>7, <2>8, AmountedMore
    <3> QED BY <2>4, <3>1 DEF Amounted
  <2>10. Amounted(batch)' = Amounted(batch)
    <3>1. \A b \in batch : shelf'[b] = shelf[b]
      BY <1>0, <2>5, <2>6
    <3>2. Tally([b \in batch |-> shelf'[b].amount]) = Tally([b \in batch |-> shelf[b].amount])
      BY <3>1, AmountedSame
    <3> QED BY <2>1, <3>2 DEF Amounted
  <2> QED BY <1>2, <2>1, <2>9, <2>10 DEF n
<1>3. CASE Persist(a) /\ batch' = batch \cup {a}
  <2>1. at[a] = "persist" /\ UNCHANGED <<nft, shelf>>
    BY <1>3, PersistEffect
  <2>2. a \notin batch /\ a \in Stranded /\ shelf[a].amount = act[a].amount
    BY <2>1, ListedOrder
  <2>3. Stranded' = Stranded \ {a} /\ Stranded = Stranded' \cup {a} /\ a \notin Stranded'
    BY <1>3, <2>1, <2>2 DEF Stranded
  <2>4. /\ batch' \subseteq {b \in Activations : shelf'[b] # None}
        /\ Stranded' \subseteq {b \in Activations : shelf[b] # None}
    BY <1>0, <1>3, <2>1, <2>2, <2>3
  <2>5. Amounted(batch)' = Amounted(batch) + act[a].amount
    <3>1. Tally([b \in batch' |-> shelf'[b].amount])
            = Tally([b \in batch |-> shelf[b].amount]) + shelf'[a].amount
      BY <1>0, <1>3, <2>1, <2>2, <2>4, AmountedMore
    <3> QED BY <2>1, <2>2, <3>1 DEF Amounted
  <2>6. Amounted(Stranded) = Amounted(Stranded)' + act[a].amount
    <3>1. Tally([b \in Stranded |-> shelf'[b].amount])
            = Tally([b \in Stranded' |-> shelf[b].amount]) + shelf'[a].amount
      <4>1. Stranded \subseteq {b \in Activations : shelf'[b] # None}
        BY <1>0, <2>1
      <4>2. \A b \in Stranded' : shelf'[b] = shelf[b]
        BY <2>1
      <4> DEFINE S == Stranded'  T == Stranded
      <4>3. /\ S \subseteq {b \in Activations : shelf[b] # None} /\ a \notin S /\ T = S \cup {a}
            /\ T \subseteq {b \in Activations : shelf'[b] # None} /\ \A b \in S : shelf'[b] = shelf[b]
        BY <2>3, <2>4, <4>1, <4>2
      <4> HIDE DEF S, T
      <4>4. Tally([b \in T |-> shelf'[b].amount]) = Tally([b \in S |-> shelf[b].amount]) + shelf'[a].amount
        BY <4>3, AmountedMore
      <4> QED BY <4>4 DEF S, T
    <3> QED BY <2>1, <2>2, <3>1 DEF Amounted
  <2> QED BY <1>3, <2>1, <2>5, <2>6
<1> QED BY <1>1, <1>2, <1>3, ActivateEffect, FetchEffect, ListEffect, PersistEffect DEF sheet

\* No coupon is made or lost.
LEMMA SupplyStep ==
  ASSUME TypeOK, SheetShape, SheetShape', ShelfInv, SupplyInv, [MarketNext]_allVars
  PROVE  SupplyInv'
<1>1. CASE UNCHANGED <<nft, shelf, batch>>
  <2>1. Stranded' = Stranded
    BY <1>1 DEF Stranded
  <2> QED BY <1>1, <2>1 DEF Amounted, SupplyInv
<1>2. ASSUME NEW a \in Activations, Activate(a) \/ FetchCodes(a) \/ ListCoupon(a) \/ Persist(a)
      PROVE  SupplyInv'
  <2>1. Amounted(batch) \in Nat /\ Amounted(Stranded) \in Nat /\ nft \in Nat
    BY StrandedSet
  <2>2. Amounted(Stranded)' \in Nat
    <3>1. (SheetShape => Amounted(Stranded) \in Nat)'
      BY StrandedSet, PTL
    <3> QED BY <3>1
  <2>3. ListCoupon(a) \/ Persist(a) => act[a].amount \in Nat
    <3>1. ListCoupon(a) \/ Persist(a) => act[a] \in Order
      BY ListEffect, PersistEffect DEF SheetShape, Running
    <3> QED BY <3>1, RowsAreThere DEF Order
  <2>4. nft + Amounted(batch) + Amounted(Stranded) = Coupons
    BY DEF SupplyInv
  <2>5. nft' + Amounted(batch)' + Amounted(Stranded)' = Coupons
    BY <1>2, <2>1, <2>2, <2>3, <2>4, SumsStep, RowsAreThere
  <2> QED BY <2>5 DEF SupplyInv
<1> QED BY <1>1, <1>2, SheetSteps DEF marketVars, sheet, DeletePriced, DeleteVoucher

(***************************************************************************)
(* A voucher of one's own.                                                 *)
(***************************************************************************)
Numbered == Present = 1 .. Count /\ Count = Amounted(batch)
Grouped  == \A c \in Present : code[c].group # None
Filled   == \A a \in batch : CodesInGroup(a) = shelf[a].amount

OrderNumbered(a) == at[a] \in {"list", "persist"} =>
  \E m \in 0 .. Count :
    /\ act[a].codes = m + 1 .. m + act[a].amount
    /\ at[a] = "persist" => m + act[a].amount <= Coupons

OwnSheet == Numbered /\ Grouped /\ Filled /\ \A a \in Activations : OrderNumbered(a)

\* OwnInv, as a formula of its own.
LEMMA OwnParts == OwnInv <=> (own /\ ~gone => OwnSheet)
  BY DEF OwnInv, OwnSheet, Numbered, Grouped, Filled, OrderNumbered

\* As long as no code changes its group, groups have as many codes as before.
LEMMA GroupsStay ==
  ASSUME Present' = Present, \A c \in Present : code'[c].group = code[c].group, NEW b
  PROVE  Cardinality({c \in Present' : code'[c].group = b}) = CodesInGroup(b)
<1>1. {c \in Present' : code'[c].group = b} = {c \in Present : code[c].group = b}
  OBVIOUS
<1> QED BY <1>1 DEF CodesInGroup

\* The new numbers of an activation are those that come next, or the unique
\* index refuses them.
LEMMA NextNumbers ==
  ASSUME SheetShape, ShelfInv, OwnSheet, own, NEW a \in Activations,
         Persist(a), Acceptable(a), code' = Rewritten(a)
  PROVE  /\ Written(a) = Count + 1 .. Count + act[a].amount
         /\ Written(a) \subseteq Codes /\ act[a].amount \in 1 .. MaxAmount
         /\ Cardinality(Written(a)) = act[a].amount
         /\ Present' = 1 .. Count + act[a].amount
         /\ Count' = Count + act[a].amount
<1>1. at[a] = "persist"
  BY PersistEffect
<1>2. act[a] \in Order
  BY <1>1 DEF SheetShape, Running
<1> DEFINE n == act[a].amount  k == Count  W == Written(a)
<1>3. n \in 1 .. MaxAmount /\ n \in Nat /\ n >= 1
  BY <1>2, RowsAreThere DEF Order
<1>4. k \in Nat /\ Coupons \in Nat
  BY SomeCodes, RowsAreThere
<1>5. Present = 1 .. k
  BY DEF OwnSheet, Numbered
<1>6. W = act[a].codes /\ W \cap Present = {}
  BY DEF Acceptable, Written
<1>7. PICK m \in 0 .. k : W = m + 1 .. m + n /\ m + n <= Coupons
  BY <1>1, <1>6 DEF OwnSheet, OrderNumbered
<1>8. /\ Present' = Present \cup (W \cap Codes)
  BY RewrittenCodes
<1> HIDE DEF n, k, W
<1>9. m = k
  <2>1. m \in Nat /\ m <= k
    BY <1>4, <1>7
  <2>2. m < k => m + 1 \in W \cap Present
    BY <1>3, <1>4, <1>5, <1>7, <2>1
  <2> QED BY <1>4, <1>6, <2>1, <2>2
<1>10. W = k + 1 .. k + n /\ W \subseteq Codes
  BY <1>3, <1>4, <1>7, <1>9 DEF Codes
<1>11. Present' = 1 .. k + n
  BY <1>3, <1>4, <1>5, <1>8, <1>10
<1>12. Cardinality(1 .. k + n) = k + n
  <2>1. 1 \in Int /\ k + n \in Int /\ k + n >= 1
    BY <1>3, <1>4
  <2>2. Cardinality(1 .. k + n) = (k + n) - 1 + 1
    BY <2>1, FS_Interval
  <2> QED BY <1>3, <1>4, <2>2
<1>13. Cardinality(W) = n
  <2>1. k + 1 \in Int /\ k + n \in Int /\ k + n >= k + 1
    BY <1>3, <1>4
  <2>2. Cardinality(k + 1 .. k + n) = (k + n) - (k + 1) + 1
    BY <2>1, FS_Interval
  <2> QED BY <1>3, <1>4, <1>10, <2>2
<1>14. Count' = k + n
  BY <1>11, <1>12 DEF Count
<1> QED BY <1>3, <1>10, <1>11, <1>13, <1>14 DEF n, k, W

\* The rows of an activation continue the numbers.
LEMMA OwnPersist ==
  ASSUME SheetShape, SheetShape', ShelfInv, RowInv, OwnSheet, own, NEW a \in Activations,
         Persist(a), Acceptable(a), code' = Rewritten(a), batch' = batch \cup {a}
  PROVE  OwnSheet'
<1> DEFINE n == act[a].amount  k == Count  W == Written(a)
<1>1. /\ W = k + 1 .. k + n /\ W \subseteq Codes /\ n \in 1 .. MaxAmount
      /\ Cardinality(W) = n /\ Present' = 1 .. k + n /\ Count' = k + n
  BY NextNumbers
<1>2. k \in Nat /\ n \in Nat /\ Present = 1 .. k /\ k = Amounted(batch)
  BY <1>1, SomeCodes, RowsAreThere DEF OwnSheet, Numbered
<1>3. Shifted(a) /\ at[a] = "persist" /\ Closed(a) /\ shelf' = shelf
  BY PersistEffect
<1>4. a \notin batch /\ shelf[a].amount = n /\ a # None
  BY <1>3, ListedOrder, Shelves
<1>5. Amounted(batch)' = Amounted(batch) + n
  <2>1. ~ListCoupon(a) /\ batch' # batch
    BY <1>3, <1>4 DEF ListCoupon
  <2> QED BY <2>1, SumsStep
<1>6. Numbered'
  BY <1>1, <1>2, <1>5 DEF Numbered
<1>7. /\ \A c \in W : c \in Present' /\ code'[c].group = a
      /\ \A c \in Present : c \notin W /\ code'[c] = code[c] /\ code[c].group # a
      /\ Present' = Present \cup W
  <2>1. /\ Present' = Present \cup (W \cap Codes)
        /\ \A c \in W \cap Codes : code'[c].group = a
        /\ \A c \in Codes \ W : code'[c] = code[c]
    BY RewrittenCodes
  <2>2. \A c \in Present : c \notin W /\ c \in Codes
    BY <1>1, <1>2 DEF Present
  <2>3. \A c \in Present : code[c].group # a
    BY <1>4 DEF RowInv
  <2> QED BY <1>1, <2>1, <2>2, <2>3
<1> HIDE DEF n, k, W
<1>8. Grouped'
  BY <1>4, <1>7 DEF OwnSheet, Grouped
<1>9. Filled'
  <2>1. ASSUME NEW b \in batch
        PROVE  Cardinality({c \in Present' : code'[c].group = b}) = shelf[b].amount
    <3>1. {c \in Present' : code'[c].group = b} = {c \in Present : code[c].group = b}
      BY <1>4, <1>7
    <3> QED BY <3>1 DEF OwnSheet, Filled, CodesInGroup
  <2>2. Cardinality({c \in Present' : code'[c].group = a}) = shelf[a].amount
    <3>1. {c \in Present' : code'[c].group = a} = W
      BY <1>7
    <3> QED BY <1>1, <1>4, <3>1
  <2> QED BY <1>3, <2>1, <2>2 DEF Filled, CodesInGroup
<1>10. ASSUME NEW b \in Activations PROVE OrderNumbered(b)'
  <2>1. CASE b = a
    BY <1>3, <2>1 DEF OrderNumbered, Closed
  <2>2. CASE b # a
    <3>1. at'[b] = at[b] /\ act'[b] = act[b]
      BY <1>3, <2>2 DEF Shifted
    <3>2. 0 .. k \subseteq 0 .. k + n
      BY <1>2
    <3>3. OrderNumbered(b)
      BY DEF OwnSheet
    <3> QED BY <1>1, <3>1, <3>2, <3>3 DEF OrderNumbered, k
  <2> QED BY <2>1, <2>2
<1> QED BY <1>6, <1>8, <1>9, <1>10 DEF OwnSheet

\* An activation on its way leaves the codes and the listings with rows alone.
LEMMA OwnQuiet ==
  ASSUME SheetShape, OwnSheet, UNCHANGED <<code, batch>>,
         \A b \in batch : shelf'[b] = shelf[b], NEW a \in Activations, Shifted(a),
         at'[a] \in {"list", "persist"} => OrderNumbered(a)'
  PROVE  OwnSheet'
<1>1. Present' = Present /\ Count' = Count
  BY DEF Present, Count
<1>2. Amounted(batch)' = Amounted(batch)
  <2>1. Tally([b \in batch |-> shelf'[b].amount]) = Tally([b \in batch |-> shelf[b].amount])
    BY AmountedSame
  <2> QED BY <2>1 DEF Amounted
<1>3. Numbered' /\ Grouped'
  BY <1>1, <1>2 DEF OwnSheet, Numbered, Grouped
<1>4. Filled'
  BY <1>1 DEF OwnSheet, Filled, CodesInGroup
<1>5. ASSUME NEW b \in Activations PROVE OrderNumbered(b)'
  <2>1. CASE b = a
    BY <2>1 DEF OrderNumbered
  <2>2. CASE b # a
    BY <1>1, <2>2 DEF OwnSheet, OrderNumbered, Shifted
  <2> QED BY <2>1, <2>2
<1> QED BY <1>3, <1>4, <1>5 DEF OwnSheet

\* Coupons are listed only while the wallet has them.
LEMMA ListedNumbers ==
  ASSUME SheetShape, SheetShape', ShelfInv, SupplyInv, OwnSheet, NEW a \in Activations,
         ListCoupon(a), at'[a] = "persist"
  PROVE  OrderNumbered(a)'
<1>1. /\ at[a] = "list" /\ act'[a] = act[a] /\ Shelved(a) /\ UNCHANGED sheet
  BY ListEffect DEF Closed
<1>2. act[a] \in Order
  BY <1>1 DEF SheetShape, Running
<1> DEFINE n == act[a].amount  k == Count
<1>3. PICK m \in 0 .. k : act[a].codes = m + 1 .. m + n
  BY <1>1 DEF OwnSheet, OrderNumbered
<1>4. n \in Nat /\ k \in Nat /\ Coupons \in Nat /\ nft >= n
  BY <1>1, <1>2, SomeCodes, RowsAreThere DEF Order, Shelved
<1>5. /\ Amounted(batch) \in Nat /\ Amounted(Stranded) \in Nat /\ nft \in Nat
      /\ nft + Amounted(batch) + Amounted(Stranded) = Coupons /\ k = Amounted(batch)
  BY StrandedSet DEF SupplyInv, OwnSheet, Numbered
<1>6. Count' = Count
  BY <1>1 DEF Count, Present, sheet
<1> HIDE DEF n, k
<1>7. m + n <= Coupons
  BY <1>3, <1>4, <1>5
<1> QED BY <1>1, <1>3, <1>6, <1>7 DEF OrderNumbered, n, k

\* Every step keeps the numbers without a gap.
LEMMA OwnStep ==
  ASSUME TypeOK, SheetShape, SheetShape', ShelfInv, RowInv, SupplyInv, OwnInv,
         [MarketNext]_allVars
  PROVE  OwnInv'
<1>0. ((own /\ ~gone => OwnSheet) => OwnInv)'
  BY OwnParts, PTL
<1> SUFFICES ASSUME own, ~gone' PROVE OwnSheet'
  BY <1>0, SheetSteps
<1>1. CASE gone
  <2>1. gone' = gone
    BY <1>1, SheetSteps, PersistEffect, ActivateEffect, FetchEffect, ListEffect
       DEF marketVars, sheet, DeletePriced, DeleteVoucher
  <2> QED BY <1>1, <2>1
<1> SUFFICES ASSUME ~gone PROVE OwnSheet'
  BY <1>1
<1>2. OwnSheet
  BY OwnParts
<1>3. CASE UNCHANGED marketVars
  BY <1>2, <1>3 DEF marketVars, sheet, activation, OwnSheet, Numbered, Grouped, Filled,
                    OrderNumbered, Present, Count, Amounted, CodesInGroup
<1>4. ASSUME NEW p \in Points, DeletePriced(p) PROVE OwnSheet'
  <2>1. /\ Present' = Present /\ \A c \in Present : code'[c].group = code[c].group
        /\ UNCHANGED <<batch, shelf, at, act>>
    BY <1>4, UnpricedCodes DEF DeletePriced, activation
  <2>2. Count' = Count /\ Amounted(batch)' = Amounted(batch)
    BY <2>1 DEF Count, Amounted
  <2>3. Numbered' /\ Grouped'
    BY <1>2, <2>1, <2>2 DEF OwnSheet, Numbered, Grouped
  <2>4. Filled'
    BY <1>2, <2>1, GroupsStay DEF OwnSheet, Filled, CodesInGroup
  <2>5. \A b \in Activations : OrderNumbered(b)'
    BY <1>2, <2>1, <2>2 DEF OwnSheet, OrderNumbered
  <2> QED BY <2>3, <2>4, <2>5 DEF OwnSheet
<1>5. ASSUME NEW a \in Activations, Activate(a) PROVE OwnSheet'
  <2>1. Shifted(a) /\ at'[a] = "fetch" /\ UNCHANGED <<code, batch, shelf>>
    BY <1>5, ActivateEffect DEF sheet
  <2> QED BY <1>2, <2>1, OwnQuiet
<1>6. ASSUME NEW a \in Activations, FetchCodes(a) PROVE OwnSheet'
  <2>1. Shifted(a) /\ at[a] = "fetch" /\ UNCHANGED <<code, batch, shelf>>
    BY <1>6, FetchEffect DEF sheet
  <2>2. at'[a] \in {"list", "persist"} => OrderNumbered(a)'
    <3> SUFFICES ASSUME at'[a] \in {"list", "persist"} PROVE OrderNumbered(a)'
      OBVIOUS
    <3>1. at'[a] = "list"
      BY <1>6, FetchEffect DEF Closed
    <3>2. act'[a] = [point |-> act[a].point, token |-> act[a].token, amount |-> act[a].amount,
                     seen |-> act[a].seen, codes |-> NewNumbers(a)]
      BY <1>6, <3>1, FetchEffect DEF Closed, FetchedCodes
    <3> DEFINE n == act[a].amount  S == NewNumbers(a)
    <3>3. act'[a].codes = S /\ act'[a].amount = n
      BY <3>2
    <3>4. S = Count + 1 .. Count + n
      BY DEF NewNumbers, Count
    <3>5. Count' = Count /\ Count \in 0 .. Count
      BY <2>1, SomeCodes DEF Count, Present
    <3> QED BY <3>1, <3>3, <3>4, <3>5 DEF OrderNumbered
  <2> QED BY <1>2, <2>1, <2>2, OwnQuiet
<1>7. ASSUME NEW a \in Activations, ListCoupon(a) PROVE OwnSheet'
  <2>1. Shifted(a) /\ at[a] = "list" /\ UNCHANGED <<code, batch>> /\ (Shelved(a) \/ shelf' = shelf)
    BY <1>7, ListEffect DEF sheet
  <2>2. a \notin batch /\ batch \subseteq Activations
    BY <2>1 DEF ShelfInv, SheetShape
  <2>3. \A b \in batch : shelf'[b] = shelf[b]
    BY <2>1, <2>2 DEF Shelved
  <2>4. at'[a] \in {"list", "persist"} => at'[a] = "persist"
    BY <1>7, ListEffect DEF Closed
  <2>5. at'[a] \in {"list", "persist"} => OrderNumbered(a)'
    BY <1>2, <1>7, <2>4, ListedNumbers
  <2> QED BY <1>2, <2>1, <2>3, <2>5, OwnQuiet
<1>8. ASSUME NEW a \in Activations, Persist(a) PROVE OwnSheet'
  <2>1. CASE Acceptable(a) /\ code' = Rewritten(a) /\ batch' = batch \cup {a}
    BY <1>2, <1>8, <2>1, OwnPersist
  <2>2. CASE UNCHANGED sheet
    <3>1. Shifted(a) /\ Closed(a) /\ shelf' = shelf
      BY <1>8, PersistEffect
    <3> QED BY <1>2, <2>2, <3>1, OwnQuiet DEF sheet, Closed
  <2> QED BY <1>8, <2>1, <2>2, PersistEffect
<1> QED BY <1>3, <1>4, <1>5, <1>6, <1>7, <1>8, SheetSteps DEF DeleteVoucher

(***************************************************************************)
(* Bought codes.                                                           *)
(***************************************************************************)
Plain == \A c \in Codes : code[c].point = None => code[c].group = None
Waiting == Cardinality(Unactivated) + Amounted(batch) = Coupons

OrderWaits(a) ==
  /\ at[a] = "fetch" => act[a].amount <= Cardinality(Unactivated)
  /\ at[a] \in {"list", "persist"} =>
       act[a].codes \subseteq Unactivated /\ Cardinality(act[a].codes) = act[a].amount

BoughtSheet ==
  Present = Codes /\ Plain /\ Waiting /\ Filled /\ \A a \in Activations : OrderWaits(a)

\* BoughtInv, as a formula of its own.
LEMMA BoughtParts == BoughtInv <=> (~own /\ ~gone /\ polite /\ ~deleted => BoughtSheet)
  BY DEF BoughtInv, BoughtSheet, Plain, Waiting, Filled, OrderWaits

\* An activation on its way leaves the codes and the listings with rows alone.
LEMMA BoughtQuiet ==
  ASSUME SheetShape, BoughtSheet, UNCHANGED <<code, batch>>,
         \A b \in batch : shelf'[b] = shelf[b], NEW a \in Activations, Shifted(a),
         OrderWaits(a)'
  PROVE  BoughtSheet'
<1>1. Present' = Present /\ Unactivated' = Unactivated
  BY DEF Present, Unactivated
<1>2. Amounted(batch)' = Amounted(batch)
  <2>1. Tally([b \in batch |-> shelf'[b].amount]) = Tally([b \in batch |-> shelf[b].amount])
    BY AmountedSame
  <2> QED BY <2>1 DEF Amounted
<1>3. Present' = Codes /\ Plain' /\ Waiting'
  BY <1>1, <1>2 DEF BoughtSheet, Plain, Waiting
<1>4. Filled'
  BY <1>1 DEF BoughtSheet, Filled, CodesInGroup
<1>5. ASSUME NEW b \in Activations PROVE OrderWaits(b)'
  <2>1. CASE b = a
    BY <2>1
  <2>2. CASE b # a
    BY <1>1, <2>2 DEF BoughtSheet, OrderWaits, Shifted
  <2> QED BY <2>1, <2>2
<1> QED BY <1>3, <1>4, <1>5 DEF BoughtSheet

\* The codes that were fetched are written, and no others were taken meanwhile.
LEMMA BoughtPersist ==
  ASSUME SheetShape, SheetShape', ShelfInv, RowInv, BoughtSheet, ~own, polite,
         NEW a \in Activations,
         Persist(a), Acceptable(a), code' = Rewritten(a), batch' = batch \cup {a}
  PROVE  BoughtSheet'
<1> DEFINE n == act[a].amount  W == Written(a)
<1>1. Shifted(a) /\ at[a] = "persist" /\ Closed(a) /\ shelf' = shelf /\ a \in Running
  BY PersistEffect DEF Running
<1>2. /\ W = act[a].codes /\ W \subseteq Unactivated /\ Cardinality(W) = n
      /\ Present = Codes
  <2>1. act[a].codes \subseteq Unactivated /\ Cardinality(act[a].codes) = n /\ Present = Codes
    BY <1>1 DEF BoughtSheet, OrderWaits
  <2>2. W = act[a].codes
    BY <2>1, SomeCodes DEF Written
  <2> QED BY <2>1, <2>2
<1>3. a \notin batch /\ shelf[a].amount = n /\ a # None
  BY <1>1, ListedOrder, Shelves
<1>4. /\ act[a] \in Order /\ act[a].point \in Points
      /\ Present' = Present \cup (W \cap Codes)
      /\ \A c \in W \cap Codes : code'[c].group = a /\ code'[c].point = act[a].point
      /\ \A c \in Codes \ W : code'[c] = code[c]
  BY RewrittenCodes
<1>5. act[a].point # None /\ n \in Nat
  BY <1>4, Distinct, RowsAreThere DEF Points, Order
<1>6. Amounted(batch)' = Amounted(batch) + n
  <2>1. ~ListCoupon(a) /\ batch' # batch
    BY <1>1, <1>3 DEF ListCoupon
  <2> QED BY <2>1, SumsStep
<1>7. /\ Unactivated \subseteq Codes /\ IsFiniteSet(Unactivated)
      /\ Cardinality(Unactivated) \in Nat /\ Amounted(batch) \in Nat /\ Coupons \in Nat
      /\ Cardinality(Unactivated) + Amounted(batch) = Coupons
  BY <1>2, SomeCodes, StrandedSet, RowsAreThere DEF BoughtSheet, Waiting
<1>8. \A c \in W : code[c].group = None /\ c \in Codes /\ code[c].point = None
  BY <1>2, <1>7 DEF BoughtSheet, Plain, Unactivated
<1>9. \A c \in Codes : code[c].group # a
  BY <1>2, <1>3 DEF RowInv
<1> HIDE DEF n, W
<1>10. Present' = Codes
  BY <1>2, <1>4
<1>11. Plain'
  BY <1>4, <1>5, <1>8 DEF BoughtSheet, Plain
<1>12. Unactivated' = Unactivated \ W
  BY <1>2, <1>4, <1>5, <1>8, <1>10 DEF Unactivated
<1>13. Waiting'
  <2>1. /\ Cardinality(Unactivated \ W) = Cardinality(Unactivated) - Cardinality(Unactivated \cap W)
        /\ Unactivated \cap W = W
    BY <1>2, <1>7, FS_Difference
  <2>2. Cardinality(Unactivated)' = Cardinality(Unactivated) - n
    BY <1>2, <1>12, <2>1
  <2>3. Cardinality(Unactivated)' + Amounted(batch)' = Coupons
    BY <1>5, <1>6, <1>7, <2>2
  <2> QED BY <2>3 DEF Waiting
<1>14. Filled'
  <2>1. ASSUME NEW b \in batch
        PROVE  Cardinality({c \in Present' : code'[c].group = b}) = shelf[b].amount
    <3>1. b # a /\ b # None
      BY <1>3, Shelves DEF SheetShape
    <3>2. {c \in Present' : code'[c].group = b} = {c \in Present : code[c].group = b}
      BY <1>2, <1>4, <1>8, <1>10, <3>1
    <3> QED BY <3>2 DEF BoughtSheet, Filled, CodesInGroup
  <2>2. Cardinality({c \in Present' : code'[c].group = a}) = shelf[a].amount
    <3>1. {c \in Present' : code'[c].group = a} = W
      BY <1>4, <1>8, <1>9, <1>10
    <3> QED BY <1>2, <1>3, <3>1
  <2> QED BY <1>1, <2>1, <2>2 DEF Filled, CodesInGroup
<1>15. ASSUME NEW b \in Activations PROVE OrderWaits(b)'
  <2>1. at'[b] \notin {"fetch", "list", "persist"}
    <3>1. CASE b = a
      BY <1>1, <3>1 DEF Closed
    <3>2. CASE b # a
      <4>1. b \notin Running
        BY <1>1, <3>2 DEF ShelfInv
      <4> QED BY <1>1, <3>2, <4>1 DEF Shifted, Running
    <3> QED BY <3>1, <3>2
  <2> QED BY <2>1 DEF OrderWaits
<1> QED BY <1>10, <1>11, <1>13, <1>14, <1>15 DEF BoughtSheet

\* Every step keeps bought codes and coupons together.
LEMMA BoughtStep ==
  ASSUME TypeOK, SheetShape, SheetShape', ShelfInv, RowInv, BoughtInv, [MarketNext]_allVars
  PROVE  BoughtInv'
<1>0. ((~own /\ ~gone /\ polite /\ ~deleted => BoughtSheet) => BoughtInv)'
  BY BoughtParts, PTL
<1> SUFFICES ASSUME ~own, ~gone', polite, ~deleted' PROVE BoughtSheet'
  BY <1>0, SheetSteps
<1>1. CASE gone \/ deleted
  <2>1. (gone' = gone \/ gone') /\ (deleted' = deleted \/ deleted')
    BY <1>1, SheetSteps, PersistEffect, ActivateEffect, FetchEffect, ListEffect
       DEF marketVars, sheet, DeletePriced, DeleteVoucher
  <2> QED BY <1>1, <2>1
<1> SUFFICES ASSUME ~gone, ~deleted PROVE BoughtSheet'
  BY <1>1
<1>2. BoughtSheet
  BY BoughtParts
<1>3. CASE UNCHANGED marketVars
  BY <1>2, <1>3 DEF marketVars, sheet, activation, BoughtSheet, Plain, Waiting, Filled,
                    OrderWaits, Present, Unactivated, Amounted, CodesInGroup
<1>4. ASSUME NEW a \in Activations, Activate(a) PROVE BoughtSheet'
  <2>1. Shifted(a) /\ at'[a] = "fetch" /\ UNCHANGED <<code, batch, shelf>>
    BY <1>4, ActivateEffect DEF sheet
  <2>2. PICK p \in Stored, n \in 1 .. MaxAmount :
          /\ n <= Cardinality(Unactivated)
          /\ act'[a] = [point |-> p, token |-> point[p].addr, amount |-> n,
                        seen |-> left, codes |-> {}]
    BY <1>4, ActivateEffect
  <2>3. act'[a].amount = n /\ Unactivated' = Unactivated
    BY <2>1, <2>2 DEF Unactivated, Present
  <2>4. OrderWaits(a)'
    BY <2>1, <2>2, <2>3 DEF OrderWaits
  <2> QED BY <1>2, <2>1, <2>4, BoughtQuiet
<1>5. ASSUME NEW a \in Activations, FetchCodes(a) PROVE BoughtSheet'
  <2>1. Shifted(a) /\ at[a] = "fetch" /\ UNCHANGED <<code, batch, shelf>>
    BY <1>5, FetchEffect DEF sheet
  <2>2. OrderWaits(a)'
    <3>1. CASE Closed(a)
      BY <3>1 DEF OrderWaits, Closed
    <3>2. CASE ~Closed(a)
      <4>1. PICK S : /\ FetchedCodes(a, S) /\ at'[a] = "list"
                     /\ act'[a] = [point |-> act[a].point, token |-> act[a].token,
                                   amount |-> act[a].amount, seen |-> act[a].seen, codes |-> S]
        BY <1>5, <3>2, FetchEffect
      <4> DEFINE n == act[a].amount
      <4>2. act'[a].codes = S /\ act'[a].amount = n
        BY <4>1
      <4>3. n \in Nat /\ n <= Cardinality(Unactivated) /\ Cardinality(Unactivated) \in Nat
        BY <1>2, <2>1, SomeCodes, RowsAreThere
           DEF BoughtSheet, OrderWaits, SheetShape, Running, Order
      <4>4. S \subseteq Unactivated /\ Cardinality(S) = n
        BY <4>1, <4>3 DEF FetchedCodes
      <4>5. Unactivated' = Unactivated
        BY <2>1 DEF Unactivated, Present
      <4> HIDE DEF n
      <4> QED BY <4>1, <4>2, <4>4, <4>5 DEF OrderWaits
    <3> QED BY <3>1, <3>2
  <2> QED BY <1>2, <2>1, <2>2, BoughtQuiet
<1>6. ASSUME NEW a \in Activations, ListCoupon(a) PROVE BoughtSheet'
  <2>1. Shifted(a) /\ at[a] = "list" /\ UNCHANGED <<code, batch>> /\ (Shelved(a) \/ shelf' = shelf)
    BY <1>6, ListEffect DEF sheet
  <2>2. a \notin batch /\ batch \subseteq Activations
    BY <2>1 DEF ShelfInv, SheetShape
  <2>3. \A b \in batch : shelf'[b] = shelf[b]
    BY <2>1, <2>2 DEF Shelved
  <2>4. Unactivated' = Unactivated
    BY <2>1 DEF Unactivated, Present
  <2>5. OrderWaits(a)'
    BY <1>2, <1>6, <2>1, <2>4, ListEffect DEF BoughtSheet, OrderWaits, Closed
  <2> QED BY <1>2, <2>1, <2>3, <2>5, BoughtQuiet
<1>7. ASSUME NEW a \in Activations, Persist(a) PROVE BoughtSheet'
  <2>1. CASE Acceptable(a) /\ code' = Rewritten(a) /\ batch' = batch \cup {a}
    BY <1>2, <1>7, <2>1, BoughtPersist
  <2>2. CASE UNCHANGED sheet
    <3>1. Shifted(a) /\ Closed(a) /\ shelf' = shelf
      BY <1>7, PersistEffect
    <3>2. OrderWaits(a)'
      BY <3>1 DEF OrderWaits, Closed
    <3> QED BY <1>2, <2>2, <3>1, <3>2, BoughtQuiet DEF sheet
  <2> QED BY <1>7, <2>1, <2>2, PersistEffect
<1> QED BY <1>3, <1>4, <1>5, <1>6, <1>7, SheetSteps DEF DeleteVoucher, DeletePriced

(***************************************************************************)
(* What a voucher of one's own has left.                                   *)
(***************************************************************************)
OrderLeft(a) ==
  /\ act[a].amount <= act[a].seen
  /\ ~gone => act[a].seen + Count >= Issued /\ (polite => act[a].seen = left)

Announced == ~gone => left + Count >= Issued /\ (polite => left + Count = Issued)

\* LeftInv: of the voucher, and of activations.
LEMMA LeftParts == LeftInv <=> (own => Announced /\ \A a \in Running : OrderLeft(a))
  BY DEF LeftInv, Announced, OrderLeft

\* What is left and what was activated stay what was announced.
LEMMA LeftStep ==
  ASSUME TypeOK, SheetShape, SheetShape', ShelfInv, OwnInv, LeftInv, [MarketNext]_allVars
  PROVE  LeftInv'
<1>0. ((own => Announced /\ \A a \in Running : OrderLeft(a)) => LeftInv)'
  BY LeftParts, PTL
<1> SUFFICES ASSUME own PROVE Announced' /\ \A a \in Running' : OrderLeft(a)'
  BY <1>0, SheetSteps
<1>1. Announced /\ \A a \in Running : OrderLeft(a)
  BY LeftParts
<1>2. Count \in Nat /\ left \in Nat /\ Issued \in Nat /\ polite' = polite
  <2>1. left \in Nat
    BY RowsAreThere DEF SheetShape
  <2> QED BY <2>1, SomeCodes, SheetSteps, RowsAreThere
<1>3. CASE UNCHANGED marketVars
  BY <1>1, <1>2, <1>3 DEF marketVars, sheet, activation, Announced, OrderLeft, Running, Count,
                          Present
<1>4. ASSUME NEW p \in Points, DeletePriced(p)
      PROVE  Announced' /\ \A a \in Running' : OrderLeft(a)'
  <2>1. Present' = Present /\ UNCHANGED <<left, gone, at, act>>
    BY <1>4, UnpricedCodes DEF DeletePriced, activation
  <2> QED BY <1>1, <1>2, <2>1 DEF Announced, OrderLeft, Running, Count
<1>5. CASE DeleteVoucher
  <2>1. gone' /\ UNCHANGED <<at, act>>
    BY <1>5 DEF DeleteVoucher, activation
  <2> QED BY <1>1, <2>1 DEF Announced, OrderLeft, Running
<1>6. ASSUME NEW a \in Activations, Shifted(a), UNCHANGED sheet,
             a \in Running' => OrderLeft(a)'
      PROVE  Announced' /\ \A b \in Running' : OrderLeft(b)'
  <2>1. Count' = Count
    BY <1>6 DEF Count, Present, sheet
  <2>2. Announced'
    BY <1>1, <1>2, <1>6, <2>1 DEF Announced, sheet
  <2>3. ASSUME NEW b \in Running', b # a PROVE OrderLeft(b)'
    <3>1. b \in Running /\ act'[b] = act[b]
      BY <1>6, <2>3 DEF Shifted, Running
    <3> QED BY <1>1, <1>2, <1>6, <2>1, <3>1 DEF OrderLeft, sheet
  <2> QED BY <1>6, <2>2, <2>3
<1>7. ASSUME NEW a \in Activations, Activate(a)
      PROVE  Announced' /\ \A b \in Running' : OrderLeft(b)'
  <2>1. Shifted(a) /\ UNCHANGED sheet
    BY <1>7, ActivateEffect
  <2>2. PICK p \in Stored, n \in 1 .. MaxAmount :
          /\ n <= left
          /\ act'[a] = [point |-> p, token |-> point[p].addr, amount |-> n,
                        seen |-> left, codes |-> {}]
    BY <1>7, ActivateEffect
  <2>3. act'[a].amount = n /\ act'[a].seen = left /\ Count' = Count
    BY <2>1, <2>2 DEF Count, Present, sheet
  <2>4. OrderLeft(a)'
    BY <1>1, <1>2, <2>1, <2>2, <2>3 DEF OrderLeft, Announced, sheet
  <2> QED BY <1>6, <2>1, <2>4
<1>8. ASSUME NEW a \in Activations, FetchCodes(a)
      PROVE  Announced' /\ \A b \in Running' : OrderLeft(b)'
  <2>1. Shifted(a) /\ UNCHANGED sheet /\ a \in Running
    BY <1>8, FetchEffect DEF Running
  <2>2. ASSUME a \in Running' PROVE OrderLeft(a)'
    <3>1. PICK S : act'[a] = [point |-> act[a].point, token |-> act[a].token,
                              amount |-> act[a].amount, seen |-> act[a].seen, codes |-> S]
      BY <1>8, <2>2, FetchEffect DEF Closed, Running
    <3>2. act'[a].amount = act[a].amount /\ act'[a].seen = act[a].seen /\ Count' = Count
      BY <2>1, <3>1 DEF Count, Present, sheet
    <3> QED BY <1>1, <1>2, <2>1, <3>2 DEF OrderLeft, sheet
  <2> QED BY <1>6, <2>1, <2>2
<1>9. ASSUME NEW a \in Activations, ListCoupon(a)
      PROVE  Announced' /\ \A b \in Running' : OrderLeft(b)'
  <2>1. Shifted(a) /\ UNCHANGED sheet /\ a \in Running
    BY <1>9, ListEffect DEF Running
  <2>2. ASSUME a \in Running' PROVE OrderLeft(a)'
    <3>1. act'[a] = act[a] /\ Count' = Count
      BY <1>9, <2>1, <2>2, ListEffect DEF Closed, Running, Count, Present, sheet
    <3> QED BY <1>1, <1>2, <2>1, <3>1 DEF OrderLeft, sheet
  <2> QED BY <1>6, <2>1, <2>2
<1>10. ASSUME NEW a \in Activations, Persist(a)
       PROVE  Announced' /\ \A b \in Running' : OrderLeft(b)'
  <2>1. /\ Shifted(a) /\ a \in Running /\ a \notin Running' /\ gone' = gone
    BY <1>10, PersistEffect DEF Running, Closed
  <2>2. CASE UNCHANGED sheet
    BY <1>6, <2>1, <2>2
  <2>3. CASE Acceptable(a) /\ code' = Rewritten(a) /\ left' = act[a].seen - act[a].amount
    <3>1. ~gone
      BY <2>3 DEF Acceptable
    <3>2. OwnSheet
      BY <3>1, OwnParts
    <3> DEFINE n == act[a].amount  s == act[a].seen
    <3>3. Count' = Count + n /\ n \in Nat /\ s \in Nat
      <4>1. act[a] \in Order
        BY <2>1 DEF SheetShape
      <4> QED BY <1>10, <2>3, <3>2, <4>1, NextNumbers, RowsAreThere DEF Order
    <3>4. left' = s - n /\ s + Count >= Issued /\ (polite => s = left)
      BY <1>1, <2>1, <2>3, <3>1 DEF OrderLeft
    <3>5. Announced => left + Count >= Issued /\ (polite => left + Count = Issued)
      BY <3>1 DEF Announced
    <3> HIDE DEF n, s
    <3>6. left' + Count' = s + Count
      BY <1>2, <3>3, <3>4
    <3>7. Announced'
      BY <1>1, <1>2, <3>4, <3>5, <3>6 DEF Announced
    <3>8. ASSUME NEW b \in Running' PROVE OrderLeft(b)'
      <4>1. b # a /\ b \in Running /\ act'[b] = act[b]
        BY <2>1, <3>8 DEF Shifted, Running
      <4>2. ~polite
        BY <2>1, <4>1 DEF ShelfInv
      <4>3. act[b].seen \in Nat /\ OrderLeft(b)
        BY <1>1, <4>1, RowsAreThere DEF SheetShape, Order
      <4> QED BY <1>2, <2>1, <3>1, <3>3, <4>1, <4>2, <4>3 DEF OrderLeft
    <3> QED BY <3>7, <3>8
  <2> QED BY <1>10, <2>2, <2>3, PersistEffect
<1> QED BY <1>3, <1>4, <1>5, <1>7, <1>8, <1>9, <1>10, SheetSteps

(***************************************************************************)
(* The invariant of the activations.                                       *)
(***************************************************************************)
\* Nothing has been listed yet.
LEMMA SheetInit == MarketInit => SheetInv
<1> SUFFICES ASSUME MarketInit PROVE SheetInv
  OBVIOUS
<1>1. /\ at = [a \in Activations |-> "idle"] /\ act = [a \in Activations |-> None]
      /\ shelf = [a \in Activations |-> None] /\ batch = {} /\ nft = Coupons /\ left = Issued
      /\ work \in {"points", "vouchers"} /\ own \in BOOLEAN
      /\ gone = FALSE /\ deleted = FALSE
      /\ code = [c \in Codes |-> IF own THEN NoCode ELSE [group |-> None, point |-> None]]
  BY DEF MarketInit
<1>2. \A a \in Activations : at[a] = "idle" /\ act[a] = None /\ shelf[a] = None
  BY <1>1
<1>3. Running = {}
  BY <1>2 DEF Running
<1> DEFINE new == [group |-> None, point |-> None]
<1>4. new \in Row /\ new.group = None /\ new.point = None
  BY DEF Row
<1>5. /\ own => \A c \in Codes : code[c] = NoCode
      /\ ~own => \A c \in Codes : code[c] = new
      /\ code \in [Codes -> Row \cup {NoCode}]
  BY <1>1, <1>4
<1>6. new # NoCode
  BY <1>4, RowsAreThere
<1> HIDE DEF new
<1>7. own => Present = {} /\ Count = 0
  BY <1>5, FS_EmptySet DEF Present, Count
<1>8. ~own => Present = Codes /\ Unactivated = Codes
  BY <1>4, <1>5, <1>6 DEF Present, Unactivated
<1>9. SheetShape
  <2>1. ShapeOfSheet
    <3>1. left \in 0 .. Issued /\ nft \in 0 .. Coupons
      BY <1>1, RowsAreThere
    <3>2. shelf \in [Activations -> Listing \cup {None}]
      BY <1>1
    <3> QED BY <1>1, <1>5, <3>1, <3>2 DEF ShapeOfSheet
  <2>2. ShapeOfOrders
    BY <1>1, <1>3 DEF ShapeOfOrders
  <2> QED BY <2>1, <2>2, SheetParts
<1>10. ShelfInv
  BY <1>2, <1>3 DEF ShelfInv
<1>11. \A c \in Present : code[c].group = None /\ code[c].point = None
  BY <1>4, <1>5, <1>7, <1>8
<1>12. RowInv /\ PriceInv
  BY <1>1, <1>3, <1>11 DEF RowInv, PriceInv
<1>13. Amounted(batch) = 0 /\ Amounted(Stranded) = 0
  <2>1. Stranded = {}
    BY <1>2 DEF Stranded
  <2>2. Tallied([a \in {} |-> shelf[a].amount])
    BY FS_EmptySet DEF Tallied
  <2>3. Amounted({}) = 0
    BY <2>2, TallyZero DEF Amounted
  <2> QED BY <1>1, <2>1, <2>3
<1>14. SupplyInv
  BY <1>1, <1>13, RowsAreThere DEF SupplyInv
<1>15. OwnInv
  BY <1>1, <1>2, <1>7, <1>13 DEF OwnInv
<1>16. BoughtInv
  <2> SUFFICES ASSUME ~own PROVE BoughtSheet
    BY BoughtParts
  <2>1. Cardinality(Unactivated) = Coupons /\ Coupons \in Nat
    BY <1>8, <1>9, SomeCodes, RowsAreThere
  <2>2. Plain /\ Waiting
    BY <1>8, <1>11, <1>13, <2>1 DEF Plain, Waiting
  <2>3. Filled /\ \A a \in Activations : OrderWaits(a)
    BY <1>1, <1>2 DEF Filled, OrderWaits
  <2> QED BY <1>8, <2>2, <2>3 DEF BoughtSheet
<1>17. LeftInv
  BY <1>1, <1>3, <1>7, RowsAreThere DEF LeftInv
<1> QED BY <1>9, <1>10, <1>12, <1>14, <1>15, <1>16, <1>17 DEF SheetInv

\* Every step keeps the invariant of the activations.
LEMMA SheetStepInv ==
  ASSUME PointInv, SheetInv, [MarketNext]_allVars
  PROVE  SheetInv'
<1>1. TypeOK /\ KnownInv
  BY DEF PointInv, PointShape
<1>2. /\ SheetShape /\ ShelfInv /\ RowInv /\ PriceInv /\ SupplyInv /\ OwnInv /\ BoughtInv
      /\ LeftInv
  BY DEF SheetInv
<1>3. SheetShape'
  BY <1>1, <1>2, SheetShapeStep
<1>4. ShelfInv' /\ RowInv' /\ PriceInv' /\ SupplyInv'
  BY <1>1, <1>2, <1>3, ShelfStep, RowStep, PriceStep, SupplyStep
<1>5. OwnInv' /\ BoughtInv' /\ LeftInv'
  BY <1>1, <1>2, <1>3, OwnStep, BoughtStep, LeftStep
<1> QED BY <1>3, <1>4, <1>5 DEF SheetInv

\* The inductive invariant of codes and coupons: new numbers are reserved by
\* nobody, yet no two activations ever write the same ones.
THEOREM SheetInvariant == MarketSpec => []SheetInv
<1>1. PointInv /\ SheetInv /\ [MarketNext]_allVars => SheetInv'
  BY SheetStepInv
<1> QED BY <1>1, SheetInit, PointsInvariant, PTL DEF MarketSpec

\* RecordsFollowTransfers: nothing is recorded that was not transferred, and
\* what was transferred is recorded, but for the transfer a request is about to
\* record and points of which a call raised half way.
THEOREM Records == MarketSpec => []RecordsFollowTransfers
<1>1. ASSUME PointInv, SheetInv PROVE MarketTypeOK
  <2>1. SheetShape /\ RowInv /\ TypeOK
    BY <1>1 DEF PointInv, PointShape, SheetInv
  <2>2. ASSUME NEW c \in Present
        PROVE  code[c].group \in Activations \cup {None} /\ code[c].point \in Points \cup {None}
    <3>1. code[c] \in Row
      BY <2>1 DEF Present, SheetShape
    <3> QED BY <3>1 DEF Row
  <2>3. ASSUME NEW a \in Activations, shelf[a] # None PROVE shelf[a].token \in Addresses
    <3>1. shelf[a] \in Listing
      BY <2>1, <2>3 DEF SheetShape
    <3> QED BY <3>1 DEF Listing
  <2> QED BY <2>1, <2>2, <2>3 DEF SheetShape, MarketTypeOK
<1>2. PointInv /\ SheetInv => RecordsFollowTransfers
  BY <1>1, RecordsFollow DEF RecordsFollowTransfers
<1> QED BY <1>2, PointsInvariant, SheetInvariant, PTL

\* ContractsFit: a kind of points has a contract of its own whose windows reach
\* its end date, and a code is sold for the points it is priced in.
THEOREM Contracting == MarketSpec => []ContractsFit
<1>1. ASSUME PointInv, SheetInv PROVE PricedInItsPoint
  BY <1>1 DEF SheetInv, PriceInv, PricedInItsPoint
<1>2. PointInv /\ SheetInv => ContractsFit
  BY <1>1, ContractsOwn DEF ContractsFit
<1> QED BY <1>2, PointsInvariant, SheetInvariant, PTL

\* ActiveIsInEscrow, the part of ShelfIsOnChain about groups.
LEMMA ActiveCodes == SheetInv => ActiveIsInEscrow
  BY DEF SheetInv, OwnInv, BoughtInv, ActiveIsInEscrow

\* UpcomingIsInWallet, the part about the wallet.
LEMMA UpcomingCodes == SheetInv => UpcomingIsInWallet
<1> SUFFICES ASSUME SheetInv, ~gone PROVE UpcomingIsInWallet
  BY DEF UpcomingIsInWallet
<1>1. SheetShape /\ SupplyInv /\ OwnInv /\ BoughtInv
  BY DEF SheetInv
<1>2. /\ nft \in Nat /\ Amounted(batch) \in Nat /\ Amounted(Stranded) \in Nat
      /\ nft + Amounted(batch) + Amounted(Stranded) = Coupons
  BY <1>1, StrandedSet DEF SupplyInv
<1>3. ASSUME own PROVE UpcomingCount + Tally([a \in batch |-> CodesInGroup(a)]) + Amounted(Stranded) = Coupons
  <2>1. [a \in batch |-> CodesInGroup(a)] = [a \in batch |-> shelf[a].amount]
    BY <1>1, <1>3 DEF OwnInv
  <2>2. Tally([a \in batch |-> CodesInGroup(a)]) = Amounted(batch)
    BY <2>1 DEF Amounted
  <2> QED BY <1>2, <1>3, <2>2 DEF UpcomingCount
<1>4. ASSUME ~own, polite, ~deleted PROVE UpcomingCount = nft + Amounted(Stranded)
  <2>1. BoughtSheet
    BY <1>1, <1>4, BoughtParts
  <2>2. {c \in Unactivated : code[c].group = None} = Unactivated
    BY <2>1 DEF BoughtSheet, Plain, Unactivated
  <2>3. UpcomingCount = Cardinality(Unactivated) /\ Cardinality(Unactivated) \in Nat
    BY <1>1, <1>4, <2>2, SomeCodes DEF UpcomingCount
  <2>4. Cardinality(Unactivated) + Amounted(batch) = Coupons
    BY <2>1 DEF BoughtSheet, Waiting
  <2> QED BY <1>2, <2>3, <2>4
<1> QED BY <1>3, <1>4 DEF UpcomingIsInWallet, Stranded, Amounted

\* IssuedIsKept, the part about the total.
LEMMA IssuedCodes == SheetInv => IssuedIsKept
<1> SUFFICES ASSUME SheetInv, own, ~gone PROVE IssuedIsKept
  BY DEF IssuedIsKept
<1>1. OwnInv /\ LeftInv
  BY DEF SheetInv
<1>2. {c \in Present : code[c].group # None} = Present
  BY <1>1 DEF OwnInv
<1> DEFINE total == Count + left
<1>3. GetActiveVouchers = [active |-> Count, upcoming |-> left, totalCodes |-> total]
  BY <1>2, Zenon DEF GetActiveVouchers, Count
<1>4. GetActiveVouchers.totalCodes = total
  <2> HIDE DEF total
  <2> QED BY <1>3
<1>5. Count \in Nat /\ left \in Nat
  <2>1. SheetShape
    BY DEF SheetInv
  <2>2. left \in Nat
    BY <2>1, RowsAreThere DEF SheetShape
  <2> QED BY <2>1, <2>2, SomeCodes
<1>6. total >= Issued /\ (polite => total = Issued)
  BY <1>1, <1>5 DEF LeftInv
<1> HIDE DEF total
<1> QED BY <1>1, <1>4, <1>6 DEF OwnInv, Count, IssuedIsKept

\* ShelfIsOnChain: what a merchant is shown of a voucher is in the wallet and
\* in escrow, and as much is announced as was.
THEOREM Shelving == MarketSpec => []ShelfIsOnChain
<1>1. SheetInv => NoCodesOfDeleted
  BY DEF SheetInv, RowInv, NoCodesOfDeleted
<1>2. SheetInv => ShelfIsOnChain
  BY <1>1, ActiveCodes, UpcomingCodes, IssuedCodes DEF ShelfIsOnChain
<1> QED BY <1>2, SheetInvariant, PTL
=============================================================================
