----------------------- MODULE CustomerOnboardingProofs -----------------------
(***************************************************************************)
(* Proofs about MerchantAccounts and CustomerOnboarding, for every set of  *)
(* users, phones and requests and every bound: addresses are never given   *)
(* twice, merchants come and go whole and find their own wallets, a link   *)
(* is verified once, codes reach the phone they verify, and customers are  *)
(* registered once.                                                        *)
(***************************************************************************)
EXTENDS CustomerOnboarding, FiniteSetTheorems, WellFoundedInduction, TLAPS

\* Two indices are taken at a time.
LEMMA Parity ==
  ASSUME NEW i \in Nat
  PROVE  /\ Odd(i) => ~Odd(i + 1) /\ Odd(i + 2)
         /\ Odd(1) /\ Odd(3)
BY DEF Odd

\* No row is a wallet.
LEMMA NoRowIsNoWallet == NoRow \notin Wallet /\ NoMerchant \notin Merchant
BY Distinct DEF NoRow, Wallet, NoMerchant, Merchant

\* There is one merchant in the beginning, with both wallets.
LEMMA InitAccounts == Init => AccountInv
<1> SUFFICES ASSUME Init PROVE AccountInv
  OBVIOUS
<1> USE DEF Init, Merchants, Addresses, Indices
<1>1. PICK u \in Users, p \in Phones :
        /\ next = [v \in Users |-> IF v = u THEN 3 ELSE 0]
        /\ wallet = [a \in Addresses |->
                       CASE a = <<u, 1>> -> [type |-> "merchant", phone |-> p]
                         [] a = <<u, 2>> -> [type |-> "seller", phone |-> p]
                         [] OTHER        -> NoRow]
        /\ merchant = [m \in Merchants |->
                         IF m = Old THEN [user |-> u, index |-> 1] ELSE NoMerchant]
        /\ key = {Old}
        /\ given = [a \in Addresses |-> IF a \in {u} \X {1, 2} THEN {Old} ELSE {}]
        /\ shared = {}
        /\ whitelist = {u} \X {1, 2}
        /\ polite \in BOOLEAN
        /\ faults = 0
  BY DEF MerchantInit
<1>2. 1 \in Indices /\ 2 \in Indices /\ <<u, 1>> \in Addresses /\ <<u, 2>> \in Addresses
  BY Limits
<1>3. \A a \in Addresses : wallet[a] =
        IF a = <<u, 1>> THEN [type |-> "merchant", phone |-> p]
        ELSE IF a = <<u, 2>> THEN [type |-> "seller", phone |-> p] ELSE NoRow
  BY <1>1
<1>10. /\ wallet[<<u, 1>>] = [type |-> "merchant", phone |-> p]
       /\ wallet[<<u, 2>>] = [type |-> "seller", phone |-> p]
  BY <1>2, <1>3
<1>4. MerchantTypeOK
  <2>1. wallet \in [Addresses -> Wallet \cup {NoRow}]
    BY <1>1, <1>3 DEF Wallet
  <2>2. merchant \in [Merchants -> Merchant \cup {NoMerchant}]
    BY <1>1, <1>2 DEF Merchant
  <2> QED BY <1>1, <1>2, <2>1, <2>2 DEF MerchantTypeOK
<1>5. RequestInv
  BY <1>1, Distinct, NoRowIsNoWallet DEF RequestInv, Exists
<1>6. IndexInv
  <2>1. \A v \in Users : next[v] = (IF v = u THEN 3 ELSE 0)
    BY <1>1
  <2>2. \A v \in Users, i \in Indices : i < next[v] /\ ~Odd(i) => v = u /\ i = 2
    BY <2>1, Limits DEF Odd
  <2> QED BY <2>1, <2>2, <1>10, Parity DEF IndexInv
<1>7. AddressInv
  <2> SUFFICES ASSUME NEW a \in Addresses
               PROVE  /\ given[a] # {} => a[2] < next[a[1]]
                      /\ wallet[a] # NoRow => given[a] # {}
                      /\ given[a] \subseteq {Old}
    BY DEF AddressInv
  <2> QED BY <1>1, <1>3
<1>8. HomeInv /\ WholeMerchants
  <2>1. \A m \in Merchants : Exists(m) => m = Old
    BY <1>1 DEF Exists
  <2>2. merchant[Old] = [user |-> u, index |-> 1]
    BY <1>1
  <2>3. HomeInv
    BY <1>1, <1>2, <2>1, <2>2, Parity DEF HomeInv, Odd
  <2>4. \A a \in Addresses : wallet[a].type = "merchant" => a = <<u, 1>>
    BY <1>3 DEF NoRow
  <2>5. WholeMerchants
    <3>1. Old \in Merchants /\ Old \in key
      BY <1>1
    <3> QED BY <1>2, <1>10, <2>1, <2>2, <2>4, <3>1 DEF WholeMerchants
  <2> QED BY <2>3, <2>5
<1>9. WhitelistedWereGiven
  BY <1>1, <1>2 DEF WhitelistedWereGiven
<1> QED BY <1>4, <1>5, <1>6, <1>7, <1>8, <1>9 DEF AccountInv

-----------------------------------------------------------------------------
\* A request that finds both addresses free has read the index of now: else
\* the second wallet of whoever used the index would be in its way.
LEMMA IndexIsCurrent ==
  ASSUME AccountInv, NEW r \in Requests, pc[r] = "createMerchant", AddressesFree(r)
  PROVE  /\ MayInsert(r) /\ ~Exists(r)
         /\ First(r) \in Addresses /\ Second(r) \in Addresses
         /\ req[r].index = next[req[r].user]
         /\ given[First(r)] = {} /\ given[Second(r)] = {}
<1> DEFINE u == req[r].user  i == req[r].index
<1>1. MayInsert(r) /\ ~Exists(r)
  BY DEF AccountInv, RequestInv
<1>2. /\ u \in Users /\ i \in Indices /\ i + 1 \in Indices
      /\ Odd(i) /\ i <= next[u] /\ next[u] \in Nat /\ i \in Nat /\ i >= 1
  BY <1>1, Limits DEF MayInsert, AccountInv, MerchantTypeOK, Indices
<1>3. First(r) = <<u, i>> /\ Second(r) = <<u, i + 1>>
  BY DEF First, Second
<1>4. First(r) \in Addresses /\ Second(r) \in Addresses
  BY <1>2, <1>3 DEF Addresses
<1>5. i = next[u]
  <2> SUFFICES ASSUME i < next[u] PROVE FALSE
    BY <1>2
  <2>1. Odd(next[u])
    BY <1>2 DEF AccountInv, IndexInv
  <2>2. ~Odd(i + 1)
    BY <1>2, Parity
  <2>3. i + 1 < next[u]
    BY <1>2, <2>1, <2>2
  <2>4. wallet[<<u, i + 1>>].type = "seller"
    BY <1>2, <2>2, <2>3 DEF AccountInv, IndexInv
  <2> QED BY <1>3, <2>4 DEF AddressesFree, NoRow
<1>6. \A a \in Addresses : given[a] # {} => a[2] < next[a[1]]
  BY DEF AccountInv, AddressInv
<1>7. given[First(r)] = {} /\ given[Second(r)] = {}
  BY <1>2, <1>3, <1>4, <1>5, <1>6
<1> QED BY <1>1, <1>4, <1>5, <1>7

\* A merchant that is created takes two addresses nobody ever had.
LEMMA InsertStep ==
  ASSUME AccountInv, NEW r \in Requests, pc[r] = "createMerchant", AddressesFree(r),
         InsertAll(r), Goto(r, "whitelist"),
         UNCHANGED <<req, faults, whitelist, polite>>
  PROVE  AccountInv'
<1> DEFINE u == req[r].user  i == req[r].index
<1>1. /\ u \in Users /\ i \in Indices /\ i + 1 \in Indices
      /\ req[r].phone \in Phones \cup {None}
      /\ Odd(i) /\ i = next[u] /\ i \in Nat /\ i >= 1
  BY IndexIsCurrent, Limits DEF MayInsert, Indices
<1>2. /\ First(r) = <<u, i>> /\ Second(r) = <<u, i + 1>>
      /\ First(r) \in Addresses /\ Second(r) \in Addresses
      /\ given[First(r)] = {} /\ given[Second(r)] = {} /\ ~Exists(r)
  BY IndexIsCurrent DEF First, Second
<1>3. r \in Merchants
  BY DEF Merchants
<1>4. /\ \A a \in Addresses : wallet'[a] =
           IF a = First(r) THEN [type |-> "merchant", phone |-> req[r].phone]
           ELSE IF a = Second(r) THEN [type |-> "seller", phone |-> req[r].phone]
           ELSE wallet[a]
      /\ \A a \in Addresses : given'[a] =
           IF a \in {First(r), Second(r)} THEN {r} ELSE given[a]
      /\ \A v \in Users : next'[v] = IF v = u THEN i + 2 ELSE next[v]
      /\ \A m \in Merchants : merchant'[m] =
           IF m = r THEN [user |-> u, index |-> i] ELSE merchant[m]
      /\ key' = key \cup {r}
  <2> USE DEF AccountInv, MerchantTypeOK, InsertAll
  <2>1. First(r) # Second(r)
    BY <1>1, <1>2
  <2>2. \A a \in Addresses : wallet'[a] =
           IF a = First(r) THEN [type |-> "merchant", phone |-> req[r].phone]
           ELSE IF a = Second(r) THEN [type |-> "seller", phone |-> req[r].phone]
           ELSE wallet[a]
    BY <2>1 DEF InsertWallets
  <2>3. \A a \in Addresses : given'[a] =
           IF a \in {First(r), Second(r)} THEN {r} ELSE given[a]
    BY <1>2, <2>1
  <2>4. \A v \in Users : next'[v] = IF v = u THEN i + 2 ELSE next[v]
    BY DEF NextIndex
  <2>5. \A m \in Merchants : merchant'[m] =
           IF m = r THEN [user |-> u, index |-> i] ELSE merchant[m]
    BY DEF InsertMerchant
  <2> QED BY <2>2, <2>3, <2>4, <2>5
<1>5. MerchantTypeOK'
  <2> USE DEF AccountInv, MerchantTypeOK, InsertAll
  <2>1. wallet' \in [Addresses -> Wallet \cup {NoRow}]
    BY <1>1 DEF InsertWallets, Wallet
  <2>4. req[r].index + 2 \in Nat
    BY <1>1
  <2>2. next' \in [Users -> Nat] /\ merchant' \in [Merchants -> Merchant \cup {NoMerchant}]
    BY <1>1, <2>4 DEF NextIndex, InsertMerchant, Merchant
  <2>3. given' \in [Addresses -> SUBSET Merchants] /\ key' \subseteq Merchants
    BY <1>3
  <2>5. shared' \subseteq Addresses
    BY <1>2
  <2> QED BY <2>1, <2>2, <2>3, <2>5
<1>6. \A q \in Requests : pc'[q] = IF q = r THEN "whitelist" ELSE pc[q]
  BY DEF Goto, AccountInv
<1>7. DOMAIN req' = Requests /\ DOMAIN pc' = Requests
  BY DEF Goto, AccountInv
<1>8. \A v \in Users : next[v] \in Nat /\ next'[v] \in Nat /\ next[v] <= next'[v]
  BY <1>1, <1>4 DEF AccountInv, MerchantTypeOK
<1>9. RequestInv'
  <2> SUFFICES ASSUME NEW q \in Requests
               PROVE  /\ pc'[q] \in {"idle", "createMerchant"} => ~Exists(q)'
                      /\ pc'[q] = "createMerchant" => MayInsert(q)'
                      /\ pc'[q] \in {"whitelist", "whitelistSeller"} => WasGiven(q)'
                      /\ pc'[q] = "deleteMerchant" => req'[q].merchant \in Merchants
    BY DEF RequestInv
  <2>1. CASE q = r
    <3>1. WasGiven(r)'
      BY <1>2, <1>4 DEF WasGiven, First, Second
    <3> QED BY <2>1, <3>1, <1>6
  <2>2. CASE q # r
    <3>1. q \in Merchants
      BY DEF Merchants
    <3>2. ~Exists(q) => ~Exists(q)'
      BY <1>4, <2>2, <3>1 DEF Exists
    <3>3. MayInsert(q) => MayInsert(q)'
      BY <1>8, Limits DEF MayInsert, Indices
    <3>4. WasGiven(q) => WasGiven(q)'
      BY <1>4 DEF WasGiven, First, Second
    <3> QED BY <1>6, <2>2, <3>2, <3>3, <3>4 DEF AccountInv, RequestInv
  <2> QED BY <2>1, <2>2
<1>10. IndexInv'
  <2> SUFFICES ASSUME NEW v \in Users
               PROVE  /\ next'[v] = 0 \/ Odd(next'[v])
                      /\ \A j \in Indices : j < next'[v] /\ ~Odd(j) =>
                            wallet'[<<v, j>>].type = "seller"
    BY DEF IndexInv
  <2>1. next'[v] = 0 \/ Odd(next'[v])
    BY <1>1, <1>4, Parity DEF AccountInv, IndexInv
  <2>2. ASSUME NEW j \in Indices, j < next'[v], ~Odd(j)
        PROVE  wallet'[<<v, j>>].type = "seller"
    <3>1. <<v, j>> \in Addresses /\ j \in Nat
      BY Limits DEF Addresses, Indices
    <3>2. j < next[v] \/ <<v, j>> = Second(r)
      BY <1>1, <1>2, <1>4, <2>2, <3>1
    <3>3. CASE <<v, j>> = Second(r)
      BY <1>1, <1>2, <1>4, <3>1, <3>3
    <3>4. CASE j < next[v] /\ <<v, j>> # Second(r)
      <4>1. <<v, j>> # First(r)
        BY <1>1, <1>2, <2>2
      <4>2. wallet[<<v, j>>].type = "seller"
        BY <2>2, <3>4 DEF AccountInv, IndexInv
      <4> QED BY <1>4, <3>1, <3>4, <4>1, <4>2
    <3> QED BY <3>2, <3>3, <3>4
  <2> QED BY <2>1, <2>2
<1>11. AddressInv'
  <2> SUFFICES ASSUME NEW a \in Addresses
               PROVE  /\ given'[a] # {} => a[2] < next'[a[1]]
                      /\ wallet'[a] # NoRow => given'[a] # {}
                      /\ \E m \in Merchants : given'[a] \subseteq {m}
    BY DEF AddressInv
  <2>1. CASE a \in {First(r), Second(r)}
    BY <1>1, <1>2, <1>3, <1>4, <2>1
  <2>2. CASE a \notin {First(r), Second(r)}
    <3>1. a[1] \in Users /\ a[2] \in Nat
      BY Limits DEF Addresses, Indices
    <3>2. wallet'[a] = wallet[a] /\ given'[a] = given[a]
      BY <1>4, <2>2
    <3> QED BY <1>8, <3>1, <3>2 DEF AccountInv, AddressInv
  <2> QED BY <2>1, <2>2
<1>12. \A m \in Merchants : Exists(m) /\ m # r =>
         LET v == merchant[m].user  j == merchant[m].index IN
         /\ v \in Users /\ j \in Indices /\ j + 1 \in Indices
         /\ <<v, j>> \notin {First(r), Second(r)} /\ <<v, j + 1>> \notin {First(r), Second(r)}
  <2> SUFFICES ASSUME NEW m \in Merchants, Exists(m), m # r
               PROVE  LET v == merchant[m].user  j == merchant[m].index IN
                      /\ v \in Users /\ j \in Indices /\ j + 1 \in Indices
                      /\ <<v, j>> \notin {First(r), Second(r)}
                      /\ <<v, j + 1>> \notin {First(r), Second(r)}
    OBVIOUS
  <2>1. merchant[m] \in Merchant
    BY DEF AccountInv, MerchantTypeOK, Exists
  <2>2. /\ merchant[m].user \in Users /\ merchant[m].index \in Indices
        /\ merchant[m].index + 1 \in Indices /\ merchant[m].index + 1 < next[merchant[m].user]
    BY <2>1 DEF Merchant, AccountInv, HomeInv
  <2> QED BY <1>1, <1>2, <2>2, Limits DEF Indices
<1>13. Exists(r)' /\ merchant'[r].user = u /\ merchant'[r].index = i
  <2>1. merchant'[r] = [user |-> u, index |-> i]
    BY <1>3, <1>4
  <2>2. None \notin Users
    BY Distinct
  <2> QED BY <1>1, <2>1, <2>2 DEF Exists, NoMerchant
<1>14. HomeInv'
  <2> SUFFICES ASSUME NEW m \in Merchants, Exists(m)'
               PROVE  LET v == merchant'[m].user  j == merchant'[m].index IN
                      /\ Odd(j) /\ j + 1 \in Indices /\ j + 1 < next'[v]
                      /\ given'[<<v, j>>] = {m}
    BY DEF HomeInv
  <2>1. CASE m = r
    BY <1>1, <1>2, <1>4, <1>13, <2>1
  <2>2. CASE m # r
    <3>1. merchant'[m] = merchant[m] /\ Exists(m)
      BY <1>4, <2>2 DEF Exists
    <3> DEFINE v == merchant[m].user  j == merchant[m].index
    <3>2. Odd(j) /\ j + 1 \in Indices /\ j + 1 < next[v] /\ given[<<v, j>>] = {m}
      BY <3>1 DEF AccountInv, HomeInv
    <3>3. v \in Users /\ <<v, j>> \in Addresses /\ <<v, j>> \notin {First(r), Second(r)}
      BY <1>12, <2>2, <3>1 DEF Addresses
    <3>4. j + 1 < next'[v]
      BY <1>8, <3>2, <3>3, Limits DEF Indices
    <3> QED BY <1>4, <3>1, <3>2, <3>3, <3>4
  <2> QED BY <2>1, <2>2
<1>15. WholeMerchants'
  <2>1. ASSUME NEW m \in Merchants, Exists(m)'
        PROVE  /\ m \in key'
               /\ wallet'[<<merchant'[m].user, merchant'[m].index>>].type = "merchant"
               /\ wallet'[<<merchant'[m].user, merchant'[m].index + 1>>].type = "seller"
    <3>1. CASE m = r
      BY <1>1, <1>2, <1>4, <1>13, <3>1
    <3>2. CASE m # r
      <4>1. merchant'[m] = merchant[m] /\ Exists(m)
        BY <1>4, <2>1, <3>2 DEF Exists
      <4> DEFINE v == merchant[m].user  j == merchant[m].index
      <4>2. m \in key /\ wallet[<<v, j>>].type = "merchant" /\ wallet[<<v, j + 1>>].type = "seller"
        BY <4>1 DEF AccountInv, WholeMerchants
      <4>3. /\ <<v, j>> \in Addresses /\ <<v, j>> \notin {First(r), Second(r)}
            /\ <<v, j + 1>> \in Addresses /\ <<v, j + 1>> \notin {First(r), Second(r)}
        BY <1>12, <3>2, <4>1 DEF Addresses
      <4> QED BY <1>4, <4>1, <4>2, <4>3
    <3> QED BY <3>1, <3>2
  <2>2. ASSUME NEW a \in Addresses, wallet'[a].type = "merchant"
        PROVE  \E m \in Merchants : merchant'[m] = [user |-> a[1], index |-> a[2]]
    <3>1. CASE a = First(r)
      BY <1>2, <1>3, <1>4, <3>1
    <3>2. CASE a # First(r)
      <4>1. wallet[a].type = "merchant"
        BY <1>4, <2>2, <3>2
      <4>2. PICK m \in Merchants : merchant[m] = [user |-> a[1], index |-> a[2]]
        BY <4>1 DEF AccountInv, WholeMerchants
      <4>3. m # r
        BY <1>2, <4>2, Distinct DEF Exists, NoMerchant, Addresses
      <4> QED BY <1>4, <4>2, <4>3
    <3> QED BY <3>1, <3>2
  <2> QED BY <2>1, <2>2 DEF WholeMerchants
<1>16. WhitelistedWereGiven'
  BY <1>4 DEF AccountInv, WhitelistedWereGiven, MerchantTypeOK
<1> QED BY <1>5, <1>7, <1>9, <1>10, <1>11, <1>14, <1>15, <1>16 DEF AccountInv

\* A deletion takes the first wallet of its merchant and nothing of another.
LEMMA DeleteStep ==
  ASSUME AccountInv, NEW r \in Requests, pc[r] = "deleteMerchant",
         NEW m \in Merchants, Exists(m),
         wallet' = [a \in Addresses |->
                      IF a \in WalletsToDelete(m) THEN NoRow ELSE wallet[a]],
         merchant' = [merchant EXCEPT ![m] = NoMerchant],
         key' = key \ {m},
         Finish(r),
         UNCHANGED <<next, given, shared, whitelist, polite, faults>>
  PROVE  AccountInv'
<1> DEFINE u == merchant[m].user  i == merchant[m].index
<1>1. /\ u \in Users /\ i \in Indices /\ <<u, i>> \in Addresses
      /\ Odd(i) /\ given[<<u, i>>] = {m} /\ WalletsToDelete(m) = {<<u, i>>}
  <2>1. merchant[m] \in Merchant
    BY DEF AccountInv, MerchantTypeOK, Exists
  <2> QED BY <2>1 DEF Merchant, AccountInv, HomeInv, Addresses, WalletsToDelete
<1>2. /\ \A a \in Addresses :
           wallet'[a] = IF a = <<u, i>> THEN NoRow ELSE wallet[a]
      /\ \A n \in Merchants :
           merchant'[n] = IF n = m THEN NoMerchant ELSE merchant[n]
  BY <1>1 DEF AccountInv, MerchantTypeOK
<1>3. \A n \in Merchants : Exists(n)' => Exists(n) /\ n # m /\ merchant'[n] = merchant[n]
  BY <1>2 DEF Exists
<1>4. MerchantTypeOK'
  BY <1>1 DEF AccountInv, MerchantTypeOK
<1>5. /\ DOMAIN req' = Requests /\ DOMAIN pc' = Requests
      /\ pc'[r] = "done"
      /\ \A q \in Requests \ {r} : pc'[q] = pc[q] /\ req'[q] = req[q]
  BY DEF AccountInv, Finish, Goto
<1>6. RequestInv'
  <2> SUFFICES ASSUME NEW q \in Requests \ {r}
               PROVE  /\ pc'[q] \in {"idle", "createMerchant"} => ~Exists(q)'
                      /\ pc'[q] = "createMerchant" => MayInsert(q)'
                      /\ pc'[q] \in {"whitelist", "whitelistSeller"} => WasGiven(q)'
                      /\ pc'[q] = "deleteMerchant" => req'[q].merchant \in Merchants
    BY <1>5 DEF RequestInv
  <2>1. ~Exists(q) => ~Exists(q)'
    BY <1>3 DEF Merchants
  <2>2. (MayInsert(q) => MayInsert(q)') /\ (WasGiven(q) => WasGiven(q)')
    BY <1>5 DEF MayInsert, WasGiven, First, Second
  <2> QED BY <1>5, <2>1, <2>2 DEF AccountInv, RequestInv
<1>7. IndexInv'
  <2>1. \A v \in Users, j \in Indices : ~Odd(j) => wallet'[<<v, j>>] = wallet[<<v, j>>]
    BY <1>1, <1>2 DEF Addresses
  <2> QED BY <2>1 DEF AccountInv, IndexInv
<1>8. AddressInv'
  BY <1>2 DEF AccountInv, AddressInv
<1>9. HomeInv'
  BY <1>3 DEF AccountInv, HomeInv
<1>10. WholeMerchants'
  <2>1. ASSUME NEW n \in Merchants, Exists(n)'
        PROVE  /\ n \in key'
               /\ wallet'[<<merchant'[n].user, merchant'[n].index>>].type = "merchant"
               /\ wallet'[<<merchant'[n].user, merchant'[n].index + 1>>].type = "seller"
    <3> DEFINE v == merchant[n].user  j == merchant[n].index
    <3>1. Exists(n) /\ n # m /\ merchant'[n] = merchant[n]
      BY <1>3, <2>1
    <3>2. v \in Users /\ j \in Indices /\ j \in Nat
      BY <3>1, Limits DEF AccountInv, MerchantTypeOK, Exists, Merchant, Indices
    <3>3. Odd(j) /\ j + 1 \in Indices /\ given[<<v, j>>] = {n}
      BY <3>1 DEF AccountInv, HomeInv
    <3>4. <<v, j>> # <<u, i>> /\ <<v, j + 1>> # <<u, i>>
      BY <1>1, <3>1, <3>2, <3>3, Parity
    <3>5. <<v, j>> \in Addresses /\ <<v, j + 1>> \in Addresses
      BY <3>2, <3>3 DEF Addresses
    <3>6. n \in key /\ wallet[<<v, j>>].type = "merchant" /\ wallet[<<v, j + 1>>].type = "seller"
      BY <3>1 DEF AccountInv, WholeMerchants
    <3> QED BY <1>2, <3>1, <3>4, <3>5, <3>6
  <2>2. ASSUME NEW a \in Addresses, wallet'[a].type = "merchant"
        PROVE  \E n \in Merchants : merchant'[n] = [user |-> a[1], index |-> a[2]]
    <3>1. a # <<u, i>> /\ wallet[a].type = "merchant"
      BY <1>2, <2>2 DEF NoRow
    <3>2. PICK n \in Merchants : merchant[n] = [user |-> a[1], index |-> a[2]]
      BY <3>1 DEF AccountInv, WholeMerchants
    <3>3. a = <<a[1], a[2]>>
      BY DEF Addresses
    <3>4. n # m
      BY <3>1, <3>2, <3>3
    <3> QED BY <1>2, <3>2, <3>4
  <2> QED BY <2>1, <2>2 DEF WholeMerchants
<1>11. WhitelistedWereGiven'
  BY DEF AccountInv, WhitelistedWereGiven
<1> QED BY <1>4, <1>5, <1>6, <1>7, <1>8, <1>9, <1>10, <1>11 DEF AccountInv

\* A request moves on to a place nothing is asked of.
Others == {"done", "register"} \cup LinkPlaces \cup CustomerPlaces

Elsewhere(r) ==
  /\ polite' = polite /\ faults' \in Nat
  /\ DOMAIN pc' = Requests /\ DOMAIN req' = Requests
  /\ pc'[r] \in Others
  /\ \A q \in Requests \ {r} : pc'[q] = pc[q] /\ req'[q] = req[q]

\* It keeps the books when it writes no row of a user or merchant.
LEMMA ElsewhereStep ==
  ASSUME AccountInv, NEW r \in Requests, Elsewhere(r), UNCHANGED merchantRows
  PROVE  AccountInv'
<1>1. /\ MerchantTypeOK' /\ IndexInv' /\ AddressInv' /\ HomeInv'
      /\ WholeMerchants' /\ WhitelistedWereGiven'
  BY DEF AccountInv, Elsewhere, merchantRows, MerchantTypeOK, IndexInv, AddressInv, HomeInv,
         WholeMerchants, WhitelistedWereGiven, Exists
<1>2. RequestInv'
  BY DEF AccountInv, Elsewhere, Others, LinkPlaces, CustomerPlaces, merchantRows, RequestInv,
         Exists, MayInsert, WasGiven, First, Second
<1> QED BY <1>1, <1>2 DEF AccountInv, Elsewhere

\* The handlers of links and customers are such requests.
LEMMA LinksAreElsewhere ==
  ASSUME AccountInv, NEW r \in Requests, LinkStep(r) \/ CustomerStep(r)
  PROVE  Elsewhere(r)
<1> USE DEF AccountInv, MerchantTypeOK, Elsewhere, Others, LinkPlaces, CustomerPlaces,
            Start, Goto, Finish, Fail, Raises
<1>1. ASSUME NEW p \in Phones, GetCustomerByPhone(r, p) PROVE Elsewhere(r)
  BY <1>1 DEF GetCustomerByPhone
<1>2. ASSUME NEW l \in Makers, NEW p \in Phones, CreateOTP(r, l, p) PROVE Elsewhere(r)
  BY <1>2 DEF CreateOTP
<1>3. ASSUME NEW l \in Makers, ReSendOTP(r, l) PROVE Elsewhere(r)
  BY <1>3 DEF ReSendOTP
<1>4. ASSUME NEW p \in Phones, NEW code \in Requests, VerifyOTP(r, p, code) PROVE Elsewhere(r)
  BY <1>4 DEF VerifyOTP
<1>5. ASSUME NEW p \in Phones, NEW e \in Dates, CreateTempLink(r, p, e) PROVE Elsewhere(r)
  BY <1>5 DEF CreateTempLink
<1>6. ASSUME NEW l \in Makers, NEW e \in Dates \cup {None}, UpdateTempLink(r, l, e) PROVE Elsewhere(r)
  BY <1>6 DEF UpdateTempLink
<1>7. ASSUME NEW l \in Makers, DeleteTempLink(r, l) PROVE Elsewhere(r)
  BY <1>7 DEF DeleteTempLink
<1>8. ASSUME NEW m \in Merchants, RegisterCustomerDev(r, m) PROVE Elsewhere(r)
  BY <1>8 DEF RegisterCustomerDev
<1>9. ASSUME NEW m \in Merchants, NEW p \in Phones, NEW e \in Emails, CreateCustomer(r, m, p, e) PROVE Elsewhere(r)
  BY <1>9 DEF CreateCustomer
<1>10. ASSUME NEW p \in Phones, ClearCustomerByPhone(r, p) PROVE Elsewhere(r)
  BY <1>10 DEF ClearCustomerByPhone
<1>11. ASSUME LookForLink(r) PROVE Elsewhere(r)
  BY <1>11 DEF LookForLink
<1>12. ASSUME RefreshLink(r) PROVE Elsewhere(r)
  BY <1>12 DEF RefreshLink
<1>13. ASSUME NewLinkForPhone(r) PROVE Elsewhere(r)
  BY <1>13 DEF NewLinkForPhone
<1>14. ASSUME StoreOTP(r) PROVE Elsewhere(r)
  BY <1>14 DEF StoreOTP
<1>15. ASSUME SendOTP(r) PROVE Elsewhere(r)
  BY <1>15 DEF SendOTP, SendSms
<1>16. ASSUME StoreNewOTP(r) PROVE Elsewhere(r)
  BY <1>16 DEF StoreNewOTP
<1>17. ASSUME SendAgain(r) PROVE Elsewhere(r)
  BY <1>17 DEF SendAgain, SendSms
<1>18. ASSUME DeleteVerified(r) PROVE Elsewhere(r)
  BY <1>18 DEF DeleteVerified
<1>19. ASSUME Extend(r) PROVE Elsewhere(r)
  BY <1>19 DEF Extend
<1>20. ASSUME DropLink(r) PROVE Elsewhere(r)
  BY <1>20 DEF DropLink
<1>21. ASSUME DevLink(r) PROVE Elsewhere(r)
  BY <1>21 DEF DevLink
<1>22. ASSUME FindCustomer(r) PROVE Elsewhere(r)
  BY <1>22 DEF FindCustomer
<1>23. ASSUME JoinMerchant(r) PROVE Elsewhere(r)
  BY <1>23 DEF JoinMerchant
<1>24. ASSUME InsertCustomer(r) PROVE Elsewhere(r)
  BY <1>24 DEF InsertCustomer
<1>25. ASSUME Clear(r) PROVE Elsewhere(r)
  BY <1>25 DEF Clear
<1> QED BY <1>1, <1>2, <1>3, <1>4, <1>5, <1>6, <1>7, <1>8, <1>9, <1>10, <1>11, <1>12, <1>13, <1>14, <1>15, <1>16, <1>17, <1>18, <1>19, <1>20, <1>21, <1>22, <1>23, <1>24, <1>25 DEF LinkStep, CustomerStep

-----------------------------------------------------------------------------
\* A user who comes about has nothing yet.
LEMMA UserStep ==
  ASSUME AccountInv, NEW r \in Requests, CommitUser(r)
  PROVE  AccountInv'
<1>1. CASE UNCHANGED next
  <2>1. Elsewhere(r)
    BY DEF CommitUser, Elsewhere, Others, Finish, Goto, Raises, AccountInv, MerchantTypeOK
  <2> QED BY <1>1, <2>1, ElsewhereStep DEF CommitUser, merchantRows
<1>2. CASE next[req[r].user] = 0 /\ next' = [next EXCEPT ![req[r].user] = 1] /\ UNCHANGED faults
  <2> USE DEF AccountInv, MerchantTypeOK
  <2>1. \A v \in Users :
          /\ next'[v] \in Nat /\ next[v] \in Nat
          /\ next'[v] = next[v] \/ (next[v] = 0 /\ next'[v] = 1)
    BY <1>2
  <2>2. /\ UNCHANGED <<wallet, merchant, key, given, shared, whitelist, polite, faults>>
        /\ DOMAIN pc' = Requests /\ DOMAIN req' = Requests /\ pc'[r] = "done"
        /\ \A q \in Requests \ {r} : pc'[q] = pc[q] /\ req'[q] = req[q]
    BY <1>2 DEF CommitUser, Finish, Goto
  <2>3. MerchantTypeOK'
    BY <1>2, <2>2
  <2>4. RequestInv'
    <3> SUFFICES ASSUME NEW q \in Requests \ {r}
                 PROVE  /\ pc'[q] \in {"idle", "createMerchant"} => ~Exists(q)'
                        /\ pc'[q] = "createMerchant" => MayInsert(q)'
                        /\ pc'[q] \in {"whitelist", "whitelistSeller"} => WasGiven(q)'
                        /\ pc'[q] = "deleteMerchant" => req'[q].merchant \in Merchants
      BY <2>2 DEF RequestInv
    <3>1. MayInsert(q) => MayInsert(q)'
      <4> SUFFICES ASSUME MayInsert(q) PROVE MayInsert(q)'
        OBVIOUS
      <4>1. req[q].user \in Users /\ req[q].index \in Nat /\ req[q].index >= 1
            /\ req[q].index <= next[req[q].user]
        BY Limits DEF MayInsert, Indices
      <4>2. next'[req[q].user] = next[req[q].user]
        BY <2>1, <4>1
      <4> QED BY <2>2, <4>1, <4>2 DEF MayInsert
    <3>2. (~Exists(q) => ~Exists(q)') /\ (WasGiven(q) => WasGiven(q)')
      BY <2>2 DEF Exists, WasGiven, First, Second
    <3> QED BY <2>2, <3>1, <3>2 DEF RequestInv
  <2>5. IndexInv'
    <3>1. \A v \in Users, j \in Indices : j < next'[v] => j < next[v]
      BY <2>1, Limits DEF Indices
    <3> QED BY <2>1, <2>2, <3>1, Parity DEF IndexInv
  <2>6. AddressInv'
    <3>1. \A a \in Addresses : a[2] < next[a[1]] => a[2] < next'[a[1]]
      BY <2>1, Limits DEF Addresses, Indices
    <3> QED BY <2>2, <3>1 DEF AddressInv
  <2>7. HomeInv'
    <3> SUFFICES ASSUME NEW m \in Merchants, Exists(m)
                 PROVE  LET u == merchant[m].user  i == merchant[m].index IN
                        /\ Odd(i) /\ i + 1 \in Indices /\ i + 1 < next'[u]
                        /\ given[<<u, i>>] = {m}
      BY <2>2 DEF HomeInv, Exists
    <3> DEFINE u == merchant[m].user  i == merchant[m].index
    <3>1. u \in Users /\ Odd(i) /\ i + 1 \in Indices /\ i + 1 < next[u] /\ given[<<u, i>>] = {m}
      BY DEF HomeInv, Exists, Merchant
    <3>2. i + 1 < next'[u]
      BY <2>1, <3>1, Limits DEF Indices
    <3> QED BY <3>1, <3>2
  <2>8. WholeMerchants' /\ WhitelistedWereGiven'
    BY <2>2 DEF WholeMerchants, WhitelistedWereGiven, Exists
  <2> QED BY <2>2, <2>3, <2>4, <2>5, <2>6, <2>7, <2>8
<1> QED BY <1>1, <1>2 DEF CommitUser

\* What a creation reads is an index nobody has had, or that is not beyond.
LEMMA CreateStep ==
  ASSUME AccountInv, NEW r \in Requests, NEW u \in Users, NEW p \in Phones \cup {None},
         CreateMerchant(r, u, p)
  PROVE  AccountInv'
<1>1. /\ UNCHANGED <<merchantRows, polite, faults>>
      /\ DOMAIN pc' = Requests /\ DOMAIN req' = Requests
      /\ pc[r] = "idle" /\ pc'[r] = "createMerchant"
      /\ req'[r] = [user |-> u, phone |-> p, index |-> next[u]]
      /\ \A q \in Requests \ {r} : pc'[q] = pc[q] /\ req'[q] = req[q]
  BY DEF CreateMerchant, Start, Goto, AccountInv
<1>2. MayInsert(r)'
  <2>1. next[u] \in Nat /\ next[u] # 0 /\ Odd(next[u]) /\ next[u] + 1 \in Indices
    BY DEF CreateMerchant, AccountInv, MerchantTypeOK, IndexInv
  <2>2. next[u] \in Indices
    BY <2>1, Limits DEF Indices
  <2> QED BY <1>1, <2>1, <2>2 DEF MayInsert, merchantRows
<1>3. RequestInv'
  <2>1. \A q \in Requests : Exists(q)' <=> Exists(q)
    BY <1>1 DEF merchantRows, Exists
  <2>2. \A q \in Requests \ {r} : (MayInsert(q) => MayInsert(q)') /\ (WasGiven(q) => WasGiven(q)')
    BY <1>1 DEF merchantRows, MayInsert, WasGiven, First, Second
  <2> QED BY <1>1, <1>2, <2>1, <2>2 DEF AccountInv, RequestInv
<1>4. /\ MerchantTypeOK' /\ IndexInv' /\ AddressInv' /\ HomeInv'
      /\ WholeMerchants' /\ WhitelistedWereGiven'
  BY <1>1 DEF AccountInv, merchantRows, MerchantTypeOK, IndexInv, AddressInv, HomeInv,
              WholeMerchants, WhitelistedWereGiven, Exists
<1> QED BY <1>1, <1>3, <1>4 DEF AccountInv

\* What is whitelisted was given to the merchant of the request.
LEMMA AdmitStep ==
  ASSUME AccountInv, NEW r \in Requests, AdmitMerchant(r) \/ AdmitSeller(r)
  PROVE  AccountInv'
<1>1. WasGiven(r)
  BY DEF AccountInv, RequestInv, AdmitMerchant, AdmitSeller, At
<1>2. /\ UNCHANGED <<next, wallet, merchant, key, given, shared, polite>> /\ faults' \in Nat
      /\ DOMAIN pc' = Requests /\ DOMAIN req' = Requests
      /\ pc'[r] \in {"whitelistSeller", "done"}
      /\ pc'[r] = "whitelistSeller" => req'[r] = req[r]
      /\ \A q \in Requests \ {r} : pc'[q] = pc[q] /\ req'[q] = req[q]
  BY DEF AdmitMerchant, AdmitSeller, Goto, Finish, Raises, AccountInv, MerchantTypeOK
<1>3. whitelist' \subseteq whitelist \cup {First(r), Second(r)}
  BY DEF AdmitMerchant, AdmitSeller
<1>4. WhitelistedWereGiven' /\ whitelist' \subseteq Addresses
  BY <1>1, <1>2, <1>3 DEF WasGiven, AccountInv, WhitelistedWereGiven, MerchantTypeOK
<1>5. RequestInv'
  <2>1. \A q \in Requests : Exists(q)' <=> Exists(q)
    BY <1>2 DEF Exists
  <2>2. \A q \in Requests \ {r} : (MayInsert(q) => MayInsert(q)') /\ (WasGiven(q) => WasGiven(q)')
    BY <1>2 DEF MayInsert, WasGiven, First, Second
  <2>3. pc'[r] = "whitelistSeller" => WasGiven(r)'
    BY <1>1, <1>2 DEF WasGiven, First, Second
  <2> QED BY <1>2, <2>1, <2>2, <2>3 DEF AccountInv, RequestInv
<1>6. MerchantTypeOK' /\ IndexInv' /\ AddressInv' /\ HomeInv' /\ WholeMerchants'
  BY <1>2, <1>4 DEF AccountInv, MerchantTypeOK, IndexInv, AddressInv, HomeInv, WholeMerchants,
                    Exists
<1> QED BY <1>2, <1>4, <1>5, <1>6 DEF AccountInv

\* Every step of a merchant's handler keeps the books of users and merchants.
LEMMA MerchantStepKeeps ==
  ASSUME AccountInv, NEW r \in Requests, MerchantStep(r)
  PROVE  AccountInv'
<1>1. ASSUME NEW u \in Users, Register(r, u) PROVE AccountInv'
  <2>1. Elsewhere(r)
    BY <1>1 DEF Register, Elsewhere, Others, Start, Goto, AccountInv, MerchantTypeOK
  <2> QED BY <1>1, <2>1, ElsewhereStep DEF Register
<1>2. CASE CommitUser(r)
  BY <1>2, UserStep
<1>3. ASSUME NEW u \in Users, NEW p \in Phones \cup {None}, CreateMerchant(r, u, p)
      PROVE  AccountInv'
  BY <1>3, CreateStep
<1>4. CASE CommitMerchant(r)
  <2>1. CASE AddressesFree(r) /\ InsertAll(r) /\ Goto(r, "whitelist") /\ UNCHANGED <<req, faults>>
    BY <1>4, <2>1, InsertStep DEF CommitMerchant, At
  <2>2. CASE Finish(r) /\ UNCHANGED <<next, wallet, merchant, key, given, shared>>
    <3>1. Elsewhere(r)
      BY <1>4, <2>2 DEF CommitMerchant, Persist, Elsewhere, Others, Finish, Goto, Raises,
                        AccountInv, MerchantTypeOK
    <3> QED BY <1>4, <2>2, <3>1, ElsewhereStep DEF CommitMerchant, merchantRows
  <2> QED BY <1>4, <2>1, <2>2 DEF CommitMerchant, Persist
<1>5. CASE AdmitMerchant(r) \/ AdmitSeller(r)
  BY <1>5, AdmitStep
<1>6. ASSUME NEW m \in Merchants, DeleteMerchant(r, m) PROVE AccountInv'
  <2>1. /\ UNCHANGED <<merchantRows, polite, faults>>
        /\ DOMAIN pc' = Requests /\ DOMAIN req' = Requests
        /\ pc'[r] = "deleteMerchant" /\ req'[r] = [merchant |-> m]
        /\ \A q \in Requests \ {r} : pc'[q] = pc[q] /\ req'[q] = req[q]
    BY <1>6 DEF DeleteMerchant, Start, Goto, AccountInv
  <2>2. RequestInv'
    <3>1. \A q \in Requests : Exists(q)' <=> Exists(q)
      BY <2>1 DEF merchantRows, Exists
    <3>2. \A q \in Requests \ {r} : (MayInsert(q) => MayInsert(q)') /\ (WasGiven(q) => WasGiven(q)')
      BY <2>1 DEF merchantRows, MayInsert, WasGiven, First, Second
    <3> QED BY <1>6, <2>1, <3>1, <3>2 DEF AccountInv, RequestInv
  <2>3. /\ MerchantTypeOK' /\ IndexInv' /\ AddressInv' /\ HomeInv'
        /\ WholeMerchants' /\ WhitelistedWereGiven'
    BY <2>1 DEF AccountInv, merchantRows, MerchantTypeOK, IndexInv, AddressInv, HomeInv,
                WholeMerchants, WhitelistedWereGiven, Exists
  <2> QED BY <2>1, <2>2, <2>3 DEF AccountInv
<1>7. CASE CommitDeletion(r)
  <2> DEFINE m == req[r].merchant
  <2>1. pc[r] = "deleteMerchant" /\ m \in Merchants
    BY <1>7 DEF CommitDeletion, At, AccountInv, RequestInv
  <2>2. CASE UNCHANGED <<wallet, merchant, key>>
    <3>1. Elsewhere(r)
      BY <1>7 DEF CommitDeletion, Elsewhere, Others, Finish, Goto, Raises, AccountInv,
                  MerchantTypeOK
    <3> QED BY <1>7, <2>2, <3>1, ElsewhereStep DEF CommitDeletion, merchantRows
  <2>3. CASE /\ Exists(m)
             /\ wallet' = [a \in Addresses |->
                             IF a \in WalletsToDelete(m) THEN NoRow ELSE wallet[a]]
             /\ merchant' = [merchant EXCEPT ![m] = NoMerchant]
             /\ key' = key \ {m}
             /\ UNCHANGED faults
    BY <1>7, <2>1, <2>3, DeleteStep DEF CommitDeletion
  <2> QED BY <1>7, <2>2, <2>3 DEF CommitDeletion
<1> QED BY <1>1, <1>2, <1>3, <1>4, <1>5, <1>6, <1>7 DEF MerchantStep

\* Every step of the system keeps the books of users and merchants.
LEMMA StepAccounts == AccountInv /\ [Next]_vars => AccountInv'
<1> SUFFICES ASSUME AccountInv, [Next]_vars PROVE AccountInv'
  OBVIOUS
<1>1. ASSUME NEW r \in Requests, MerchantStep(r) PROVE AccountInv'
  BY <1>1, MerchantStepKeeps
<1>2. ASSUME NEW r \in Requests, LinkStep(r) \/ CustomerStep(r), UNCHANGED merchantRows
      PROVE  AccountInv'
  BY <1>2, LinksAreElsewhere, ElsewhereStep
<1>3. CASE Tick \/ UNCHANGED vars
  <2>1. UNCHANGED <<merchantRows, req, pc, polite, faults>>
    BY <1>3 DEF Tick, vars
  <2>2. RequestInv'
    BY <2>1 DEF AccountInv, RequestInv, merchantRows, Exists, MayInsert, WasGiven, First, Second
  <2>3. /\ MerchantTypeOK' /\ IndexInv' /\ AddressInv' /\ HomeInv'
        /\ WholeMerchants' /\ WhitelistedWereGiven'
    BY <2>1 DEF AccountInv, merchantRows, MerchantTypeOK, IndexInv, AddressInv, HomeInv,
                WholeMerchants, WhitelistedWereGiven, Exists
  <2> QED BY <2>1, <2>2, <2>3 DEF AccountInv
<1> QED BY <1>1, <1>2, <1>3 DEF Next

\* The strengthening is an invariant: two addresses at a time, from an index
\* only ever going up (CreateMerchant.execute, DeleteMerchant.execute).
THEOREM AccountsInductive == Spec => []AccountInv
<1> QED BY InitAccounts, StepAccounts, PTL DEF Spec

\* No address is made for two merchants, although the index is read outside
\* of the transaction and merchants are deleted (CreateMerchant.execute).
THEOREM AddressesAreNew == Spec => []NoAddressReuse
<1>1. AccountInv => NoAddressReuse
  <2> SUFFICES ASSUME AccountInv, NEW a \in Addresses PROVE Cardinality(given[a]) <= 1
    BY DEF NoAddressReuse
  <2>1. PICK m \in Merchants : given[a] \subseteq {m}
    BY DEF AccountInv, AddressInv
  <2>2. given[a] = {} \/ given[a] = {m}
    BY <2>1
  <2>3. Cardinality({}) = 0 /\ Cardinality({m}) = 1
    BY FS_EmptySet, FS_Singleton
  <2> QED BY <2>2, <2>3
<1> QED BY <1>1, AccountsInductive, PTL

\* The counter is ahead of every wallet of its user (CreateMerchant.execute).
THEOREM IndexIsAhead == Spec => []NextIsFree
<1>1. AccountInv => NextIsFree
  BY DEF AccountInv, AddressInv, NextIsFree
<1> QED BY <1>1, AccountsInductive, PTL

-----------------------------------------------------------------------------
\* A step of r makes no link but the one of r, at its end, and no other
\* request moves.
OnlyOwnLink(r) ==
  /\ DOMAIN link' = Makers
  /\ \A l \in Makers : Lives(l)' => Lives(l) \/ (l = r /\ pc'[r] = "done")
  /\ pc[r] # "done"
  /\ pc'[r] = "verify" => req'[r].link \in Makers
  /\ \A q \in Requests \ {r} : pc'[q] = pc[q] /\ req'[q] = req[q]
LinksKept(r) == OnlyOwnLink(r) /\ UNCHANGED verified

\* There is one link in the beginning, which nobody has verified.
LEMMA InitLinks == Init => LinkInv
BY Distinct DEF Init, LinkInv, Makers, Lives, MadeOnce, VerifiedOnce

\* A link that is there, or was verified, was made by a request that is over,
\* and stays as it is when others move.
LEMMA LinksKeptStep ==
  ASSUME LinkInv, NEW r \in Requests, LinksKept(r)
  PROVE  LinkInv'
<1>1. \A l \in Makers : MadeOnce(l) => MadeOnce(l)' /\ l # r
  BY DEF LinksKept, OnlyOwnLink, MadeOnce
<1>2. \A l \in Makers : Lives(l)' => MadeOnce(l)'
  BY <1>1 DEF LinkInv, LinksKept, OnlyOwnLink, MadeOnce
<1>3. \A v \in verified : v.link \in Makers /\ MadeOnce(v.link)' /\ ~Lives(v.link)'
  BY <1>1 DEF LinkInv, LinksKept, OnlyOwnLink
<1> QED BY <1>2, <1>3 DEF LinkInv, LinksKept, OnlyOwnLink, VerifiedOnce

\* Every handler but the verification keeps to its own link.
LEMMA OthersKeepLinks ==
  ASSUME AccountInv, LinkInv, NEW r \in Requests, LinkStep(r) \/ CustomerStep(r),
         ~DeleteVerified(r)
  PROVE  LinksKept(r)
<1> USE DEF AccountInv, LinkInv, LinksKept, OnlyOwnLink, linkRows, Start, At, Goto, Finish,
            Fail, Raises, Makers, Lives
<1>1. ASSUME NEW p \in Phones, GetCustomerByPhone(r, p) PROVE LinksKept(r)
  BY <1>1 DEF GetCustomerByPhone
<1>2. ASSUME NEW l \in Makers, NEW p \in Phones, CreateOTP(r, l, p) PROVE LinksKept(r)
  BY <1>2 DEF CreateOTP
<1>3. ASSUME NEW l \in Makers, ReSendOTP(r, l) PROVE LinksKept(r)
  BY <1>3 DEF ReSendOTP
<1>4. ASSUME NEW p \in Phones, NEW code \in Requests, VerifyOTP(r, p, code) PROVE LinksKept(r)
  BY <1>4 DEF VerifyOTP, NewestOf, LinksOf
<1>5. ASSUME NEW p \in Phones, NEW e \in Dates, CreateTempLink(r, p, e) PROVE LinksKept(r)
  BY <1>5 DEF CreateTempLink, AddLink
<1>6. ASSUME NEW l \in Makers, NEW e \in Dates \cup {None}, UpdateTempLink(r, l, e) PROVE LinksKept(r)
  BY <1>6 DEF UpdateTempLink
<1>7. ASSUME NEW l \in Makers, DeleteTempLink(r, l) PROVE LinksKept(r)
  BY <1>7 DEF DeleteTempLink
<1>8. ASSUME NEW m \in Merchants, RegisterCustomerDev(r, m) PROVE LinksKept(r)
  BY <1>8 DEF RegisterCustomerDev
<1>9. ASSUME NEW m \in Merchants, NEW p \in Phones, NEW e \in Emails, CreateCustomer(r, m, p, e) PROVE LinksKept(r)
  BY <1>9 DEF CreateCustomer
<1>10. ASSUME NEW p \in Phones, ClearCustomerByPhone(r, p) PROVE LinksKept(r)
  BY <1>10 DEF ClearCustomerByPhone
<1>11. ASSUME LookForLink(r) PROVE LinksKept(r)
  BY <1>11 DEF LookForLink
<1>12. ASSUME RefreshLink(r) PROVE LinksKept(r)
  BY <1>12 DEF RefreshLink, Same
<1>13. ASSUME NewLinkForPhone(r) PROVE LinksKept(r)
  BY <1>13 DEF NewLinkForPhone, AddLink
<1>14. ASSUME StoreOTP(r) PROVE LinksKept(r)
  BY <1>14 DEF StoreOTP, Same, StorePhoneAndCode
<1>15. ASSUME SendOTP(r) PROVE LinksKept(r)
  BY <1>15 DEF SendOTP, SendSms
<1>16. ASSUME StoreNewOTP(r) PROVE LinksKept(r)
  BY <1>16 DEF StoreNewOTP, Same, StoreCodeAndExpiry
<1>17. ASSUME SendAgain(r) PROVE LinksKept(r)
  BY <1>17 DEF SendAgain, SendSms
<1>18. ASSUME Extend(r) PROVE LinksKept(r)
  BY <1>18 DEF Extend, Same
<1>19. ASSUME DropLink(r) PROVE LinksKept(r)
  BY <1>19 DEF DropLink, Same
<1>20. ASSUME DevLink(r) PROVE LinksKept(r)
  BY <1>20 DEF DevLink, AddLink
<1>21. ASSUME FindCustomer(r) PROVE LinksKept(r)
  BY <1>21 DEF FindCustomer
<1>22. ASSUME JoinMerchant(r) PROVE LinksKept(r)
  BY <1>22 DEF JoinMerchant
<1>23. ASSUME InsertCustomer(r) PROVE LinksKept(r)
  BY <1>23 DEF InsertCustomer
<1>24. ASSUME Clear(r) PROVE LinksKept(r)
  BY <1>24 DEF Clear
<1> QED
  BY <1>1, <1>2, <1>3, <1>4, <1>5, <1>6, <1>7, <1>8, <1>9, <1>10, <1>11,
     <1>12, <1>13, <1>14, <1>15, <1>16, <1>17, <1>18, <1>19, <1>20, <1>21,
     <1>22, <1>23, <1>24 DEF LinkStep, CustomerStep

\* A verification deletes the link that it read, and succeeds only if it is
\* still there.
LEMMA VerifyStep ==
  ASSUME AccountInv, LinkInv, NEW r \in Requests, DeleteVerified(r)
  PROVE  LinkInv'
<1> DEFINE l == req[r].link
<1>1. /\ pc[r] = "verify" /\ l \in Makers
      /\ DOMAIN pc' = Requests /\ pc'[r] = "done"
      /\ \A q \in Requests \ {r} : pc'[q] = pc[q] /\ req'[q] = req[q]
  BY DEF DeleteVerified, At, Finish, Goto, AccountInv, LinkInv
<1>2. CASE UNCHANGED <<link, verified>>
  <2>1. LinksKept(r)
    BY <1>1, <1>2 DEF LinksKept, OnlyOwnLink, LinkInv, Lives
  <2> QED BY <2>1, LinksKeptStep
<1>3. CASE Same(r) /\ link' = [link EXCEPT ![l] = NoLink] /\ Succeed(r)
  <2>1. Lives(l) /\ MadeOnce(l)
    BY <1>1, <1>3 DEF Same, LinkInv
  <2>2. \A k \in Makers : Lives(k)' => Lives(k) /\ k # l
    BY <1>1, <1>3 DEF LinkInv, Lives
  <2>3. \A k \in Makers : MadeOnce(k) => MadeOnce(k)'
    BY <1>1 DEF MadeOnce
  <2> DEFINE w == [by |-> r, link |-> l, phone |-> req[r].phone, code |-> req[r].code]
  <2>4. verified' = verified \cup {w} /\ w.link = l
    BY <1>3 DEF Succeed
  <2>5. \A v \in verified : v.link \in Makers /\ v.link # l /\ MadeOnce(v.link) /\ ~Lives(v.link)
    BY <2>1 DEF LinkInv
  <2>6. \A v \in verified' : v.link \in Makers /\ MadeOnce(v.link)' /\ ~Lives(v.link)'
    BY <1>1, <2>1, <2>2, <2>3, <2>4, <2>5
  <2>7. VerifiedOnce'
    BY <2>4, <2>5 DEF LinkInv, VerifiedOnce
  <2>8. DOMAIN link' = Makers
    BY <1>3 DEF LinkInv
  <2> QED BY <1>1, <2>2, <2>3, <2>6, <2>7, <2>8 DEF LinkInv
<1> QED BY <1>2, <1>3 DEF DeleteVerified, RemoveLink

\* The handlers of users and merchants touch no link, and move one request.
LEMMA MerchantsKeepLinks ==
  ASSUME AccountInv, LinkInv, NEW r \in Requests, MerchantStep(r), UNCHANGED linkRows
  PROVE  LinksKept(r)
<1> USE DEF AccountInv, LinkInv, LinksKept, OnlyOwnLink, linkRows, Lives, Start, At, Goto,
            Finish
<1>1. ASSUME NEW u \in Users, Register(r, u) PROVE LinksKept(r)
  BY <1>1 DEF Register
<1>2. CASE CommitUser(r)
  BY <1>2 DEF CommitUser
<1>3. ASSUME NEW u \in Users, NEW p \in Phones \cup {None}, CreateMerchant(r, u, p)
      PROVE  LinksKept(r)
  BY <1>3 DEF CreateMerchant
<1>4. CASE CommitMerchant(r)
  BY <1>4 DEF CommitMerchant, Persist
<1>5. CASE AdmitMerchant(r) \/ AdmitSeller(r)
  BY <1>5 DEF AdmitMerchant, AdmitSeller
<1>6. ASSUME NEW m \in Merchants, DeleteMerchant(r, m) PROVE LinksKept(r)
  BY <1>6 DEF DeleteMerchant
<1>7. CASE CommitDeletion(r)
  BY <1>7 DEF CommitDeletion
<1> QED BY <1>1, <1>2, <1>3, <1>4, <1>5, <1>6, <1>7 DEF MerchantStep

\* Every step keeps the links.
LEMMA StepLinks == AccountInv /\ LinkInv /\ [Next]_vars => LinkInv'
<1> SUFFICES ASSUME AccountInv, LinkInv, [Next]_vars PROVE LinkInv'
  OBVIOUS
<1>1. ASSUME NEW r \in Requests, LinkStep(r) \/ CustomerStep(r) PROVE LinkInv'
  BY <1>1, OthersKeepLinks, VerifyStep, LinksKeptStep
<1>2. ASSUME NEW r \in Requests, MerchantStep(r), UNCHANGED linkRows PROVE LinkInv'
  BY <1>2, MerchantsKeepLinks, LinksKeptStep
<1>3. CASE Tick \/ UNCHANGED vars
  BY <1>3 DEF Tick, vars, linkRows, LinkInv, Lives, MadeOnce, VerifiedOnce
<1> QED BY <1>1, <1>2, <1>3 DEF Next

\* A link that was verified is gone for good: its name was given by a request
\* that is over (TempLinkDBService.createTempLink, deleteTempLink).
THEOREM LinksInductive == Spec => []LinkInv
<1> QED BY InitLinks, StepLinks, AccountsInductive, PTL DEF Spec, Init

\* Of any number of verifications that saw one link's code match, one succeeds
\* (VerifyOTP.execute).
THEOREM VerifiedOnlyOnce == Spec => []VerifiedOnce
<1>1. LinkInv => VerifiedOnce
  BY DEF LinkInv
<1> QED BY <1>1, LinksInductive, PTL

-----------------------------------------------------------------------------
\* A merchant's wallets have one phone; and two wallets that hold have the same
\* phone only if one was made for a phone that was taken by then.
OwnPhones   == \A a, b \in Addresses :
                 wallet[a].type = "merchant" /\ wallet[b] = wallet[a] /\ wallet[a].phone # None =>
                   a = b \/ a \in shared \/ b \in shared
SamePhones ==
  \A m \in Merchants : Exists(m) =>
    \E p \in Phones \cup {None} :
      /\ wallet[FirstOf(m)] = [type |-> "merchant", phone |-> p]
      /\ wallet[SecondOf(m)] = [type |-> "seller", phone |-> p]

PhoneInv == OwnPhones /\ SamePhones

\* In the beginning there is one merchant.
LEMMA InitPhones == Init => PhoneInv
<1> SUFFICES ASSUME Init PROVE PhoneInv
  OBVIOUS
<1>1. PICK u \in Users, p \in Phones :
        /\ wallet = [a \in Addresses |->
                       CASE a = <<u, 1>> -> [type |-> "merchant", phone |-> p]
                         [] a = <<u, 2>> -> [type |-> "seller", phone |-> p]
                         [] OTHER        -> NoRow]
        /\ merchant = [m \in Merchants |->
                         IF m = Old THEN [user |-> u, index |-> 1] ELSE NoMerchant]
  BY DEF Init, MerchantInit
<1>2. <<u, 1>> \in Addresses /\ <<u, 2>> \in Addresses
  BY Limits DEF Addresses, Indices
<1>3. /\ \A a \in Addresses : wallet[a] =
           IF a = <<u, 1>> THEN [type |-> "merchant", phone |-> p]
           ELSE IF a = <<u, 2>> THEN [type |-> "seller", phone |-> p] ELSE NoRow
      /\ wallet[<<u, 1>>] = [type |-> "merchant", phone |-> p]
      /\ wallet[<<u, 2>>] = [type |-> "seller", phone |-> p]
  BY <1>1, <1>2
<1>4. OwnPhones
  BY <1>3 DEF OwnPhones, NoRow
<1>5. SamePhones
  <2>1. \A m \in Merchants : Exists(m) => merchant[m] = [user |-> u, index |-> 1]
    BY <1>1 DEF Exists
  <2> QED BY <1>3, <2>1 DEF SamePhones, FirstOf, SecondOf
<1> QED BY <1>4, <1>5 DEF PhoneInv

\* Where a merchant's wallets are.
LEMMA HomeWallets ==
  ASSUME AccountInv, NEW m \in Merchants, Exists(m)
  PROVE  /\ FirstOf(m) \in Addresses /\ SecondOf(m) \in Addresses
         /\ given[FirstOf(m)] = {m}
BY DEF AccountInv, MerchantTypeOK, HomeInv, Exists, Merchant, Addresses, FirstOf, SecondOf

\* A step that writes no wallet and no merchant keeps the phones apart.
LEMMA PhonesKept ==
  ASSUME PhoneInv, UNCHANGED <<wallet, merchant, shared>>
  PROVE  PhoneInv'
BY DEF PhoneInv, OwnPhones, SamePhones, Exists, FirstOf, SecondOf

\* The two new wallets have a phone no other wallet has, or one is shared.
LEMMA PhoneTaken ==
  ASSUME AccountInv, PhoneInv, NEW r \in Requests, pc[r] = "createMerchant",
         AddressesFree(r), InsertAll(r)
  PROVE  PhoneInv'
<1> DEFINE p == req[r].phone  u == req[r].user  i == req[r].index
           New == [type |-> "merchant", phone |-> p]
           NewSeller == [type |-> "seller", phone |-> p]
<1>1. /\ u \in Users /\ i \in Nat /\ p \in Phones \cup {None}
      /\ First(r) = <<u, i>> /\ Second(r) = <<u, i + 1>>
      /\ First(r) \in Addresses /\ Second(r) \in Addresses /\ First(r) # Second(r)
      /\ wallet[First(r)] = NoRow /\ wallet[Second(r)] = NoRow
      /\ ~Exists(r) /\ r \in Merchants
  <2>1. MayInsert(r) /\ ~Exists(r) /\ First(r) \in Addresses /\ Second(r) \in Addresses
    BY IndexIsCurrent
  <2>2. u \in Users /\ i \in Nat /\ p \in Phones \cup {None}
    BY <2>1, Limits DEF MayInsert, Indices
  <2> QED BY <2>1, <2>2 DEF First, Second, AddressesFree, Merchants
<1>3. /\ \A a \in Addresses : wallet'[a] =
           IF a = First(r) THEN New ELSE IF a = Second(r) THEN NewSeller ELSE wallet[a]
      /\ \A m \in Merchants : merchant'[m] =
           IF m = r THEN [user |-> u, index |-> i] ELSE merchant[m]
  <2>1. DOMAIN wallet = Addresses /\ DOMAIN merchant = Merchants
    BY DEF AccountInv, MerchantTypeOK
  <2> QED BY <1>1, <2>1 DEF InsertAll, InsertWallets, InsertMerchant
<1>4. /\ shared \subseteq shared'
      /\ \/ First(r) \in shared'
         \/ p # None => \A a \in Addresses : wallet[a] # New
  BY DEF InsertAll, PhoneFree
<1> HIDE DEF New, NewSeller
<1>5. New.type = "merchant" /\ NewSeller.type = "seller" /\ New.phone = p /\ NewSeller.phone = p
  BY DEF New, NewSeller
<1>6. \A a \in Addresses : a \in {First(r), Second(r)} => wallet[a].type = "none"
  BY <1>1 DEF NoRow
<1>7. OwnPhones'
  <2> SUFFICES ASSUME NEW a \in Addresses, NEW b \in Addresses, wallet'[a].type = "merchant",
                      wallet'[b] = wallet'[a], wallet'[a].phone # None
               PROVE  a = b \/ a \in shared' \/ b \in shared'
    BY DEF OwnPhones
  <2>1. a # Second(r) /\ b # Second(r)
    BY <1>1, <1>3, <1>5
  <2>2. CASE a # First(r) /\ b # First(r)
    BY <1>3, <1>4, <2>1, <2>2 DEF PhoneInv, OwnPhones
  <2>3. CASE a = First(r) /\ b # First(r)
    BY <1>1, <1>3, <1>4, <1>5, <2>1, <2>3
  <2>4. CASE a # First(r) /\ b = First(r)
    BY <1>1, <1>3, <1>4, <1>5, <2>1, <2>4
  <2> QED BY <2>2, <2>3, <2>4
<1>8. SamePhones'
  <2> SUFFICES ASSUME NEW m \in Merchants, Exists(m)'
               PROVE  \E x \in Phones \cup {None} :
                        /\ wallet'[FirstOf(m)'] = [type |-> "merchant", phone |-> x]
                        /\ wallet'[SecondOf(m)'] = [type |-> "seller", phone |-> x]
    BY DEF SamePhones
  <2>1. CASE m = r
    <3>1. merchant'[r] = [user |-> u, index |-> i]
      BY <1>1, <1>3
    <3>2. FirstOf(m)' = First(r) /\ SecondOf(m)' = Second(r)
      BY <1>1, <2>1, <3>1 DEF FirstOf, SecondOf
    <3>3. wallet'[First(r)] = New /\ wallet'[Second(r)] = NewSeller
      BY <1>1, <1>3
    <3> QED BY <1>1, <3>2, <3>3 DEF New, NewSeller
  <2>2. CASE m # r
    <3>1. Exists(m) /\ FirstOf(m)' = FirstOf(m) /\ SecondOf(m)' = SecondOf(m)
      BY <1>3, <2>2 DEF Exists, FirstOf, SecondOf
    <3>2. PICK x \in Phones \cup {None} :
            /\ wallet[FirstOf(m)] = [type |-> "merchant", phone |-> x]
            /\ wallet[SecondOf(m)] = [type |-> "seller", phone |-> x]
      BY <3>1 DEF PhoneInv, SamePhones
    <3>3. FirstOf(m) \in Addresses /\ SecondOf(m) \in Addresses
      BY <3>1, HomeWallets
    <3>4. wallet'[FirstOf(m)] = wallet[FirstOf(m)] /\ wallet'[SecondOf(m)] = wallet[SecondOf(m)]
      BY <1>3, <1>6, <3>2, <3>3
    <3> QED BY <3>1, <3>2, <3>4
  <2> QED BY <2>1, <2>2
<1> QED BY <1>7, <1>8 DEF PhoneInv

\* A deletion takes a wallet that holds, and its merchant.
LEMMA PhoneGone ==
  ASSUME AccountInv, PhoneInv, NEW m \in Merchants, Exists(m), UNCHANGED shared,
         wallet' = [a \in Addresses |->
                      IF a \in WalletsToDelete(m) THEN NoRow ELSE wallet[a]],
         merchant' = [merchant EXCEPT ![m] = NoMerchant]
  PROVE  PhoneInv'
<1>1. WalletsToDelete(m) = {FirstOf(m)} /\ FirstOf(m) \in Addresses /\ given[FirstOf(m)] = {m}
  BY HomeWallets DEF WalletsToDelete, FirstOf
<1>2. \A a \in Addresses : wallet'[a] = IF a = FirstOf(m) THEN NoRow ELSE wallet[a]
  BY <1>1
<1>3. OwnPhones'
  BY <1>2 DEF PhoneInv, OwnPhones, NoRow
<1>4. SamePhones'
  <2> SUFFICES ASSUME NEW n \in Merchants, Exists(n)'
               PROVE  \E x \in Phones \cup {None} :
                        /\ wallet'[FirstOf(n)'] = [type |-> "merchant", phone |-> x]
                        /\ wallet'[SecondOf(n)'] = [type |-> "seller", phone |-> x]
    BY DEF SamePhones
  <2>1. n # m /\ Exists(n) /\ FirstOf(n)' = FirstOf(n) /\ SecondOf(n)' = SecondOf(n)
    BY DEF AccountInv, MerchantTypeOK, Exists, FirstOf, SecondOf
  <2>2. PICK x \in Phones \cup {None} :
          /\ wallet[FirstOf(n)] = [type |-> "merchant", phone |-> x]
          /\ wallet[SecondOf(n)] = [type |-> "seller", phone |-> x]
    BY <2>1 DEF PhoneInv, SamePhones
  <2>3. FirstOf(n) \in Addresses /\ SecondOf(n) \in Addresses /\ given[FirstOf(n)] = {n}
    BY <2>1, HomeWallets
  <2>4. FirstOf(n) # FirstOf(m)
    BY <1>1, <2>1, <2>3
  <2>5. SecondOf(n) # FirstOf(m)
    <3>1. PICK y \in Phones \cup {None} : wallet[FirstOf(m)] = [type |-> "merchant", phone |-> y]
      BY DEF PhoneInv, SamePhones
    <3> QED BY <2>2, <3>1
  <2> QED BY <1>2, <2>1, <2>2, <2>3, <2>4, <2>5
<1> QED BY <1>3, <1>4 DEF PhoneInv

\* Every step keeps the phones apart.
LEMMA StepPhones == AccountInv /\ PhoneInv /\ [Next]_vars => PhoneInv'
<1> SUFFICES ASSUME AccountInv, PhoneInv, [Next]_vars PROVE PhoneInv'
  OBVIOUS
<1>1. ASSUME NEW r \in Requests, MerchantStep(r) PROVE PhoneInv'
  <2> USE DEF At, merchantRows
  <2>1. ASSUME NEW u \in Users, Register(r, u) PROVE PhoneInv'
    BY <2>1, PhonesKept DEF Register
  <2>2. CASE CommitUser(r)
    BY <2>2, PhonesKept DEF CommitUser
  <2>3. ASSUME NEW u \in Users, NEW p \in Phones \cup {None}, CreateMerchant(r, u, p)
        PROVE  PhoneInv'
    BY <2>3, PhonesKept DEF CreateMerchant
  <2>4. CASE CommitMerchant(r)
    <3>1. CASE AddressesFree(r) /\ InsertAll(r)
      BY <2>4, <3>1, PhoneTaken DEF CommitMerchant
    <3>2. CASE UNCHANGED <<next, wallet, merchant, key, given, shared>>
      BY <3>2, PhonesKept
    <3> QED BY <2>4, <3>1, <3>2 DEF CommitMerchant, Persist
  <2>5. CASE AdmitMerchant(r) \/ AdmitSeller(r)
    BY <2>5, PhonesKept DEF AdmitMerchant, AdmitSeller
  <2>6. ASSUME NEW m \in Merchants, DeleteMerchant(r, m) PROVE PhoneInv'
    BY <2>6, PhonesKept DEF DeleteMerchant
  <2>7. CASE CommitDeletion(r)
    <3>1. req[r].merchant \in Merchants
      BY <2>7 DEF CommitDeletion, AccountInv, RequestInv
    <3>2. CASE UNCHANGED <<wallet, merchant, key>>
      BY <2>7, <3>2, PhonesKept DEF CommitDeletion
    <3>3. CASE ~UNCHANGED <<wallet, merchant, key>>
      BY <2>7, <3>1, <3>3, PhoneGone DEF CommitDeletion
    <3> QED BY <3>2, <3>3
  <2> QED BY <1>1, <2>1, <2>2, <2>3, <2>4, <2>5, <2>6, <2>7 DEF MerchantStep
<1>2. ASSUME UNCHANGED merchantRows PROVE PhoneInv'
  BY <1>2, PhonesKept DEF merchantRows
<1>3. CASE Tick \/ UNCHANGED vars
  BY <1>2, <1>3 DEF Tick, vars
<1> QED BY <1>1, <1>2, <1>3 DEF Next

\* Two merchants that live have the same phone only if both found it free while
\* they were created (CreateMerchant.execute, DeleteMerchant.execute).
THEOREM PhonesInductive == Spec => []PhoneInv
<1> QED BY InitPhones, StepPhones, AccountsInductive, PTL DEF Spec

\* The seller's wallet of a merchant is looked for by an index and a phone: its
\* own is found, and of other living merchants' wallets only those that share a
\* phone through creations that overlapped, or have none
\* (WalletDBService.getSellerWalletByMerchantId).
THEOREM SellersFindTheirWallet == Spec => []SellerWalletIsOwn
<1>1. AccountInv /\ PhoneInv => SellerWalletIsOwn
  <2> SUFFICES ASSUME AccountInv, PhoneInv, NEW m \in Merchants, Exists(m)
               PROVE  /\ SecondOf(m) \in SellerWallets(m)
                      /\ wallet[FirstOf(m)].phone # None =>
                           \A n \in Merchants : Exists(n) /\ SecondOf(n) \in SellerWallets(m) =>
                             n = m \/ {FirstOf(m), FirstOf(n)} \cap shared # {}
    BY DEF SellerWalletIsOwn
  <2>1. PICK p \in Phones \cup {None} :
          /\ wallet[FirstOf(m)] = [type |-> "merchant", phone |-> p]
          /\ wallet[SecondOf(m)] = [type |-> "seller", phone |-> p]
    BY DEF PhoneInv, SamePhones
  <2>2. SellerWallets(m) = {a \in Addresses : /\ a[2] = merchant[m].index + 1
                                              /\ wallet[a] = [type |-> "seller", phone |-> p]}
    BY <2>1 DEF SellerWallets, FirstOf
  <2>3. SecondOf(m) \in SellerWallets(m)
    BY <2>1, <2>2, HomeWallets DEF SecondOf
  <2>4. ASSUME NEW n \in Merchants, Exists(n), SecondOf(n) \in SellerWallets(m), p # None
        PROVE  n = m \/ {FirstOf(m), FirstOf(n)} \cap shared # {}
    <3>1. PICK q \in Phones \cup {None} :
            /\ wallet[FirstOf(n)] = [type |-> "merchant", phone |-> q]
            /\ wallet[SecondOf(n)] = [type |-> "seller", phone |-> q]
      BY <2>4 DEF PhoneInv, SamePhones
    <3>2. p = q
      BY <2>2, <2>4, <3>1
    <3>3. FirstOf(m) = FirstOf(n) \/ FirstOf(m) \in shared \/ FirstOf(n) \in shared
      BY <2>1, <2>4, <3>1, <3>2, HomeWallets DEF PhoneInv, OwnPhones
    <3>4. FirstOf(m) = FirstOf(n) => m = n
      BY <2>4, HomeWallets
    <3> QED BY <3>3, <3>4
  <2> QED BY <2>1, <2>3, <2>4
<1> QED BY <1>1, AccountsInductive, PhonesInductive, PTL

-----------------------------------------------------------------------------
\* What a request asks for and has read, at each place where it may stand.
Places == {"idle", "done"} \cup MerchantPlaces \cup LinkPlaces \cup CustomerPlaces

Asks(place, x) ==
  /\ place \in Places
  /\ place \in {"idle", "done"} => x = None
  /\ place = "register" => x \in [user: Users]
  /\ place \in {"createMerchant", "whitelist", "whitelistSeller"} =>
       x \in [user: Users, phone: Phones \cup {None}, index: Indices]
  /\ place \in {"deleteMerchant", "devLink"} => x \in [merchant: Merchants]
  /\ place \in {"lookup", "addLink"} => x \in [phone: Phones]
  /\ place \in {"refresh", "otp", "sendOtp"} => x \in [phone: Phones, link: Makers, uid: Nat]
  /\ place \in {"resend", "sendAgain"} =>
       x \in [phone: Phones \cup {None}, link: Makers, uid: Nat]
  /\ place = "verify" => x \in [phone: Phones, link: Makers, uid: Nat, code: Requests]
  /\ place = "extend" => x \in [link: Makers, uid: Nat, expire: Nat, given: BOOLEAN]
  /\ place = "dropLink" => x \in [link: Makers, uid: Nat]
  /\ place \in {"find", "insert"} =>
       x \in [merchant: Merchants, phone: Phones, email: Emails, id: Makers \cup {None}]
  /\ place = "join" => x \in [merchant: Merchants, phone: Phones, email: Emails, id: Makers]
  /\ place = "clear" => x \in [phone: Phones, id: Makers]

Everyone == req = [r \in Requests |-> req[r]] /\ pc = [r \in Requests |-> pc[r]]

RequestShape ==
  /\ Everyone
  /\ \A r \in Requests : Asks(pc[r], req[r])

\* The rows of links have their types, and one of them is the newest.
Ages == \E n \in Nat : \A l \in Makers : link[l].at <= n
LinkTypes ==
  /\ link \in [Makers -> Link \cup {NoLink}]
  /\ told \in [Requests -> Phones \cup {None}]
  /\ crossed \subseteq Requests
  /\ promised \in [Makers -> Nat]
  /\ verified \subseteq [by: Requests, link: Makers, phone: Phones, code: Requests]
  /\ now \in 0 .. MaxTime
  /\ Ages

CustomerTypes ==
  /\ customer \in [Makers -> Customer \cup {NoCustomer}]
  /\ custWallet \subseteq Makers
  /\ joined \subseteq [id: Makers, merchant: Merchants, by: Makers]
  /\ cleared \subseteq Makers
  /\ sender \in [Requests -> Senders]

ShapeInv == RequestShape /\ LinkTypes /\ CustomerTypes

\* A customer that is there, or is associated, was made by a request that is
\* over; and polite partners' requests come one at a time.
Joining(r) == pc[r] \in {"find", "join", "insert"}
MadeBefore ==
  /\ \A i \in Makers : customer[i] # NoCustomer => MadeOnce(i)
  /\ \A j \in joined : MadeOnce(j.id)
OneJoins   == \A q, r \in Requests : Joining(q) /\ Joining(r) => q = r
NotYet     == \A r \in Requests :
                pc[r] = "join" => ~Associated(req[r].id, req[r].merchant)

CustomerInv ==
  /\ CustomersOwnTheirWallets
  /\ MadeBefore
  /\ polite => OneJoins /\ NotYet /\ RegisteredOnce

\* A code is stored before it is told, and told by the last step of its
\* request; what is promised is never beyond the life of a link.
ToldIsOver   == \A q \in Requests : told[q] # None => pc[q] = "done"
PromisesFit  == \A l \in Makers : promised[l] <= now + Life /\ (promised[l] # 0 => MadeOnce(l))
ReadWasMade  == \A r \in Requests : pc[r] \in {"resend", "extend"} => MadeOnce(req[r].link)

\* The phone in whose name a code is told, or will be; and whether that may be
\* the phone p.
Stored(q)  == pc[q] \in {"sendOtp", "sendAgain", "done"}
For(q)     == IF pc[q] \in {"sendOtp", "sendAgain"} THEN req[q].phone ELSE told[q]
Fits(q, p) == q \in Requests /\ Stored(q) /\ (q \in crossed \/ For(q) \in {None, p})

\* So it is with the code in a link, one that was seen to match, and one that
\* has verified.
LinksFit    == \A l \in Makers : Lives(l) /\ link[l].otp \in Requests => Fits(link[l].otp, link[l].phone)
SeenFit     == \A r \in Requests : pc[r] = "verify" => Fits(req[r].code, req[r].phone)
VerifiedFit == \A v \in verified : Fits(v.code, v.phone)
CodesFit    == LinksFit /\ SeenFit /\ VerifiedFit

Writing(r) == pc[r] \in {"otp", "sendOtp", "resend", "sendAgain", "extend"}
OneWrites  == \A q, r \in Requests : Writing(q) /\ Writing(r) => q = r

\* Among polite clients nobody changes the phone or the end of a link behind
\* the back of a request that has read it.
PhoneIsRead == \A r \in Requests :
  pc[r] = "resend" /\ Lives(req[r].link) => link[req[r].link].phone = req[r].phone
EndIsRead   == \A r \in Requests :
  pc[r] = "extend" => req[r].given \/ promised[req[r].link] <= req[r].expire

PoliteInv ==
  /\ OneWrites /\ PhoneIsRead /\ EndIsRead /\ crossed = {}
  /\ \A l \in Makers : Lives(l) => promised[l] <= link[l].expire

OtpInv ==
  /\ ToldIsOver /\ PromisesFit /\ ReadWasMade /\ CodesFit
  /\ polite => PoliteInv

-----------------------------------------------------------------------------
\* A set of numbers that is not empty has a least one.
LEMMA LeastNumber ==
  ASSUME NEW N, N \subseteq Nat, N # {}
  PROVE  \E n \in N : \A k \in N : n <= k
<1>1. PICK n \in N : \A k \in N : <<k, n>> \notin OpToRel(<, Nat)
  BY NatLessThanWellFounded, WFMin
<1>2. \A k \in N : ~(k < n)
  BY <1>1 DEF OpToRel
<1> QED BY <1>2

\* There is a newest link, if there is any.
LEMMA NewestIsThere ==
  ASSUME LinkTypes
  PROVE  Newest \in Nat /\ \A l \in Makers : link[l].at <= Newest
<1> DEFINE Ats == {0} \cup {link[l].at : l \in Makers}
           Tops == {k \in Nat : \A b \in Ats : b <= k}
<1>1. \A l \in Makers : link[l].at \in Nat
  BY DEF LinkTypes, Link, NoLink
<1>2. Ats \subseteq Nat
  BY <1>1
<1>3. PICK n \in Nat : \A l \in Makers : link[l].at <= n
  BY DEF LinkTypes, Ages
<1>4. n \in Tops
  BY <1>3
<1>5. PICK m \in Tops : \A k \in Tops : m <= k
  BY <1>4, LeastNumber
<1>6. m \in Nat /\ \A b \in Ats : b <= m
  OBVIOUS
<1>7. m \in Ats
  <2> SUFFICES ASSUME m \notin Ats PROVE FALSE
    OBVIOUS
  <2>1. m - 1 \in Nat /\ \A b \in Ats : b <= m - 1
    BY <1>2, <1>6
  <2>2. m - 1 \in Tops
    BY <2>1
  <2> QED BY <1>5, <1>6, <2>1, <2>2
<1>8. Newest \in Ats /\ \A b \in Ats : b <= Newest
  BY <1>6, <1>7 DEF Newest
<1> QED BY <1>2, <1>8

-----------------------------------------------------------------------------
\* A step of r moves r, and its arguments with it.
Moves(r) ==
  /\ Everyone'
  /\ Asks(pc'[r], req'[r])
  /\ \A q \in Requests \ {r} : pc'[q] = pc[q] /\ req'[q] = req[q]

\* A step that moves r leaves every request in its shape.
LEMMA ShapeKept ==
  ASSUME RequestShape, NEW r \in Requests, Moves(r)
  PROVE  RequestShape'
BY DEF RequestShape, Moves

\* A request that starts comes with its arguments, and one that ends forgets
\* them.
LEMMA Starting ==
  ASSUME RequestShape, NEW r \in Requests, NEW place, NEW x, Start(r, place, x), Asks(place, x)
  PROVE  Moves(r) /\ pc[r] = "idle" /\ pc'[r] = place /\ req'[r] = x
BY DEF RequestShape, Moves, Everyone, Start, Goto

\* A request that ends forgets its arguments.
LEMMA Finishing ==
  ASSUME RequestShape, NEW r \in Requests, Finish(r)
  PROVE  Moves(r) /\ pc'[r] = "done" /\ req'[r] = None
BY DEF RequestShape, Moves, Everyone, Finish, Goto, Asks, Places

\* A request that goes on keeps them.
LEMMA Going ==
  ASSUME RequestShape, NEW r \in Requests, NEW place, Goto(r, place), UNCHANGED req,
         Asks(place, req[r])
  PROVE  Moves(r) /\ pc'[r] = place /\ req'[r] = req[r]
BY DEF RequestShape, Moves, Everyone, Goto

\* The handlers of users and merchants.
LEMMA MerchantMoves ==
  ASSUME AccountInv, RequestShape, NEW r \in Requests, MerchantStep(r)
  PROVE  Moves(r)
<1> USE DEF At
<1>0. Asks(pc[r], req[r])
  BY DEF RequestShape
<1>1. ASSUME NEW u \in Users, Register(r, u) PROVE Moves(r)
  <2>1. Asks("register", [user |-> u])
    BY DEF Asks, Places, MerchantPlaces
  <2> QED BY <1>1, <2>1, Starting DEF Register
<1>2. CASE CommitUser(r) \/ AdmitSeller(r) \/ CommitDeletion(r)
  BY <1>2, Finishing DEF CommitUser, AdmitSeller, CommitDeletion
<1>3. ASSUME NEW u \in Users, NEW p \in Phones \cup {None}, CreateMerchant(r, u, p)
      PROVE  Moves(r)
  <2>1. next[u] \in Indices
    BY <1>3, Limits DEF CreateMerchant, AccountInv, MerchantTypeOK, Indices
  <2>2. Asks("createMerchant", [user |-> u, phone |-> p, index |-> next[u]])
    BY <2>1 DEF Asks, Places, MerchantPlaces
  <2> QED BY <1>3, <2>2, Starting DEF CreateMerchant
<1>4. CASE CommitMerchant(r)
  <2>1. Asks("whitelist", req[r])
    BY <1>0, <1>4 DEF CommitMerchant, Asks, Places, MerchantPlaces
  <2> QED BY <1>4, <2>1, Finishing, Going DEF CommitMerchant, Persist
<1>5. CASE AdmitMerchant(r)
  <2>1. Asks("whitelistSeller", req[r])
    BY <1>0, <1>5 DEF AdmitMerchant, Asks, Places, MerchantPlaces
  <2> QED BY <1>5, <2>1, Finishing, Going DEF AdmitMerchant
<1>6. ASSUME NEW m \in Merchants, DeleteMerchant(r, m) PROVE Moves(r)
  <2>1. Asks("deleteMerchant", [merchant |-> m])
    BY DEF Asks, Places, MerchantPlaces
  <2> QED BY <1>6, <2>1, Starting DEF DeleteMerchant
<1> QED BY <1>1, <1>2, <1>3, <1>4, <1>5, <1>6 DEF MerchantStep

\* The handlers of links.
LEMMA LinkMoves ==
  ASSUME RequestShape, LinkTypes, NEW r \in Requests, LinkStep(r)
  PROVE  Moves(r)
<1> USE DEF At, Fail
<1>0. Asks(pc[r], req[r])
  BY DEF RequestShape
<1>a. ASSUME NEW l \in Makers, Lives(l)
      PROVE  link[l] \in Link
  BY <1>a DEF LinkTypes, Lives
<1>b. \A p : NewestOf(p) \subseteq Makers /\ \A l \in NewestOf(p) : Lives(l) /\ link[l].phone = p
  BY DEF NewestOf, LinksOf
<1>1. ASSUME NEW p \in Phones, GetCustomerByPhone(r, p) PROVE Moves(r)
  <2>1. Asks("lookup", [phone |-> p])
    BY DEF Asks, Places, LinkPlaces
  <2> QED BY <1>1, <2>1, Starting DEF GetCustomerByPhone
<1>2. ASSUME NEW l \in Makers, NEW p \in Phones, CreateOTP(r, l, p) PROVE Moves(r)
  <2>1. link[l] \in Link
    BY <1>2, <1>a DEF CreateOTP
  <2>2. Asks("otp", [phone |-> p, link |-> l, uid |-> link[l].uid])
    BY <2>1 DEF Link, Asks, Places, LinkPlaces
  <2> QED BY <1>2, <2>2, Starting DEF CreateOTP
<1>3. ASSUME NEW l \in Makers, ReSendOTP(r, l) PROVE Moves(r)
  <2>1. link[l] \in Link
    BY <1>3, <1>a DEF ReSendOTP
  <2>2. Asks("resend", [phone |-> link[l].phone, link |-> l, uid |-> link[l].uid])
    BY <2>1 DEF Link, Asks, Places, LinkPlaces
  <2> QED BY <1>3, <2>2, Starting DEF ReSendOTP
<1>4. ASSUME NEW p \in Phones, NEW code \in Requests, VerifyOTP(r, p, code) PROVE Moves(r)
  <2>1. PICK l \in NewestOf(p) :
          Start(r, "verify", [phone |-> p, link |-> l, uid |-> link[l].uid, code |-> code])
    BY <1>4 DEF VerifyOTP
  <2>2. l \in Makers /\ link[l] \in Link
    BY <1>a, <1>b
  <2>3. Asks("verify", [phone |-> p, link |-> l, uid |-> link[l].uid, code |-> code])
    BY <2>2 DEF Link, Asks, Places, LinkPlaces
  <2> QED BY <2>1, <2>3, Starting
<1>5. ASSUME NEW l \in Makers, NEW e \in Dates \cup {None}, UpdateTempLink(r, l, e)
      PROVE  Moves(r)
  <2> DEFINE d == IF e = None THEN link[l].expire ELSE e
  <2>1. link[l] \in Link
    BY <1>5, <1>a DEF UpdateTempLink
  <2>2. d \in Nat
    BY <2>1, TimeNat DEF Link, Dates, Life
  <2>3. (e # None) \in BOOLEAN
    OBVIOUS
  <2> HIDE DEF d
  <2>4. Asks("extend", [link |-> l, uid |-> link[l].uid, given |-> e # None, expire |-> d])
    BY <2>1, <2>2, <2>3 DEF Link, Asks, Places, LinkPlaces
  <2> QED BY <1>5, <2>4, Starting DEF UpdateTempLink, d
<1>6. ASSUME NEW l \in Makers, DeleteTempLink(r, l) PROVE Moves(r)
  <2>1. link[l] \in Link
    BY <1>6, <1>a DEF DeleteTempLink
  <2>2. Asks("dropLink", [link |-> l, uid |-> link[l].uid])
    BY <2>1 DEF Link, Asks, Places, LinkPlaces
  <2> QED BY <1>6, <2>2, Starting DEF DeleteTempLink
<1>7. ASSUME NEW m \in Merchants, RegisterCustomerDev(r, m) PROVE Moves(r)
  <2>1. Asks("devLink", [merchant |-> m])
    BY DEF Asks, Places, LinkPlaces
  <2> QED BY <1>7, <2>1, Starting DEF RegisterCustomerDev
<1>8. CASE LookForLink(r)
  <2>1. req[r] \in [phone: Phones]
    BY <1>0, <1>8 DEF LookForLink, Asks
  <2>2. Asks("addLink", req[r])
    BY <2>1 DEF Asks, Places, LinkPlaces
  <2>3. ASSUME NEW l \in NewestOf(req[r].phone), Goto(r, "refresh"),
               req' = [req EXCEPT ![r] = [phone |-> req[r].phone, link |-> l, uid |-> link[l].uid]]
        PROVE  Moves(r)
    <3>1. l \in Makers /\ link[l] \in Link
      BY <1>a, <1>b
    <3>2. Asks("refresh", [phone |-> req[r].phone, link |-> l, uid |-> link[l].uid])
      BY <2>1, <3>1 DEF Link, Asks, Places, LinkPlaces
    <3> QED BY <2>3, <3>2 DEF Moves, Goto, RequestShape, Everyone
  <2> QED BY <1>8, <2>2, <2>3, Going, Finishing DEF LookForLink
<1>9. CASE StoreOTP(r)
  <2>1. Asks("sendOtp", req[r])
    BY <1>0, <1>9 DEF StoreOTP, Asks, Places, LinkPlaces
  <2> QED BY <1>9, <2>1, Going, Finishing DEF StoreOTP
<1>10. CASE StoreNewOTP(r)
  <2>1. Asks("sendAgain", req[r])
    BY <1>0, <1>10 DEF StoreNewOTP, Asks, Places, LinkPlaces
  <2> QED BY <1>10, <2>1, Going, Finishing DEF StoreNewOTP
<1>11. CASE \/ RefreshLink(r) \/ NewLinkForPhone(r) \/ SendOTP(r) \/ SendAgain(r)
            \/ DeleteVerified(r) \/ Extend(r) \/ DropLink(r) \/ DevLink(r)
            \/ \E p \in Phones, e \in Dates : CreateTempLink(r, p, e)
  BY <1>11, Finishing DEF RefreshLink, NewLinkForPhone, SendOTP, SendAgain, DeleteVerified,
     Extend, DropLink, DevLink, CreateTempLink
<1> QED BY <1>1, <1>2, <1>3, <1>4, <1>5, <1>6, <1>7, <1>8, <1>9, <1>10, <1>11 DEF LinkStep

\* The handlers of customers.
LEMMA CustomerMoves ==
  ASSUME RequestShape, NEW r \in Requests, CustomerStep(r)
  PROVE  Moves(r)
<1> USE DEF At
<1>0. Asks(pc[r], req[r])
  BY DEF RequestShape
<1>1. ASSUME NEW m \in Merchants, NEW p \in Phones, NEW e \in Emails, CreateCustomer(r, m, p, e)
      PROVE  Moves(r)
  <2>1. Asks("find", [merchant |-> m, phone |-> p, email |-> e, id |-> None])
    BY DEF Asks, Places, CustomerPlaces
  <2> QED BY <1>1, <2>1, Starting DEF CreateCustomer
<1>2. ASSUME NEW p \in Phones, ClearCustomerByPhone(r, p) PROVE Moves(r)
  <2>1. PICK i \in CustomersWith(p) : Start(r, "clear", [phone |-> p, id |-> i])
    BY <1>2 DEF ClearCustomerByPhone
  <2>2. Asks("clear", [phone |-> p, id |-> i])
    BY DEF CustomersWith, Asks, Places, CustomerPlaces
  <2> QED BY <2>1, <2>2, Starting
<1>3. CASE FindCustomer(r)
  <2>1. req[r] \in [merchant: Merchants, phone: Phones, email: Emails, id: Makers \cup {None}]
    BY <1>0, <1>3 DEF FindCustomer, Asks
  <2>2. Asks("insert", req[r])
    BY <2>1 DEF Asks, Places, CustomerPlaces
  <2>3. ASSUME NEW i \in Makers, Goto(r, "join"), req' = [req EXCEPT ![r].id = i]
        PROVE  Moves(r)
    <3>1. req'[r] = [merchant |-> req[r].merchant, phone |-> req[r].phone,
                     email |-> req[r].email, id |-> i]
      BY <2>1, <2>3 DEF RequestShape, Everyone
    <3>2. Asks("join", req'[r])
      BY <2>1, <3>1 DEF Asks, Places, CustomerPlaces
    <3> QED BY <2>3, <3>2 DEF Moves, Goto, RequestShape, Everyone
  <2> QED BY <1>3, <2>2, <2>3, Going, Finishing DEF FindCustomer, CustomersBy
<1>4. CASE JoinMerchant(r) \/ InsertCustomer(r) \/ Clear(r)
  BY <1>4, Finishing DEF JoinMerchant, InsertCustomer, Clear
<1> QED BY <1>1, <1>2, <1>3, <1>4 DEF CustomerStep

-----------------------------------------------------------------------------
\* One link is written, and the others stay.
Written(l, k) ==
  /\ l \in Makers /\ link' \in [Makers -> Link \cup {NoLink}]
  /\ link'[l] = k
  /\ \A x \in Makers \ {l} : link'[x] = link[x]

\* What is in a link that is there.
LEMMA LinkRow ==
  ASSUME LinkTypes, NEW l \in Makers, Lives(l)
  PROVE  /\ link[l] \in Link
         /\ link[l].phone \in Phones \cup {None} /\ link[l].otp \in Requests \cup {None, Plain}
         /\ link[l].expire \in Nat /\ link[l].uid \in Nat /\ link[l].at \in Nat
<1>1. link[l] \in Link
  BY DEF LinkTypes, Lives
<1> QED BY <1>1 DEF Link

\* A link is made for a request (createTempLink).
LEMMA AddedRow ==
  ASSUME LinkTypes, NEW r \in Requests, NEW p \in Phones \cup {None},
         NEW code \in Requests \cup {None, Plain}, NEW e \in Nat, AddLink(r, p, code, e)
  PROVE  Written(r, [phone |-> p, otp |-> code, expire |-> e, uid |-> 1, at |-> Newest + 1])
<1> DEFINE k == [phone |-> p, otp |-> code, expire |-> e, uid |-> 1, at |-> Newest + 1]
<1>1. k \in Link
  BY NewestIsThere DEF Link
<1>2. link' = [link EXCEPT ![r] = k]
  BY DEF AddLink
<1> HIDE DEF k
<1>3. Written(r, k)
  BY <1>1, <1>2 DEF Written, LinkTypes, Makers
<1> QED BY <1>3 DEF k

\* A link is made live again under another uid (getCustomerByPhone).
LEMMA RefreshedRow ==
  ASSUME LinkTypes, NEW r \in Requests, NEW l \in Makers, Lives(l),
         link' = [link EXCEPT ![l].uid = @ + 1, ![l].expire = now + Life, ![l].otp = r]
  PROVE  Written(l, [phone |-> link[l].phone, otp |-> r, expire |-> now + Life,
                     uid |-> link[l].uid + 1, at |-> link[l].at])
<1> DEFINE k == [phone |-> link[l].phone, otp |-> r, expire |-> now + Life,
                 uid |-> link[l].uid + 1, at |-> link[l].at]
<1>1. k \in Link
  BY LinkRow, TimeNat DEF Link, LinkTypes, Life
<1>2. link'[l] = k
  BY LinkRow, Zenon DEF Link, LinkTypes
<1>3. DOMAIN link' = Makers /\ \A x \in Makers \ {l} : link'[x] = link[x]
  BY Zenon DEF LinkTypes
<1>4. link' = [x \in Makers |-> link'[x]]
  BY Zenon DEF LinkTypes
<1> HIDE DEF k
<1>5. link' \in [Makers -> Link \cup {NoLink}]
  BY <1>1, <1>2, <1>3, <1>4 DEF LinkTypes
<1> QED BY <1>2, <1>3, <1>5 DEF Written, k

\* A link is given a phone and a code (createOTP).
LEMMA CodedRow ==
  ASSUME LinkTypes, NEW r \in Requests, NEW l \in Makers, Lives(l), NEW p \in Phones,
         link' = [link EXCEPT ![l].phone = p, ![l].otp = r]
  PROVE  Written(l, [phone |-> p, otp |-> r, expire |-> link[l].expire,
                     uid |-> link[l].uid, at |-> link[l].at])
<1> DEFINE k == [phone |-> p, otp |-> r, expire |-> link[l].expire,
                 uid |-> link[l].uid, at |-> link[l].at]
<1>1. k \in Link
  BY LinkRow DEF Link
<1>2. link'[l] = k
  BY LinkRow, Zenon DEF Link, LinkTypes
<1>3. DOMAIN link' = Makers /\ \A x \in Makers \ {l} : link'[x] = link[x]
  BY Zenon DEF LinkTypes
<1>4. link' = [x \in Makers |-> link'[x]]
  BY Zenon DEF LinkTypes
<1> HIDE DEF k
<1>5. link' \in [Makers -> Link \cup {NoLink}]
  BY <1>1, <1>2, <1>3, <1>4 DEF LinkTypes
<1> QED BY <1>2, <1>3, <1>5 DEF Written, k

\* A link is given a code and another end (reSendOTP).
LEMMA RecodedRow ==
  ASSUME LinkTypes, NEW r \in Requests, NEW l \in Makers, Lives(l),
         link' = [link EXCEPT ![l].otp = r, ![l].expire = now + Life]
  PROVE  Written(l, [phone |-> link[l].phone, otp |-> r, expire |-> now + Life,
                     uid |-> link[l].uid, at |-> link[l].at])
<1> DEFINE k == [phone |-> link[l].phone, otp |-> r, expire |-> now + Life,
                 uid |-> link[l].uid, at |-> link[l].at]
<1>1. k \in Link
  BY LinkRow, TimeNat DEF Link, LinkTypes, Life
<1>2. link'[l] = k
  BY LinkRow, Zenon DEF Link, LinkTypes
<1>3. DOMAIN link' = Makers /\ \A x \in Makers \ {l} : link'[x] = link[x]
  BY Zenon DEF LinkTypes
<1>4. link' = [x \in Makers |-> link'[x]]
  BY Zenon DEF LinkTypes
<1> HIDE DEF k
<1>5. link' \in [Makers -> Link \cup {NoLink}]
  BY <1>1, <1>2, <1>3, <1>4 DEF LinkTypes
<1> QED BY <1>2, <1>3, <1>5 DEF Written, k

\* A link is given another end (updateTempLink).
LEMMA ExtendedRow ==
  ASSUME LinkTypes, NEW l \in Makers, Lives(l), NEW e \in Nat,
         link' = [link EXCEPT ![l].expire = e]
  PROVE  Written(l, [phone |-> link[l].phone, otp |-> link[l].otp, expire |-> e,
                     uid |-> link[l].uid, at |-> link[l].at])
<1> DEFINE k == [phone |-> link[l].phone, otp |-> link[l].otp, expire |-> e,
                 uid |-> link[l].uid, at |-> link[l].at]
<1>1. k \in Link
  BY LinkRow DEF Link
<1>2. link'[l] = k
  BY LinkRow, Zenon DEF Link, LinkTypes
<1>3. DOMAIN link' = Makers /\ \A x \in Makers \ {l} : link'[x] = link[x]
  BY Zenon DEF LinkTypes
<1>4. link' = [x \in Makers |-> link'[x]]
  BY Zenon DEF LinkTypes
<1> HIDE DEF k
<1>5. link' \in [Makers -> Link \cup {NoLink}]
  BY <1>1, <1>2, <1>3, <1>4 DEF LinkTypes
<1> QED BY <1>2, <1>3, <1>5 DEF Written, k

\* A link is removed.
LEMMA RemovedRow ==
  ASSUME LinkTypes, NEW l \in Makers, link' = [link EXCEPT ![l] = NoLink]
  PROVE  Written(l, NoLink)
BY DEF Written, LinkTypes

\* A step that writes one link with a row of a link's type leaves a newest one.
LEMMA AgesKept ==
  ASSUME LinkTypes, NEW l, NEW k, Written(l, k)
  PROVE  Ages'
<1>1. PICK n \in Nat : \A x \in Makers : link[x].at <= n
  BY DEF LinkTypes, Ages
<1>2. \A x \in Makers : link[x].at \in Nat /\ link'[x].at \in Nat
  BY DEF LinkTypes, Written, Link, NoLink
<1> DEFINE m == n + link'[l].at
<1>3. m \in Nat /\ \A x \in Makers : link'[x].at <= m
  BY <1>1, <1>2 DEF Written
<1> HIDE DEF m
<1> QED BY <1>3 DEF Ages

\* A step that writes one link, or none, keeps the types.
LEMMA WrittenTypes ==
  ASSUME LinkTypes, NEW l, NEW k, Written(l, k), UNCHANGED <<told, crossed, promised, verified, now>>
  PROVE  LinkTypes'
BY AgesKept DEF LinkTypes, Written

\* A step that writes nothing keeps them too.
LEMMA UnwrittenTypes ==
  ASSUME LinkTypes, UNCHANGED <<link, told, crossed, promised, verified, now>>
  PROVE  LinkTypes'
BY DEF LinkTypes, Ages

\* What the link of a request is, and what it has become.
LEMMA AskedLink ==
  ASSUME RequestShape, NEW r \in Requests,
         pc[r] \in {"refresh", "otp", "sendOtp", "resend", "sendAgain", "verify", "extend", "dropLink"}
  PROVE  req[r].link \in Makers /\ req[r].uid \in Nat
<1>1. Asks(pc[r], req[r])
  BY DEF RequestShape
<1> QED BY <1>1 DEF Asks

\* GetCustomerByPhone, when it refreshes the link it has read.
LEMMA RefreshEffect ==
  ASSUME RequestShape, LinkTypes, NEW r \in Requests, RefreshLink(r)
  PROVE  /\ pc[r] = "refresh" /\ pc'[r] = "done" /\ Moves(r)
         /\ UNCHANGED <<told, crossed, promised, verified, polite>>
         /\ \/ UNCHANGED link
            \/ \E l \in Makers : Lives(l) /\
                 Written(l, [phone |-> link[l].phone, otp |-> r, expire |-> now + Life,
                             uid |-> link[l].uid + 1, at |-> link[l].at])
<1>1. pc[r] = "refresh" /\ req[r].link \in Makers
  BY AskedLink DEF RefreshLink, At
<1> QED BY <1>1, RefreshedRow, Finishing DEF RefreshLink, Same

\* CreateOTP, when it stores the phone and the code.
LEMMA StoreEffect ==
  ASSUME RequestShape, LinkTypes, NEW r \in Requests, StoreOTP(r)
  PROVE  /\ pc[r] = "otp" /\ req[r].link \in Makers /\ req[r].phone \in Phones /\ Moves(r)
         /\ UNCHANGED <<told, crossed, promised, verified, polite>>
         /\ \/ UNCHANGED link /\ pc'[r] = "done"
            \/ LET l == req[r].link IN
               /\ Lives(l) /\ pc'[r] = "sendOtp" /\ req'[r] = req[r]
               /\ Written(l, [phone |-> req[r].phone, otp |-> r, expire |-> link[l].expire,
                              uid |-> link[l].uid, at |-> link[l].at])
<1>1. pc[r] = "otp" /\ req[r].link \in Makers
  BY AskedLink DEF StoreOTP, At
<1>2. Asks(pc[r], req[r])
  BY DEF RequestShape
<1>3. req[r].phone \in Phones
  BY <1>1, <1>2 DEF Asks
<1>4. Asks("sendOtp", req[r])
  BY <1>1, <1>2 DEF Asks, Places, LinkPlaces
<1>5. UNCHANGED <<told, crossed, promised, verified, polite>>
  BY DEF StoreOTP
<1>6. CASE Same(r) /\ StorePhoneAndCode(r) /\ Goto(r, "sendOtp") /\ UNCHANGED <<req, faults>>
  BY <1>1, <1>3, <1>4, <1>5, <1>6, CodedRow, Going DEF Same, StorePhoneAndCode
<1>7. CASE UNCHANGED link /\ Finish(r)
  BY <1>1, <1>3, <1>5, <1>7, Finishing
<1> QED BY <1>6, <1>7 DEF StoreOTP, Fail

\* ReSendOTP, when it stores the code and the end.
LEMMA StoreNewEffect ==
  ASSUME RequestShape, LinkTypes, NEW r \in Requests, StoreNewOTP(r)
  PROVE  /\ pc[r] = "resend" /\ req[r].link \in Makers /\ Moves(r)
         /\ UNCHANGED <<told, verified, polite>>
         /\ \/ UNCHANGED <<link, promised, crossed>> /\ pc'[r] = "done"
            \/ LET l == req[r].link IN
               /\ crossed' = crossed \cup {q \in {r} : link[l].phone # req[r].phone}
               /\ Lives(l) /\ pc'[r] = "sendAgain" /\ req'[r] = req[r]
               /\ promised' = [promised EXCEPT ![l] = now + Life]
               /\ Written(l, [phone |-> link[l].phone, otp |-> r, expire |-> now + Life,
                              uid |-> link[l].uid, at |-> link[l].at])
<1>1. pc[r] = "resend" /\ req[r].link \in Makers
  BY AskedLink DEF StoreNewOTP, At
<1>2. Asks("sendAgain", req[r])
  BY <1>1 DEF RequestShape, Asks, Places, LinkPlaces
<1>3. UNCHANGED <<told, verified, polite>>
  BY DEF StoreNewOTP
<1>4. CASE /\ Same(r) /\ StoreCodeAndExpiry(r) /\ Goto(r, "sendAgain") /\ UNCHANGED <<req, faults>>
           /\ promised' = [promised EXCEPT ![req[r].link] = now + Life]
           /\ crossed' = crossed \cup {q \in {r} : link[req[r].link].phone # req[r].phone}
  BY <1>1, <1>2, <1>3, <1>4, RecodedRow, Going DEF Same, StoreCodeAndExpiry
<1>5. CASE UNCHANGED <<link, promised, crossed>> /\ Finish(r)
  BY <1>1, <1>3, <1>5, Finishing
<1> QED BY <1>4, <1>5 DEF StoreNewOTP, Fail

\* CreateOTP and ReSendOTP, when they send the code.
LEMMA SendEffect ==
  ASSUME RequestShape, LinkTypes, NEW r \in Requests, SendOTP(r) \/ SendAgain(r)
  PROVE  /\ pc[r] \in {"sendOtp", "sendAgain"} /\ req[r].phone \in Phones \cup {None}
         /\ pc'[r] = "done" /\ Moves(r)
         /\ UNCHANGED <<link, crossed, promised, verified, polite>>
         /\ told' \in {told, [told EXCEPT ![r] = req[r].phone]}
<1>1. pc[r] \in {"sendOtp", "sendAgain"} /\ Asks(pc[r], req[r])
  BY DEF SendOTP, SendAgain, At, RequestShape
<1>2. req[r].phone \in Phones \cup {None}
  BY <1>1 DEF Asks
<1> QED BY <1>1, <1>2, Finishing DEF SendOTP, SendAgain, SendSms

\* UpdateTempLink, when it writes the end.
LEMMA ExtendEffect ==
  ASSUME RequestShape, LinkTypes, NEW r \in Requests, Extend(r)
  PROVE  /\ pc[r] = "extend" /\ req[r].link \in Makers /\ req[r].expire \in Nat
         /\ pc'[r] = "done" /\ Moves(r)
         /\ UNCHANGED <<told, crossed, verified, polite>>
         /\ \/ UNCHANGED <<link, promised>>
            \/ LET l == req[r].link IN
               /\ Lives(l)
               /\ promised' = IF req[r].given THEN [promised EXCEPT ![l] = 0] ELSE promised
               /\ Written(l, [phone |-> link[l].phone, otp |-> link[l].otp, expire |-> req[r].expire,
                              uid |-> link[l].uid, at |-> link[l].at])
<1>1. pc[r] = "extend" /\ req[r].link \in Makers
  BY AskedLink DEF Extend, At
<1>2. req[r].expire \in Nat
  BY <1>1 DEF RequestShape, Asks
<1>3. UNCHANGED <<told, crossed, verified, polite>> /\ pc'[r] = "done" /\ Moves(r)
  BY Finishing DEF Extend
<1> QED BY <1>1, <1>2, <1>3, ExtendedRow DEF Extend, Same

\* A link is made, by the last step of its request.
LEMMA AddEffect ==
  ASSUME RequestShape, LinkTypes, NEW r \in Requests,
         \/ NewLinkForPhone(r)
         \/ \E p \in Phones, e \in Dates : CreateTempLink(r, p, e)
         \/ DevLink(r)
  PROVE  /\ pc[r] \in {"idle", "addLink", "devLink"} /\ pc'[r] = "done" /\ Moves(r)
         /\ UNCHANGED <<told, crossed, promised, verified, polite>>
         /\ \E p \in Phones \cup {None}, code \in {r, None, Plain}, e \in Nat :
              Written(r, [phone |-> p, otp |-> code, expire |-> e, uid |-> 1, at |-> Newest + 1])
<1>1. now + Life \in Nat
  BY TimeNat DEF LinkTypes, Life
<1>2. Dates \subseteq Nat
  BY TimeNat DEF Dates, Life
<1>3. pc'[r] = "done" /\ Moves(r)
  BY Finishing DEF NewLinkForPhone, CreateTempLink, DevLink
<1>4. CASE NewLinkForPhone(r)
  <2>1. req[r].phone \in Phones
    BY <1>4 DEF NewLinkForPhone, At, RequestShape, Asks
  <2> QED BY <1>1, <1>3, <1>4, <2>1, AddedRow DEF NewLinkForPhone, At
<1>5. ASSUME NEW p \in Phones, NEW e \in Dates, CreateTempLink(r, p, e)
      PROVE  /\ pc[r] = "idle" /\ UNCHANGED <<told, crossed, promised, verified, polite>>
             /\ Written(r, [phone |-> p, otp |-> None, expire |-> e, uid |-> 1, at |-> Newest + 1])
  BY <1>2, <1>5, AddedRow DEF CreateTempLink
<1>6. CASE DevLink(r)
  BY <1>1, <1>3, <1>6, AddedRow DEF DevLink, At
<1> QED BY <1>2, <1>3, <1>4, <1>5, <1>6

\* A link is removed, or all links of a phone.
Fade == \A l \in Makers : Lives(l)' => Lives(l) /\ link'[l] = link[l]

\* DeleteTempLink, VerifyOTP and ClearCustomerByPhone, when they remove links.
LEMMA RemoveEffect ==
  ASSUME RequestShape, LinkTypes, NEW r \in Requests, DropLink(r) \/ DeleteVerified(r) \/ Clear(r)
  PROVE  /\ pc[r] \in {"dropLink", "verify", "clear"} /\ pc'[r] = "done" /\ Moves(r)
         /\ UNCHANGED <<told, crossed, promised, polite>>
         /\ link' \in [Makers -> Link \cup {NoLink}] /\ Fade
         /\ \/ UNCHANGED verified
            \/ /\ pc[r] = "verify"
               /\ req[r].link \in Makers /\ req[r].phone \in Phones /\ req[r].code \in Requests
               /\ Succeed(r)
<1>1. pc[r] \in {"dropLink", "verify", "clear"} /\ pc'[r] = "done" /\ Moves(r)
  BY Finishing DEF DropLink, DeleteVerified, Clear, At
<1>2. UNCHANGED <<told, crossed, promised, polite>>
  BY DEF DropLink, DeleteVerified, Clear
<1>3. \/ UNCHANGED verified
      \/ /\ pc[r] = "verify"
         /\ req[r].link \in Makers /\ req[r].phone \in Phones /\ req[r].code \in Requests
         /\ Succeed(r)
  <2>1. pc[r] = "verify" =>
          req[r].link \in Makers /\ req[r].phone \in Phones /\ req[r].code \in Requests
    BY DEF RequestShape, Asks
  <2> QED BY <2>1 DEF DropLink, DeleteVerified, RemoveLink, Clear, At
<1>4. \/ UNCHANGED link
      \/ link' = [link EXCEPT ![req[r].link] = NoLink]
      \/ link' = [l \in Makers |-> IF l \in LinksOf(req[r].phone) THEN NoLink ELSE link[l]]
  BY DEF DropLink, DeleteVerified, RemoveLink, Clear
<1> QED BY <1>1, <1>2, <1>3, <1>4 DEF LinkTypes, Fade, Lives

-----------------------------------------------------------------------------
\* Handlers that read links, and write none.
Reads(r) ==
  \/ \E p \in Phones : GetCustomerByPhone(r, p)
  \/ \E l \in Makers, p \in Phones : CreateOTP(r, l, p)
  \/ \E l \in Makers : ReSendOTP(r, l)
  \/ \E p \in Phones, code \in Requests : VerifyOTP(r, p, code)
  \/ \E l \in Makers, e \in Dates \cup {None} : UpdateTempLink(r, l, e)
  \/ \E l \in Makers : DeleteTempLink(r, l)
  \/ \E m \in Merchants : RegisterCustomerDev(r, m)
  \/ LookForLink(r)

\* The handlers of links and customers, by what they write.
LEMMA LinkCases ==
  ASSUME NEW r \in Requests, LinkStep(r) \/ CustomerStep(r)
  PROVE  \/ Reads(r) /\ UNCHANGED <<linkRows, customerRows, polite>>
         \/ RefreshLink(r) \/ StoreOTP(r) \/ StoreNewOTP(r) \/ SendOTP(r) \/ SendAgain(r) \/ Extend(r)
         \/ NewLinkForPhone(r) \/ (\E p \in Phones, e \in Dates : CreateTempLink(r, p, e)) \/ DevLink(r)
         \/ DropLink(r) \/ DeleteVerified(r) \/ Clear(r)
         \/ /\ \/ \E m \in Merchants, p \in Phones, e \in Emails : CreateCustomer(r, m, p, e)
               \/ \E p \in Phones : ClearCustomerByPhone(r, p)
               \/ FindCustomer(r) \/ JoinMerchant(r) \/ InsertCustomer(r)
            /\ UNCHANGED <<linkRows, polite>>
<1>1. Reads(r) => UNCHANGED <<linkRows, customerRows, polite>>
  BY DEF Reads, GetCustomerByPhone, CreateOTP, ReSendOTP, VerifyOTP, UpdateTempLink,
         DeleteTempLink, RegisterCustomerDev, LookForLink
<1>2. LinkStep(r) =>
         \/ Reads(r)
         \/ RefreshLink(r) \/ StoreOTP(r) \/ StoreNewOTP(r) \/ SendOTP(r) \/ SendAgain(r) \/ Extend(r)
         \/ NewLinkForPhone(r) \/ (\E p \in Phones, e \in Dates : CreateTempLink(r, p, e)) \/ DevLink(r)
         \/ DropLink(r) \/ DeleteVerified(r)
  BY DEF LinkStep, Reads
<1>3. CustomerStep(r) =>
        \/ Clear(r)
        \/ /\ \/ \E m \in Merchants, p \in Phones, e \in Emails : CreateCustomer(r, m, p, e)
              \/ \E p \in Phones : ClearCustomerByPhone(r, p)
              \/ FindCustomer(r) \/ JoinMerchant(r) \/ InsertCustomer(r)
           /\ UNCHANGED <<linkRows, polite>>
  BY DEF CustomerStep, CreateCustomer, ClearCustomerByPhone, FindCustomer, JoinMerchant,
         InsertCustomer
<1> QED BY <1>1, <1>2, <1>3

\* Every step leaves the rows of links with their types.
LEMMA LinkTypesKept ==
  ASSUME RequestShape, LinkTypes, NEW r \in Requests, LinkStep(r) \/ CustomerStep(r),
         UNCHANGED now
  PROVE  LinkTypes'
<1>0. now + Life \in Nat
  BY TimeNat DEF LinkTypes, Life
<1>1. CASE UNCHANGED linkRows
  BY <1>1, UnwrittenTypes DEF linkRows
<1>2. CASE RefreshLink(r)
  BY <1>2, RefreshEffect, WrittenTypes, UnwrittenTypes
<1>3. CASE StoreOTP(r)
  BY <1>3, StoreEffect, WrittenTypes, UnwrittenTypes
<1>4. CASE StoreNewOTP(r)
  <2>1. CASE UNCHANGED <<link, promised, crossed>>
    BY <1>4, <2>1, StoreNewEffect, UnwrittenTypes
  <2>2. CASE ~UNCHANGED <<link, promised, crossed>>
    <3> DEFINE l == req[r].link
               k == [phone |-> link[l].phone, otp |-> r, expire |-> now + Life,
                     uid |-> link[l].uid, at |-> link[l].at]
    <3>1. /\ UNCHANGED <<told, verified>> /\ l \in Makers /\ Written(l, k)
          /\ promised' = [promised EXCEPT ![l] = now + Life]
          /\ crossed' \subseteq crossed \cup {r}
      BY <1>4, <2>2, StoreNewEffect
    <3> HIDE DEF k
    <3>2. promised' \in [Makers -> Nat]
      BY <1>0, <3>1 DEF LinkTypes
    <3>3. Ages' /\ link' \in [Makers -> Link \cup {NoLink}]
      BY <3>1, AgesKept DEF Written
    <3> QED BY <3>1, <3>2, <3>3 DEF LinkTypes
  <2> QED BY <2>1, <2>2
<1>5. CASE SendOTP(r) \/ SendAgain(r)
  <2>1. UNCHANGED <<link, crossed, promised, verified>> /\ told' \in [Requests -> Phones \cup {None}]
    BY <1>5, SendEffect DEF LinkTypes
  <2>2. Ages'
    BY <2>1 DEF LinkTypes, Ages
  <2> QED BY <2>1, <2>2 DEF LinkTypes
<1>6. CASE Extend(r)
  <2>1. CASE UNCHANGED <<link, promised>>
    BY <1>6, <2>1, ExtendEffect, UnwrittenTypes
  <2>2. CASE ~UNCHANGED <<link, promised>>
    <3> DEFINE l == req[r].link
               k == [phone |-> link[l].phone, otp |-> link[l].otp, expire |-> req[r].expire,
                     uid |-> link[l].uid, at |-> link[l].at]
    <3>1. /\ UNCHANGED <<told, crossed, verified>> /\ l \in Makers /\ Written(l, k)
          /\ promised' \in {promised, [promised EXCEPT ![l] = 0]}
      BY <1>6, <2>2, ExtendEffect
    <3> HIDE DEF k
    <3>2. promised' \in [Makers -> Nat]
      BY <3>1 DEF LinkTypes
    <3>3. Ages' /\ link' \in [Makers -> Link \cup {NoLink}]
      BY <3>1, AgesKept DEF Written
    <3> QED BY <3>1, <3>2, <3>3 DEF LinkTypes
  <2> QED BY <2>1, <2>2
<1>7. CASE NewLinkForPhone(r) \/ (\E p \in Phones, e \in Dates : CreateTempLink(r, p, e)) \/ DevLink(r)
  BY <1>7, AddEffect, WrittenTypes
<1>8. CASE DropLink(r) \/ DeleteVerified(r) \/ Clear(r)
  <2>1. /\ UNCHANGED <<told, crossed, promised>> /\ link' \in [Makers -> Link \cup {NoLink}] /\ Fade
        /\ verified' \subseteq [by: Requests, link: Makers, phone: Phones, code: Requests]
    BY <1>8, RemoveEffect DEF LinkTypes, Succeed
  <2>2. \A l \in Makers : link'[l] = NoLink \/ link'[l] = link[l]
    BY <2>1 DEF Fade, Lives
  <2>3. Ages'
    <3>1. PICK n \in Nat : \A x \in Makers : link[x].at <= n
      BY DEF LinkTypes, Ages
    <3> QED BY <2>2, <3>1 DEF Ages, NoLink
  <2> QED BY <2>1, <2>3 DEF LinkTypes
<1> QED BY <1>1, <1>2, <1>3, <1>4, <1>5, <1>6, <1>7, <1>8, LinkCases

\* Every step leaves the rows of customers with their types.
LEMMA CustomerTypesKept ==
  ASSUME RequestShape, CustomerTypes, NEW r \in Requests, LinkStep(r) \/ CustomerStep(r),
         UNCHANGED sender
  PROVE  CustomerTypes'
<1> USE DEF CustomerTypes, customerRows, At
<1>1. CASE UNCHANGED customerRows
  BY <1>1
<1>2. CASE JoinMerchant(r)
  <2>1. req[r].merchant \in Merchants /\ req[r].id \in Makers
    BY <1>2 DEF JoinMerchant, RequestShape, Asks
  <2> QED BY <1>2, <2>1 DEF JoinMerchant, Join, Makers
<1>3. CASE InsertCustomer(r)
  <2>1. req[r].merchant \in Merchants /\ req[r].email \in Emails /\ req[r].phone \in Phones
    BY <1>3 DEF InsertCustomer, RequestShape, Asks
  <2>2. CASE UNCHANGED <<custWallet, customer, joined>>
    BY <1>3, <2>2 DEF InsertCustomer
  <2>3. CASE /\ custWallet' = custWallet \cup {r}
             /\ customer' = [customer EXCEPT ![r] = [email |-> req[r].email, phone |-> req[r].phone]]
             /\ Join(r, r)
    <3>1. customer' \in [Makers -> Customer \cup {NoCustomer}]
      BY <2>1, <2>3 DEF Customer
    <3>2. joined' \subseteq [id: Makers, merchant: Merchants, by: Makers]
      BY <2>1, <2>3 DEF Join, Makers
    <3> QED BY <1>3, <2>3, <3>1, <3>2 DEF InsertCustomer, Makers
  <2> QED BY <1>3, <2>2, <2>3 DEF InsertCustomer, Rollback
<1>4. CASE Clear(r)
  <2>1. req[r].id \in Makers
    BY <1>4 DEF Clear, RequestShape, Asks
  <2> QED BY <1>4, <2>1 DEF Clear
<1>5. ASSUME LinkStep(r) PROVE UNCHANGED customerRows
  BY <1>5 DEF LinkStep, GetCustomerByPhone, CreateOTP, ReSendOTP, VerifyOTP, UpdateTempLink,
     DeleteTempLink, RegisterCustomerDev, LookForLink, RefreshLink, StoreOTP, StoreNewOTP, SendOTP,
     SendAgain, Extend, NewLinkForPhone, CreateTempLink, DevLink, DropLink, DeleteVerified
<1> QED BY <1>1, <1>2, <1>3, <1>4, <1>5 DEF CustomerStep, CreateCustomer, ClearCustomerByPhone, FindCustomer

\* In the beginning there are a customer and a link.
LEMMA InitShape == Init => ShapeInv
<1> SUFFICES ASSUME Init PROVE ShapeInv
  OBVIOUS
<1> USE DEF Init
<1>1. RequestShape
  BY DEF RequestShape, Everyone, Asks, Places
<1>2. LinkTypes
  <2>1. PICK p \in Phones \cup {None} :
       link = [l \in Makers |->
                 IF l = Old THEN [phone |-> p, otp |-> None, expire |-> 0, uid |-> 1, at |-> 1]
                 ELSE NoLink]
    OBVIOUS
  <2>2. link \in [Makers -> Link \cup {NoLink}]
    BY <2>1 DEF Link
  <2>3. \A l \in Makers : link[l].at <= 1
    BY <2>1 DEF NoLink
  <2>4. 0 \in 0 .. MaxTime
    BY TimeNat
  <2> QED BY <2>2, <2>3, <2>4 DEF LinkTypes, Ages
<1>3. CustomerTypes
  <2>1. sender \in [Requests -> Senders]
    BY WorkloadsOK
  <2>2. customer \in [Makers -> Customer \cup {NoCustomer}]
    <3>1. PICK p \in Phones, e \in Emails :
            customer = [i \in Makers |-> IF i = Old THEN [email |-> e, phone |-> p] ELSE NoCustomer]
      OBVIOUS
    <3> QED BY <3>1 DEF Customer
  <2> QED BY <2>1, <2>2 DEF CustomerTypes, Makers
<1> QED BY <1>1, <1>2, <1>3 DEF ShapeInv

\* Every step keeps the types of requests and rows.
LEMMA StepShape == AccountInv /\ ShapeInv /\ [Next]_vars => ShapeInv'
<1> SUFFICES ASSUME AccountInv, ShapeInv, [Next]_vars PROVE ShapeInv'
  OBVIOUS
<1> USE DEF ShapeInv
<1>1. ASSUME NEW r \in Requests, MerchantStep(r), Cascade,
             UNCHANGED <<customer, custWallet, cleared, linkRows, now, sender>>
      PROVE  ShapeInv'
  <2>1. RequestShape'
    BY <1>1, MerchantMoves, ShapeKept
  <2>2. LinkTypes'
    BY <1>1, UnwrittenTypes DEF linkRows
  <2>3. CustomerTypes'
    BY <1>1 DEF CustomerTypes, Cascade
  <2> QED BY <2>1, <2>2, <2>3
<1>2. ASSUME NEW r \in Requests, LinkStep(r) \/ CustomerStep(r), UNCHANGED <<now, sender>>
      PROVE  ShapeInv'
  BY <1>2, LinkMoves, CustomerMoves, ShapeKept, LinkTypesKept, CustomerTypesKept
<1>3. CASE Tick \/ UNCHANGED vars
  <2>1. UNCHANGED <<req, pc, customerRows, linkRows, sender>> /\ now' \in 0 .. MaxTime
    BY <1>3, TimeNat DEF Tick, vars, LinkTypes
  <2> QED BY <2>1 DEF RequestShape, Everyone, LinkTypes, CustomerTypes, customerRows, linkRows, Ages
<1> QED BY <1>1, <1>2, <1>3 DEF Next

\* Requests and rows have their types at all times.
THEOREM ShapesInductive == Spec => []ShapeInv
<1> QED BY InitShape, StepShape, AccountsInductive, PTL DEF Spec

\* The invariant of the shapes and of the merchants gives the types of all.
LEMMA ShapesAreTypes == AccountInv /\ ShapeInv => TypeOK
<1> SUFFICES ASSUME AccountInv, ShapeInv PROVE TypeOK
  OBVIOUS
<1>1. \A r \in Requests : Asks(pc[r], req[r])
  BY DEF ShapeInv, RequestShape
<1>2. \A r \in Requests : req[r] \in MerchantReqs \cup CustomerReqs \cup {None}
  <2> SUFFICES ASSUME NEW r \in Requests PROVE req[r] \in MerchantReqs \cup CustomerReqs \cup {None}
    OBVIOUS
  <2> DEFINE x == req[r]
  <2>0. Asks(pc[r], x)
    BY <1>1
  <2> HIDE DEF x
  <2>1. pc[r] \in {"idle", "done"} \/ pc[r] \in MerchantPlaces \/ pc[r] \in LinkPlaces \cup CustomerPlaces
    BY <2>0 DEF Asks, Places
  <2>2. CASE pc[r] \in {"idle", "done"}
    BY <2>0, <2>2 DEF Asks, x
  <2>3. CASE pc[r] \in MerchantPlaces
    <3>1. x \in [user: Users] \cup [user: Users, phone: Phones \cup {None}, index: Indices]
                 \cup [merchant: Merchants]
      BY <2>0, <2>3 DEF Asks, MerchantPlaces
    <3> QED BY <3>1 DEF MerchantReqs, x
  <2>4. CASE pc[r] \in LinkPlaces \cup CustomerPlaces
    <3>1. pc[r] \in {"refresh", "otp", "sendOtp", "resend", "sendAgain", "verify", "extend", "dropLink"} =>
            \/ x \in [phone: Phones, link: Makers, uid: Nat]
            \/ x \in [phone: Phones \cup {None}, link: Makers, uid: Nat]
            \/ x \in [phone: Phones, link: Makers, uid: Nat, code: Requests]
            \/ x \in [link: Makers, uid: Nat, expire: Nat, given: BOOLEAN]
            \/ x \in [link: Makers, uid: Nat]
      BY <2>0 DEF Asks
    <3>3. pc[r] \in {"lookup", "addLink", "devLink", "find", "insert", "join", "clear"} =>
            \/ x \in [merchant: Merchants] \/ x \in [phone: Phones]
            \/ x \in [merchant: Merchants, phone: Phones, email: Emails, id: Makers \cup {None}]
            \/ x \in [merchant: Merchants, phone: Phones, email: Emails, id: Makers]
            \/ x \in [phone: Phones, id: Makers]
      BY <2>0 DEF Asks
    <3>4. \/ pc[r] \in {"refresh", "otp", "sendOtp", "resend", "sendAgain", "verify", "extend", "dropLink"}
          \/ pc[r] \in {"lookup", "addLink", "devLink", "find", "insert", "join", "clear"}
      BY <2>4 DEF LinkPlaces, CustomerPlaces
    <3>2. [merchant: Merchants, phone: Phones, email: Emails, id: Makers]
            \subseteq [merchant: Merchants, phone: Phones, email: Emails, id: Makers \cup {None}]
      OBVIOUS
    <3>5. CASE pc[r] \in {"refresh", "otp", "sendOtp", "resend", "sendAgain", "verify", "extend", "dropLink"}
      BY <3>1, <3>5, Zenon DEF CustomerReqs, x
    <3>6. CASE pc[r] \in {"lookup", "addLink", "devLink", "find", "insert", "join", "clear"}
      BY <3>2, <3>3, <3>6, Zenon DEF CustomerReqs, MerchantReqs, x
    <3> QED BY <3>4, <3>5, <3>6
  <2> QED BY <2>1, <2>2, <2>3, <2>4
<1>3. \A r \in Requests : pc[r] \in Places
  BY <1>1 DEF Asks
<1>4. /\ req \in [Requests -> MerchantReqs \cup CustomerReqs \cup {None}]
      /\ pc \in [Requests -> Places]
  <2>1. Everyone
    BY DEF ShapeInv, RequestShape
  <2> QED BY <1>2, <1>3, <2>1 DEF Everyone
<1> QED BY <1>4 DEF TypeOK, ShapeInv, LinkTypes, CustomerTypes, AccountInv, Places

-----------------------------------------------------------------------------
\* Where a step leaves its request, which was not over.
LEMMA MerchantPlace ==
  ASSUME AccountInv, RequestShape, NEW r \in Requests, MerchantStep(r)
  PROVE  pc[r] # "done" /\ pc'[r] \in {"done"} \cup MerchantPlaces /\ UNCHANGED polite
<1> USE DEF MerchantPlaces, At, merchantRows
<1>1. CASE \E u \in Users : Register(r, u)
  BY <1>1 DEF Register, Start, Goto, RequestShape, Everyone
<1>2. CASE CommitUser(r) \/ AdmitSeller(r) \/ CommitDeletion(r)
  BY <1>2, Finishing DEF CommitUser, AdmitSeller, CommitDeletion
<1>3. CASE \E u \in Users, p \in Phones \cup {None} : CreateMerchant(r, u, p)
  BY <1>3 DEF CreateMerchant, Start, Goto, RequestShape, Everyone
<1>4. CASE CommitMerchant(r)
  BY <1>4 DEF CommitMerchant, Persist, Finish, Goto, RequestShape, Everyone
<1>5. CASE AdmitMerchant(r)
  BY <1>5 DEF AdmitMerchant, Finish, Goto, RequestShape, Everyone
<1>6. CASE \E m \in Merchants : DeleteMerchant(r, m)
  BY <1>6 DEF DeleteMerchant, Start, Goto, RequestShape, Everyone
<1> QED BY <1>1, <1>2, <1>3, <1>4, <1>5, <1>6 DEF MerchantStep

\* A handler that reads links starts, or looks for a link.
LEMMA ReadsPlace ==
  ASSUME RequestShape, NEW r \in Requests, Reads(r)
  PROVE  /\ pc[r] \in {"idle", "lookup"}
         /\ pc'[r] \in {"done", "lookup", "addLink", "refresh", "otp", "resend", "verify",
                        "extend", "dropLink", "devLink"}
<1> USE DEF RequestShape, Everyone, Start, Goto
<1>1. CASE \E p \in Phones : GetCustomerByPhone(r, p)
  BY <1>1 DEF GetCustomerByPhone
<1>2. CASE \E l \in Makers, p \in Phones : CreateOTP(r, l, p)
  BY <1>2 DEF CreateOTP
<1>3. CASE \E l \in Makers : ReSendOTP(r, l)
  BY <1>3 DEF ReSendOTP
<1>4. CASE \E p \in Phones, code \in Requests : VerifyOTP(r, p, code)
  BY <1>4 DEF VerifyOTP
<1>5. CASE \E l \in Makers, e \in Dates \cup {None} : UpdateTempLink(r, l, e)
  BY <1>5 DEF UpdateTempLink
<1>6. CASE \E l \in Makers : DeleteTempLink(r, l)
  BY <1>6 DEF DeleteTempLink
<1>7. CASE \E m \in Merchants : RegisterCustomerDev(r, m)
  BY <1>7 DEF RegisterCustomerDev
<1>8. CASE LookForLink(r)
  BY <1>8 DEF LookForLink, At, Finish
<1> QED BY <1>1, <1>2, <1>3, <1>4, <1>5, <1>6, <1>7, <1>8 DEF Reads

\* The handlers of links leave customers alone.
LEMMA LinkPlace ==
  ASSUME RequestShape, LinkTypes, NEW r \in Requests, LinkStep(r)
  PROVE  /\ pc[r] # "done" /\ pc'[r] \in {"done"} \cup LinkPlaces
         /\ UNCHANGED <<customerRows, polite>>
<1> USE DEF LinkPlaces
<1>1. UNCHANGED <<customerRows, polite>>
  BY DEF LinkStep, GetCustomerByPhone, CreateOTP, ReSendOTP, VerifyOTP, UpdateTempLink,
     DeleteTempLink, RegisterCustomerDev, LookForLink, RefreshLink, StoreOTP, StoreNewOTP, SendOTP,
     SendAgain, Extend, NewLinkForPhone, CreateTempLink, DevLink, DropLink, DeleteVerified
<1>2. CASE Reads(r)
  BY <1>1, <1>2, ReadsPlace
<1>3. CASE RefreshLink(r) \/ StoreOTP(r) \/ StoreNewOTP(r) \/ SendOTP(r) \/ SendAgain(r) \/ Extend(r)
  BY <1>1, <1>3, RefreshEffect, StoreEffect, StoreNewEffect, SendEffect, ExtendEffect
<1>4. CASE NewLinkForPhone(r) \/ (\E p \in Phones, e \in Dates : CreateTempLink(r, p, e)) \/ DevLink(r)
  BY <1>1, <1>4, AddEffect
<1>5. CASE DropLink(r) \/ DeleteVerified(r)
  BY <1>1, <1>5, RemoveEffect
<1> QED BY <1>2, <1>3, <1>4, <1>5 DEF LinkStep, Reads

\* Who has made something keeps having made it, while r has not.
LEMMA MadeStays ==
  ASSUME NEW r \in Requests, Moves(r), pc[r] # "done", NEW l, MadeOnce(l)
  PROVE  MadeOnce(l)' /\ l # r
BY DEF MadeOnce, Moves

\* A step that makes no customer and no association, and begins none.
LEMMA CustomersKept ==
  ASSUME CustomerInv, NEW r \in Requests, Moves(r), pc[r] # "done", ~Joining(r)',
         joined' \subseteq joined, UNCHANGED <<customer, custWallet, cleared, polite>>
  PROVE  CustomerInv'
<1>1. CustomersOwnTheirWallets'
  BY DEF CustomerInv, CustomersOwnTheirWallets
<1>2. MadeBefore'
  BY MadeStays DEF CustomerInv, MadeBefore
<1>3. polite => OneJoins'
  BY DEF CustomerInv, OneJoins, Joining, Moves
<1>4. polite => NotYet'
  BY DEF CustomerInv, NotYet, Joining, Moves, Associated
<1>5. polite => RegisteredOnce'
  BY DEF CustomerInv, RegisteredOnce
<1> QED BY <1>1, <1>2, <1>3, <1>4, <1>5 DEF CustomerInv

\* A registration begins when nobody else registers.
LEMMA CustomerAsked ==
  ASSUME CustomerInv, RequestShape, NEW r \in Requests, NEW m \in Merchants, NEW p \in Phones,
         NEW e \in Emails, CreateCustomer(r, m, p, e)
  PROVE  CustomerInv'
<1>1. Moves(r)
  BY DEF CreateCustomer, Start, Goto, RequestShape, Moves, Everyone,
     Asks, Places, CustomerPlaces
<1>2. /\ pc[r] = "idle" /\ pc'[r] = "find" /\ UNCHANGED <<customerRows, polite>>
      /\ polite => \A q \in Requests : ~Joining(q)
  BY DEF CreateCustomer, Start, Goto, RequestShape, Everyone, Nobody, Joining
<1>3. CustomersOwnTheirWallets'
  BY <1>2 DEF CustomerInv, CustomersOwnTheirWallets, customerRows
<1>4. MadeBefore'
  BY <1>1, <1>2, MadeStays DEF CustomerInv, MadeBefore, customerRows
<1>5. polite => OneJoins'
  BY <1>1, <1>2 DEF CustomerInv, OneJoins, Joining, Moves
<1>6. polite => NotYet'
  BY <1>1, <1>2 DEF CustomerInv, NotYet, Joining, Moves, Associated, customerRows
<1>7. polite => RegisteredOnce'
  BY <1>2 DEF CustomerInv, RegisteredOnce, customerRows
<1> QED BY <1>2, <1>3, <1>4, <1>5, <1>6, <1>7 DEF CustomerInv

\* Who is found is a customer, and not of the merchant yet.
LEMMA CustomerFound ==
  ASSUME CustomerInv, RequestShape, NEW r \in Requests, FindCustomer(r)
  PROVE  CustomerInv'
<1>1. Moves(r) /\ pc[r] = "find" /\ UNCHANGED <<customerRows, polite>>
  BY CustomerMoves DEF CustomerStep, FindCustomer, At
<1>2. CASE pc'[r] = "done"
  BY <1>1, <1>2, CustomersKept DEF Joining, customerRows
<1>3. CASE pc'[r] # "done"
  <2>1. /\ pc'[r] \in {"join", "insert"}
        /\ pc'[r] = "join" => ~Associated(req'[r].id, req'[r].merchant)
    <3>1. CASE Goto(r, "insert") /\ UNCHANGED req
      BY <3>1 DEF Goto, RequestShape, Everyone
    <3>2. ASSUME NEW i \in Makers, ~Associated(i, req[r].merchant), Goto(r, "join"),
                 req' = [req EXCEPT ![r].id = i]
          PROVE  pc'[r] = "join" /\ ~Associated(req'[r].id, req'[r].merchant)
      <4>1. req[r] \in [merchant: Merchants, phone: Phones, email: Emails, id: Makers \cup {None}]
        BY <1>1 DEF RequestShape, Asks
      <4>2. req'[r] = [merchant |-> req[r].merchant, phone |-> req[r].phone,
                       email |-> req[r].email, id |-> i]
        BY <3>2, <4>1 DEF RequestShape, Everyone
      <4>3. pc'[r] = "join"
        BY <3>2 DEF Goto, RequestShape, Everyone
      <4> QED BY <3>2, <4>2, <4>3
    <3>3. CASE Finish(r)
      BY <1>3, <3>3, Finishing
    <3> QED BY <3>1, <3>2, <3>3 DEF FindCustomer, CustomersBy
  <2>2. CustomersOwnTheirWallets'
    BY <1>1 DEF CustomerInv, CustomersOwnTheirWallets, customerRows
  <2>3. MadeBefore'
    BY <1>1, MadeStays DEF CustomerInv, MadeBefore, customerRows
  <2>4. polite => OneJoins'
    BY <1>1, <2>1 DEF CustomerInv, OneJoins, Joining, Moves
  <2>5. polite => NotYet'
    <3>1. \A i, m : Associated(i, m)' <=> Associated(i, m)
      BY <1>1 DEF Associated, customerRows
    <3> QED BY <1>1, <2>1, <3>1 DEF CustomerInv, NotYet, Moves, Associated, customerRows
  <2>6. polite => RegisteredOnce'
    BY <1>1 DEF CustomerInv, RegisteredOnce, customerRows
  <2> QED BY <1>1, <2>2, <2>3, <2>4, <2>5, <2>6 DEF CustomerInv
<1> QED BY <1>2, <1>3

\* One row more, of a customer who is there and had none with the merchant.
LEMMA RowAdded ==
  ASSUME CustomerInv, RequestShape, NEW r \in Requests, Moves(r), Joining(r), pc'[r] = "done",
         NEW i \in Makers, Join(r, i), UNCHANGED polite,
         MadeOnce(i)', polite => ~Associated(i, req[r].merchant),
         \A k \in Makers : (customer[k] # NoCustomer)' => MadeOnce(k)',
         CustomersOwnTheirWallets'
  PROVE  CustomerInv'
<1> DEFINE j == [id |-> i, merchant |-> req[r].merchant, by |-> r]
<1>1. joined' = joined \cup {j} /\ j.id = i /\ j.merchant = req[r].merchant
  BY DEF Join
<1> HIDE DEF j
<1>2. pc[r] # "done"
  BY DEF Joining
<1>3. MadeBefore'
  BY <1>1, <1>2, MadeStays DEF CustomerInv, MadeBefore
<1>4. polite => \A q \in Requests : ~Joining(q)'
  BY DEF CustomerInv, OneJoins, Joining, Moves
<1>5. polite => OneJoins' /\ NotYet'
  BY <1>4 DEF OneJoins, NotYet, Joining
<1>6. polite => RegisteredOnce'
  BY <1>1 DEF CustomerInv, RegisteredOnce, Associated
<1> QED BY <1>3, <1>5, <1>6 DEF CustomerInv

\* Who is associated is a customer, and was not associated before.
LEMMA CustomerJoined ==
  ASSUME CustomerInv, RequestShape, NEW r \in Requests, JoinMerchant(r)
  PROVE  CustomerInv'
<1>1. /\ Moves(r) /\ pc[r] = "join" /\ pc'[r] = "done" /\ req[r].id \in Makers
      /\ UNCHANGED <<customer, custWallet, cleared, polite>>
  BY Finishing DEF JoinMerchant, At, RequestShape, Asks
<1>2. CASE UNCHANGED joined
  BY <1>1, <1>2, CustomersKept DEF Joining
<1>3. CASE Join(r, req[r].id) /\ customer[req[r].id] # NoCustomer
  <2>1. \A k \in Makers : (customer[k] # NoCustomer)' => MadeOnce(k) /\ MadeOnce(k)'
    BY <1>1, MadeStays DEF CustomerInv, MadeBefore
  <2>2. PICK i \in Makers : i = req[r].id
    BY <1>1
  <2>3. MadeOnce(i)' /\ Join(r, i)
    BY <1>1, <1>3, <2>1, <2>2
  <2>4. polite => ~Associated(i, req[r].merchant)
    BY <1>1, <2>2 DEF CustomerInv, NotYet
  <2>5. CustomersOwnTheirWallets' /\ Joining(r)
    BY <1>1 DEF CustomerInv, CustomersOwnTheirWallets, Joining
  <2> QED BY <1>1, <2>1, <2>3, <2>4, <2>5, RowAdded
<1> QED BY <1>2, <1>3 DEF JoinMerchant

\* A new customer is named after its request, so that nobody has its name.
LEMMA CustomerInserted ==
  ASSUME CustomerInv, RequestShape, CustomerTypes, NEW r \in Requests, InsertCustomer(r)
  PROVE  CustomerInv'
<1>1. /\ Moves(r) /\ pc[r] = "insert" /\ pc'[r] = "done" /\ Joining(r)
      /\ UNCHANGED <<cleared, polite>> /\ r \in Makers
  BY Finishing DEF InsertCustomer, At, Joining, Makers
<1>2. CASE Rollback(r)
  BY <1>1, <1>2, CustomersKept DEF Joining, Rollback
<1>3. CASE /\ custWallet' = custWallet \cup {r}
           /\ customer' = [customer EXCEPT ![r] = [email |-> req[r].email, phone |-> req[r].phone]]
           /\ Join(r, r)
  <2> DEFINE c == [email |-> req[r].email, phone |-> req[r].phone]
  <2>1. c # NoCustomer
    BY DEF NoCustomer
  <2> HIDE DEF c
  <2>2. \A k \in Makers : customer'[k] = IF k = r THEN c ELSE customer[k]
    BY <1>1, <1>3 DEF CustomerTypes, c
  <2>3. CustomersOwnTheirWallets'
    BY <1>1, <1>3, <2>1, <2>2 DEF CustomerInv, CustomersOwnTheirWallets
  <2>4. MadeOnce(r)'
    BY <1>1 DEF MadeOnce
  <2>5. \A k \in Makers : (customer[k] # NoCustomer)' => MadeOnce(k)'
    BY <1>1, <2>2, <2>4, MadeStays DEF CustomerInv, MadeBefore
  <2>6. ~Associated(r, req[r].merchant)
    BY <1>1 DEF CustomerInv, MadeBefore, MadeOnce, Associated
  <2> QED BY <1>1, <1>3, <2>3, <2>4, <2>5, <2>6, RowAdded
<1> QED BY <1>2, <1>3 DEF InsertCustomer

\* Who is cleared was a customer, and leaves its wallet behind.
LEMMA CustomerCleared ==
  ASSUME CustomerInv, RequestShape, CustomerTypes, NEW r \in Requests, Clear(r)
  PROVE  CustomerInv'
<1>1. /\ Moves(r) /\ pc[r] = "clear" /\ pc'[r] = "done" /\ req[r].id \in Makers
      /\ UNCHANGED <<custWallet, polite>>
  BY Finishing DEF Clear, At, RequestShape, Asks
<1>2. CASE UNCHANGED <<customer, joined, cleared>>
  BY <1>1, <1>2, CustomersKept DEF Joining
<1>3. CASE /\ customer[req[r].id] # NoCustomer
           /\ customer' = [customer EXCEPT ![req[r].id] = NoCustomer]
           /\ joined' = {j \in joined : j.id # req[r].id}
           /\ cleared' = cleared \cup {req[r].id}
  <2>1. \A k \in Makers : customer'[k] = IF k = req[r].id THEN NoCustomer ELSE customer[k]
    BY <1>1, <1>3 DEF CustomerTypes
  <2>2. CustomersOwnTheirWallets'
    BY <1>1, <1>3, <2>1 DEF CustomerInv, CustomersOwnTheirWallets
  <2>3. MadeBefore'
    BY <1>1, <1>3, <2>1, MadeStays DEF CustomerInv, MadeBefore
  <2>4. polite => OneJoins' /\ NotYet' /\ RegisteredOnce'
    <3>1. polite => OneJoins'
      BY <1>1 DEF CustomerInv, OneJoins, Joining, Moves
    <3>2. joined' \subseteq joined
      BY <1>3
    <3>3. polite => NotYet'
      BY <1>1, <3>2 DEF CustomerInv, NotYet, Moves, Associated
    <3>4. polite => RegisteredOnce'
      BY <3>2 DEF CustomerInv, RegisteredOnce
    <3> QED BY <3>1, <3>3, <3>4
  <2> QED BY <1>1, <2>2, <2>3, <2>4 DEF CustomerInv
<1> QED BY <1>2, <1>3 DEF Clear

\* There is one customer in the beginning, associated with nobody.
LEMMA InitCustomers == Init => CustomerInv
<1> SUFFICES ASSUME Init PROVE CustomerInv
  OBVIOUS
<1>1. PICK p \in Phones, e \in Emails :
        customer = [i \in Makers |-> IF i = Old THEN [email |-> e, phone |-> p] ELSE NoCustomer]
  BY DEF Init
<1>2. \A i \in Makers : customer[i] # NoCustomer <=> i = Old
  BY <1>1 DEF NoCustomer
<1>3. CustomersOwnTheirWallets
  BY <1>2 DEF Init, CustomersOwnTheirWallets, Makers
<1>4. MadeBefore
  BY <1>2, Distinct DEF Init, MadeBefore, MadeOnce
<1> QED BY <1>3, <1>4 DEF Init, CustomerInv, OneJoins, NotYet, RegisteredOnce, Joining

\* Every step keeps the customers whole.
LEMMA StepCustomers == AccountInv /\ ShapeInv /\ CustomerInv /\ [Next]_vars => CustomerInv'
<1> SUFFICES ASSUME AccountInv, ShapeInv, CustomerInv, [Next]_vars PROVE CustomerInv'
  OBVIOUS
<1> USE DEF ShapeInv
<1>1. ASSUME NEW r \in Requests, MerchantStep(r), Cascade, UNCHANGED <<customer, custWallet, cleared>>
      PROVE  CustomerInv'
  <2>1. joined' \subseteq joined
    BY <1>1 DEF Cascade
  <2> QED BY <1>1, <2>1, MerchantMoves, MerchantPlace, CustomersKept DEF Joining, MerchantPlaces
<1>2. ASSUME NEW r \in Requests, LinkStep(r) PROVE CustomerInv'
  BY <1>2, LinkMoves, LinkPlace, CustomersKept DEF Joining, LinkPlaces, customerRows
<1>3. ASSUME NEW r \in Requests, CustomerStep(r) PROVE CustomerInv'
  <2>1. CASE \E p \in Phones : ClearCustomerByPhone(r, p)
    <3>1. Moves(r)
      BY <1>3, CustomerMoves
    <3>2. pc[r] = "idle" /\ pc'[r] = "clear" /\ UNCHANGED <<customerRows, polite>>
      BY <2>1 DEF ClearCustomerByPhone, Start, Goto, RequestShape, Everyone
    <3> QED BY <3>1, <3>2, CustomersKept DEF Joining, customerRows
  <2> QED BY <1>3, <2>1, CustomerAsked, CustomerFound, CustomerJoined, CustomerInserted,
             CustomerCleared DEF CustomerStep
<1>4. CASE Tick \/ UNCHANGED vars
  <2>1. UNCHANGED <<req, pc, polite, customerRows>>
    BY <1>4 DEF Tick, vars
  <2> QED BY <2>1 DEF CustomerInv, CustomersOwnTheirWallets, MadeBefore, MadeOnce, OneJoins, NotYet,
                      RegisteredOnce, Joining, Associated, customerRows
<1> QED BY <1>1, <1>2, <1>3, <1>4 DEF Next

\* Customers and their associations are made by requests that are over.
THEOREM CustomersInductive == Spec => []CustomerInv
<1> QED BY InitCustomers, StepCustomers, AccountsInductive, ShapesInductive, PTL DEF Spec

\* A customer comes with its wallet and keeps it until it is cleared; and of
\* polite partners no two associate one customer with one merchant twice
\* (CreateCustomer.execute, CustomerDBService.clearCustomerByPhone).
THEOREM CustomersStayWhole == Spec => []CustomersAreWhole
<1>1. AccountInv /\ ShapeInv /\ CustomerInv => CustomersAreWhole
  BY ShapesAreTypes DEF CustomerInv, CustomersAreWhole, RegisteredOnce
<1> QED BY <1>1, AccountsInductive, ShapesInductive, CustomersInductive, PTL

-----------------------------------------------------------------------------
\* A step that begins no reading leaves what was read as it is.
LEMMA ReadKept ==
  ASSUME OtpInv, NEW r \in Requests, Moves(r), pc[r] # "done", pc'[r] \notin {"resend", "extend"}
  PROVE  ReadWasMade'
<1> SUFFICES ASSUME NEW q \in Requests, pc'[q] \in {"resend", "extend"}
             PROVE  MadeOnce(req[q].link)'
  BY DEF ReadWasMade
<1>1. q # r /\ pc'[q] = pc[q] /\ req'[q] = req[q]
  BY DEF Moves
<1>2. MadeOnce(req[q].link)
  BY <1>1 DEF OtpInv, ReadWasMade
<1> QED BY <1>1, <1>2, MadeStays DEF MadeOnce, Moves

\* What fits after a step.
FitsNext(q, p) ==
  q \in Requests /\ Stored(q)' /\ (q \in crossed' \/ For(q)' \in {None, p})

\* Codes fit when a step of r keeps what is told, or will be, of codes that are
\* stored, and puts into links and before verifications only codes that fit.
LEMMA CodesStay ==
  ASSUME CodesFit, NEW r \in Requests, Moves(r), crossed \subseteq crossed',
         \A q \in Requests : Stored(q) => Stored(q)' /\ For(q)' \in {None, For(q)},
         pc'[r] = "verify" => Fits(req'[r].code, req'[r].phone),
         \A v \in verified' : v \in verified \/ Fits(v.code, v.phone),
         \A l \in Makers : Lives(l)' /\ link'[l].otp \in Requests =>
           \/ /\ Lives(l) /\ link'[l].otp = link[l].otp
              /\ link'[l].phone = link[l].phone
           \/ \E q, p : /\ q = link'[l].otp /\ p = link'[l].phone
                        /\ FitsNext(q, p)
  PROVE  CodesFit'
<1>1. ASSUME NEW q, NEW p, Fits(q, p) PROVE FitsNext(q, p)
  <2>1. q \in Requests /\ Stored(q)' /\ For(q)' \in {None, For(q)}
    BY <1>1 DEF Fits
  <2> HIDE DEF For, Stored
  <2> QED BY <1>1, <2>1 DEF Fits, FitsNext
<1>2. LinksFit'
  <2> SUFFICES ASSUME NEW l \in Makers, Lives(l)', link'[l].otp \in Requests
               PROVE  \E q, p : /\ q = link'[l].otp /\ p = link'[l].phone
                               /\ FitsNext(q, p)
    BY DEF LinksFit, Fits, FitsNext, Stored, For
  <2>1. CASE /\ Lives(l) /\ link'[l].otp = link[l].otp
             /\ link'[l].phone = link[l].phone
    <3>1. Fits(link[l].otp, link[l].phone)
      BY <2>1 DEF CodesFit, LinksFit
    <3> QED BY <1>1, <2>1, <3>1
  <2> QED BY <2>1
<1>3. SeenFit'
  <2> SUFFICES ASSUME NEW q \in Requests, pc'[q] = "verify"
               PROVE  \E c, p : /\ c = req'[q].code /\ p = req'[q].phone
                               /\ FitsNext(c, p)
    BY DEF SeenFit, Fits, FitsNext, Stored, For
  <2>1. CASE q = r
    BY <1>1, <2>1
  <2>2. CASE q # r
    <3>1. pc[q] = "verify" /\ req'[q] = req[q]
      BY <2>2 DEF Moves
    <3>2. Fits(req[q].code, req[q].phone)
      BY <3>1 DEF CodesFit, SeenFit
    <3> QED BY <1>1, <3>1, <3>2
  <2> QED BY <2>1, <2>2
<1>4. VerifiedFit'
  <2> SUFFICES ASSUME NEW v, v \in verified' PROVE FitsNext(v.code, v.phone)
    BY DEF VerifiedFit, Fits, FitsNext, Stored, For
  <2>1. Fits(v.code, v.phone)
    BY DEF CodesFit, VerifiedFit
  <2> QED BY <1>1, <2>1
<1> QED BY <1>2, <1>3, <1>4 DEF CodesFit

\* A step of r that tells nothing keeps what is told of others.
LEMMA ForStays ==
  ASSUME NEW r \in Requests, Moves(r), ~Stored(r), UNCHANGED told
  PROVE  \A q \in Requests : Stored(q) => q # r /\ Stored(q)' /\ For(q)' = For(q)
BY DEF Moves, Stored, For

\* A step that stores and tells no code: links only go, and the request of the
\* step moves to no place where it writes an OTP or has seen one match.
Special == {"otp", "sendOtp", "resend", "sendAgain", "extend", "verify"}

\* Such a step keeps what is known of codes.
LEMMA CodesFade ==
  ASSUME OtpInv, RequestShape, LinkTypes, NEW r \in Requests, Moves(r), ~Stored(r),
         pc'[r] \notin Special, Fade, UNCHANGED <<told, crossed, promised, now, polite>>,
         \/ UNCHANGED verified
         \/ /\ pc[r] = "verify" /\ req[r].link \in Makers
            /\ req[r].phone \in Phones /\ req[r].code \in Requests
            /\ Succeed(r)
  PROVE  OtpInv'
<1> USE DEF Special
<1>1. ToldIsOver'
  BY DEF OtpInv, ToldIsOver, Moves, Stored
<1>2. CodesFit'
  <2>1. \A q \in Requests : Stored(q) => Stored(q)' /\ For(q)' \in {None, For(q)}
    BY ForStays
  <2>2. \A v \in verified' : v \in verified \/ Fits(v.code, v.phone)
    BY DEF OtpInv, CodesFit, SeenFit, Succeed
  <2>3. CodesFit /\ pc'[r] # "verify"
    BY DEF OtpInv
  <2>4. \A l \in Makers : Lives(l)' /\ link'[l].otp \in Requests =>
          Lives(l) /\ link'[l].otp = link[l].otp /\ link'[l].phone = link[l].phone
    BY DEF Fade
  <2> QED BY <2>1, <2>2, <2>3, <2>4, CodesStay
<1>3. PromisesFit'
  BY MadeStays DEF OtpInv, PromisesFit, Stored
<1>4. ReadWasMade'
  BY ReadKept DEF Stored
<1>5. ASSUME polite PROVE PoliteInv'
  <2>0. PoliteInv
    BY <1>5 DEF OtpInv
  <2>1. OneWrites'
    BY <2>0 DEF PoliteInv, OneWrites, Writing, Moves
  <2>2. PhoneIsRead'
    <3> SUFFICES ASSUME NEW q \in Requests, pc'[q] = "resend", Lives(req[q].link)',
                        ~(link'[req'[q].link].phone = req'[q].phone)
                 PROVE  FALSE
      BY DEF PhoneIsRead
    <3>1. q # r /\ pc[q] = "resend" /\ req'[q] = req[q]
      BY DEF Moves
    <3>2. req[q].link \in Makers
      BY <3>1, AskedLink
    <3> QED BY <2>0, <3>1, <3>2 DEF PoliteInv, PhoneIsRead, Fade
  <2>3. EndIsRead'
    BY <2>0 DEF PoliteInv, EndIsRead, Moves
  <2>4. \A l \in Makers : Lives(l)' => promised'[l] <= link'[l].expire
    BY <2>0 DEF PoliteInv, Fade
  <2> QED BY <2>0, <2>1, <2>2, <2>3, <2>4 DEF PoliteInv
<1> QED BY <1>1, <1>2, <1>3, <1>4, <1>5 DEF OtpInv

\* What a request that will write has read is true when it starts.
LEMMA CodeAsked ==
  ASSUME OtpInv, LinkInv, RequestShape, LinkTypes, NEW r \in Requests, Moves(r), pc[r] = "idle",
         UNCHANGED <<linkRows, now, polite>>,
         pc'[r] \in {"otp", "resend", "extend"}, polite => NobodyWritesOTP,
         NEW l \in Makers, Lives(l), req'[r].link = l,
         pc'[r] = "resend" => req'[r].phone = link[l].phone,
         pc'[r] = "extend" => req'[r].given \/ req'[r].expire = link[l].expire
  PROVE  OtpInv'
<1> USE DEF linkRows
<1>0. MadeOnce(l)'
  BY MadeStays DEF LinkInv
<1>1. ToldIsOver'
  BY DEF OtpInv, ToldIsOver, Moves
<1>5. CodesFit'
  <2>1. \A q \in Requests : Stored(q) => Stored(q)' /\ For(q)' \in {None, For(q)}
    BY ForStays DEF Stored
  <2> QED BY <2>1, CodesStay DEF OtpInv, Lives
<1>2. PromisesFit'
  BY MadeStays DEF OtpInv, PromisesFit
<1>3. ReadWasMade'
  <2> SUFFICES ASSUME NEW q \in Requests, pc'[q] \in {"resend", "extend"}
               PROVE  MadeOnce(req[q].link)'
    BY DEF ReadWasMade
  <2>1. CASE q = r
    BY <1>0, <2>1 DEF MadeOnce
  <2>2. CASE q # r
    <3>1. pc'[q] = pc[q] /\ req'[q] = req[q]
      BY <2>2 DEF Moves
    <3>2. MadeOnce(req[q].link)
      BY <3>1 DEF OtpInv, ReadWasMade
    <3> QED BY <3>1, <3>2, MadeStays DEF MadeOnce, Moves
  <2> QED BY <2>1, <2>2
<1>4. ASSUME polite PROVE PoliteInv'
  <2>0. PoliteInv /\ \A q \in Requests : ~Writing(q)
    BY <1>4 DEF OtpInv, NobodyWritesOTP, Nobody, Writing
  <2>1. OneWrites'
    BY <2>0 DEF OneWrites, Writing, Moves
  <2>2. PhoneIsRead'
    BY <2>0 DEF PoliteInv, PhoneIsRead, Moves, Lives
  <2>3. EndIsRead'
    BY <2>0 DEF PoliteInv, EndIsRead, Moves
  <2>4. \A x \in Makers : Lives(x)' => promised'[x] <= link'[x].expire
    BY <2>0 DEF PoliteInv, Lives
  <2> QED BY <2>0, <2>1, <2>2, <2>3, <2>4 DEF PoliteInv
<1> QED BY <1>1, <1>2, <1>3, <1>4, <1>5 DEF OtpInv

\* A code that matches fits the phone in the link, which is asked for.
LEMMA CodeMatches ==
  ASSUME OtpInv, RequestShape, LinkTypes, NEW r \in Requests, NEW p \in Phones,
         NEW code \in Requests, VerifyOTP(r, p, code), UNCHANGED now
  PROVE  OtpInv'
<1>1. PICK l \in NewestOf(p) :
        /\ Matches(l, code)
        /\ Start(r, "verify", [phone |-> p, link |-> l, uid |-> link[l].uid, code |-> code])
  BY DEF VerifyOTP
<1>2. l \in Makers /\ Lives(l) /\ link[l].phone = p /\ link[l].otp = code
  BY <1>1 DEF NewestOf, LinksOf, Matches, VerifyOTP
<1>3. /\ Moves(r) /\ pc[r] = "idle" /\ pc'[r] = "verify"
      /\ req'[r].code = code /\ req'[r].phone = p
      /\ UNCHANGED <<link, told, crossed, promised, verified, polite>>
  <2>1. Moves(r)
    BY <1>1, <1>2, LinkRow, Starting DEF Asks, Places, LinkPlaces
  <2> QED BY <1>1, <2>1, <1>2 DEF VerifyOTP, linkRows, Start, Goto, RequestShape, Everyone
<1>4. ToldIsOver'
  BY <1>3 DEF OtpInv, ToldIsOver, Moves
<1>8. CodesFit'
  <2>1. \A q \in Requests : Stored(q) => Stored(q)' /\ For(q)' \in {None, For(q)}
    BY <1>3, ForStays DEF Stored
  <2>2. Fits(req'[r].code, req'[r].phone)
    BY <1>2, <1>3 DEF OtpInv, CodesFit, LinksFit
  <2> QED BY <1>3, <2>1, <2>2, CodesStay DEF OtpInv, Lives
<1>5. PromisesFit'
  BY <1>3, MadeStays DEF OtpInv, PromisesFit
<1>6. ReadWasMade'
  BY <1>3, ReadKept
<1>7. ASSUME polite PROVE PoliteInv'
  <2>0. PoliteInv
    BY <1>7 DEF OtpInv
  <2>1. OneWrites'
    BY <1>3, <2>0 DEF PoliteInv, OneWrites, Writing, Moves
  <2>2. PhoneIsRead'
    BY <1>3, <2>0 DEF PoliteInv, PhoneIsRead, Moves, Lives
  <2>3. EndIsRead'
    BY <1>3, <2>0 DEF PoliteInv, EndIsRead, Moves
  <2>4. \A x \in Makers : Lives(x)' => promised'[x] <= link'[x].expire
    BY <1>3, <2>0 DEF PoliteInv, Lives
  <2> QED BY <1>3, <2>0, <2>1, <2>2, <2>3, <2>4 DEF PoliteInv
<1> QED BY <1>3, <1>4, <1>5, <1>6, <1>7, <1>8 DEF OtpInv

\* A link is made, or made to live on, with a code that is told to nobody.
LEMMA CodeUntold ==
  ASSUME OtpInv, LinkInv, RequestShape, LinkTypes, NEW r \in Requests, Moves(r), ~Stored(r),
         pc'[r] = "done", UNCHANGED <<told, crossed, promised, verified, now, polite>>,
         NEW l, NEW k, Written(l, k), k.otp \in {r, None, Plain}, promised[l] <= k.expire,
         l = r \/ (Lives(l) /\ k.phone = link[l].phone)
  PROVE  OtpInv'
<1>1. /\ l \in Makers /\ link'[l] = k /\ \A x \in Makers \ {l} : link'[x] = link[x]
      /\ None \notin Requests /\ Plain \notin Requests /\ pc[r] # "done"
  BY Distinct, PlainIsNoCode DEF Written, Stored
<1>2. ToldIsOver' /\ told'[r] = None
  BY <1>1 DEF OtpInv, ToldIsOver, Moves
<1>3. CodesFit'
  <2>1. \A q \in Requests : Stored(q) => Stored(q)' /\ For(q)' \in {None, For(q)}
    BY ForStays
  <2>2. \A p : FitsNext(r, p)
    BY <1>2 DEF FitsNext, Stored, For
  <2>3. \A x \in Makers : Lives(x)' /\ link'[x].otp \in Requests =>
          \/ /\ Lives(x) /\ link'[x].otp = link[x].otp
             /\ link'[x].phone = link[x].phone
          \/ \E q, p : /\ q = link'[x].otp /\ p = link'[x].phone
                       /\ FitsNext(q, p)
    BY <1>1, <2>2 DEF Lives
  <2> QED BY <2>1, <2>3, CodesStay DEF OtpInv
<1>4. PromisesFit'
  BY <1>1, MadeStays DEF OtpInv, PromisesFit
<1>5. ReadWasMade'
  BY <1>1, ReadKept
<1>6. ASSUME polite PROVE PoliteInv'
  <2>0. PoliteInv
    BY <1>6 DEF OtpInv
  <2>1. OneWrites'
    BY <2>0 DEF PoliteInv, OneWrites, Writing, Moves
  <2>2. PhoneIsRead'
    <3> SUFFICES ASSUME NEW q \in Requests, pc'[q] = "resend", Lives(req[q].link)'
                 PROVE  link'[req'[q].link].phone = req'[q].phone
      BY DEF PhoneIsRead
    <3>1. q # r /\ pc[q] = "resend" /\ req'[q] = req[q]
      BY DEF Moves
    <3>2. req[q].link \in Makers /\ MadeOnce(req[q].link)
      BY <3>1, AskedLink DEF OtpInv, ReadWasMade
    <3>3. req[q].link # r
      BY <1>1, <3>2 DEF MadeOnce
    <3>4. Lives(req[q].link) /\ link'[req[q].link].phone = link[req[q].link].phone
      BY <1>1, <3>1, <3>2, <3>3 DEF Lives
    <3> QED BY <2>0, <3>1, <3>4 DEF PoliteInv, PhoneIsRead
  <2>3. EndIsRead'
    BY <2>0 DEF PoliteInv, EndIsRead, Moves
  <2>4. \A x \in Makers : Lives(x)' => promised'[x] <= link'[x].expire
    BY <1>1, <2>0 DEF PoliteInv, Lives
  <2> QED BY <2>0, <2>1, <2>2, <2>3, <2>4 DEF PoliteInv
<1> QED BY <1>2, <1>3, <1>4, <1>5, <1>6 DEF OtpInv

\* A refreshed link keeps its phone and lives as long as any promise.
LEMMA LinkRefreshed ==
  ASSUME OtpInv, LinkInv, RequestShape, LinkTypes, NEW r \in Requests, RefreshLink(r), UNCHANGED now
  PROVE  OtpInv'
<1>1. /\ pc[r] = "refresh" /\ pc'[r] = "done" /\ Moves(r)
      /\ UNCHANGED <<told, crossed, promised, verified, polite>>
  BY RefreshEffect
<1>2. CASE UNCHANGED link
  BY <1>1, <1>2, CodesFade DEF Special, Fade, Lives, Stored
<1>3. ASSUME NEW l \in Makers, Lives(l),
             Written(l, [phone |-> link[l].phone, otp |-> r, expire |-> now + Life,
                         uid |-> link[l].uid + 1, at |-> link[l].at])
      PROVE  OtpInv'
  <2> DEFINE k == [phone |-> link[l].phone, otp |-> r, expire |-> now + Life,
                   uid |-> link[l].uid + 1, at |-> link[l].at]
  <2>1. k.otp = r /\ k.phone = link[l].phone /\ promised[l] <= k.expire
    BY DEF OtpInv, PromisesFit
  <2>2. Written(l, k)
    BY <1>3
  <2> HIDE DEF k
  <2>3. k.otp \in {r, None, Plain} /\ (l = r \/ (Lives(l) /\ k.phone = link[l].phone)) /\ ~Stored(r)
    BY <1>1, <1>3, <2>1 DEF Stored
  <2> QED BY <1>1, <2>1, <2>2, <2>3, CodeUntold
<1> QED BY <1>2, <1>3, RefreshEffect

\* A new link has not been promised to anybody.
LEMMA LinkAdded ==
  ASSUME OtpInv, LinkInv, RequestShape, LinkTypes, NEW r \in Requests, UNCHANGED now,
         \/ NewLinkForPhone(r)
         \/ \E p \in Phones, e \in Dates : CreateTempLink(r, p, e)
         \/ DevLink(r)
  PROVE  OtpInv'
<1>1. /\ pc[r] \in {"idle", "addLink", "devLink"} /\ pc'[r] = "done" /\ Moves(r)
      /\ UNCHANGED <<told, crossed, promised, verified, polite>>
  BY AddEffect
<1>2. PICK p \in Phones \cup {None}, code \in {r, None, Plain}, e \in Nat :
        Written(r, [phone |-> p, otp |-> code, expire |-> e, uid |-> 1, at |-> Newest + 1])
  BY AddEffect
<1> DEFINE k == [phone |-> p, otp |-> code, expire |-> e, uid |-> 1, at |-> Newest + 1]
<1>3. Written(r, k) /\ k.otp = code /\ k.expire = e
  BY <1>2
<1> HIDE DEF k
<1>4. promised[r] = 0
  BY <1>1 DEF OtpInv, PromisesFit, MadeOnce, Makers
<1>5. promised[r] <= k.expire /\ ~Stored(r) /\ k.otp \in {r, None, Plain}
  BY <1>1, <1>3, <1>4 DEF Stored
<1> QED BY <1>1, <1>3, <1>5, CodeUntold

\* A request that writes writes alone, so that what others have read is true
\* when it moves on.
LEMMA WritesAlone ==
  ASSUME PoliteInv, NEW r \in Requests, Writing(r), Moves(r)
  PROVE  /\ \A q \in Requests \ {r} : ~Writing(q) /\ ~Writing(q)'
         /\ OneWrites'
<1>1. \A q \in Requests \ {r} : ~Writing(q)
  BY DEF PoliteInv, OneWrites
<1>2. \A q \in Requests \ {r} : ~Writing(q)'
  BY <1>1 DEF Writing, Moves
<1> QED BY <1>1, <1>2 DEF OneWrites

\* The phone and the code are stored together.
LEMMA CodeStored ==
  ASSUME OtpInv, LinkInv, RequestShape, LinkTypes, NEW r \in Requests, StoreOTP(r), UNCHANGED now
  PROVE  OtpInv'
<1>1. /\ pc[r] = "otp" /\ req[r].link \in Makers /\ Moves(r)
      /\ UNCHANGED <<told, crossed, promised, verified, polite>>
  BY StoreEffect
<1>2. CASE UNCHANGED link /\ pc'[r] = "done"
  BY <1>1, <1>2, CodesFade DEF Special, Fade, Lives, Stored
<1>3. CASE ~(UNCHANGED link /\ pc'[r] = "done")
  <2> DEFINE l == req[r].link
             k == [phone |-> req[r].phone, otp |-> r, expire |-> link[l].expire,
                   uid |-> link[l].uid, at |-> link[l].at]
  <2>1. Lives(l) /\ pc'[r] = "sendOtp" /\ req'[r] = req[r] /\ Written(l, k)
    BY <1>3, StoreEffect
  <2>2. PICK m \in Makers : m = l
    BY <1>1
  <2>3. k.otp = r /\ k.phone = req[r].phone /\ k.expire = link[m].expire
    BY <2>2
  <2> HIDE DEF k
  <2>4. /\ Lives(m) /\ link'[m].otp = r /\ link'[m].phone = req[r].phone
        /\ link'[m].expire = link[m].expire
        /\ \A x \in Makers \ {m} : link'[x] = link[x]
    BY <2>1, <2>2, <2>3 DEF Written
  <2> HIDE DEF l
  <2>5. ToldIsOver'
    BY <1>1, <2>1 DEF OtpInv, ToldIsOver, Moves
  <2>6. CodesFit'
    <3>1. \A q \in Requests : Stored(q) => Stored(q)' /\ For(q)' \in {None, For(q)}
      BY <1>1, ForStays DEF Stored
    <3>2. FitsNext(r, req[r].phone)
      BY <2>1 DEF FitsNext, Stored, For
    <3>3. \A x \in Makers : Lives(x)' /\ link'[x].otp \in Requests =>
            \/ /\ Lives(x) /\ link'[x].otp = link[x].otp
               /\ link'[x].phone = link[x].phone
            \/ \E q, p : /\ q = link'[x].otp /\ p = link'[x].phone
                       /\ FitsNext(q, p)
      BY <2>4, <3>2 DEF Lives
    <3> QED BY <1>1, <2>1, <3>1, <3>3, CodesStay DEF OtpInv
  <2>7. PromisesFit'
    BY <1>1, MadeStays DEF OtpInv, PromisesFit
  <2>8. ReadWasMade'
    BY <1>1, <2>1, ReadKept
  <2>9. ASSUME polite PROVE PoliteInv'
    <3>0. PoliteInv
      BY <2>9 DEF OtpInv
    <3>1. OneWrites' /\ \A q \in Requests \ {r} : ~Writing(q) /\ ~Writing(q)'
      BY <1>1, <3>0, WritesAlone DEF Writing
    <3>2. PhoneIsRead' /\ EndIsRead'
      BY <2>1, <3>1 DEF PhoneIsRead, EndIsRead, Writing
    <3>7. \A x \in Makers : Lives(x)' => promised'[x] <= link'[x].expire
      BY <1>1, <2>4, <3>0 DEF PoliteInv, Lives
    <3> QED BY <1>1, <3>0, <3>1, <3>2, <3>7 DEF PoliteInv
  <2> QED BY <1>1, <2>5, <2>6, <2>7, <2>8, <2>9 DEF OtpInv
<1> QED BY <1>2, <1>3

\* The new code is told in the name of the phone that was read: the one in the
\* link, or the code is marked.
LEMMA CodeRestored ==
  ASSUME OtpInv, LinkInv, RequestShape, LinkTypes, NEW r \in Requests, StoreNewOTP(r),
         UNCHANGED now
  PROVE  OtpInv'
<1>1. /\ pc[r] = "resend" /\ req[r].link \in Makers /\ Moves(r)
      /\ UNCHANGED <<told, verified, polite>>
  BY StoreNewEffect
<1>2. CASE UNCHANGED <<link, promised, crossed>> /\ pc'[r] = "done"
  BY <1>1, <1>2, CodesFade DEF Special, Fade, Lives, Stored
<1>3. CASE ~(UNCHANGED <<link, promised, crossed>> /\ pc'[r] = "done")
  <2> DEFINE l == req[r].link
             k == [phone |-> link[l].phone, otp |-> r, expire |-> now + Life,
                   uid |-> link[l].uid, at |-> link[l].at]
  <2>1. /\ Lives(l) /\ pc'[r] = "sendAgain" /\ req'[r] = req[r] /\ Written(l, k)
        /\ promised' = [promised EXCEPT ![l] = now + Life]
        /\ crossed' = crossed \cup {q \in {r} : link[l].phone # req[r].phone}
    BY <1>3, StoreNewEffect
  <2>2. PICK m \in Makers : m = l
    BY <1>1
  <2>3. k.otp = r /\ k.phone = link[m].phone /\ k.expire = now + Life
    BY <2>2
  <2> HIDE DEF k
  <2>4. /\ Lives(m) /\ link'[m].otp = r /\ link'[m].phone = link[m].phone
        /\ link'[m].expire = now + Life
        /\ \A x \in Makers \ {m} : link'[x] = link[x]
        /\ \A x \in Makers : promised'[x] = IF x = m THEN now + Life ELSE promised[x]
    BY <2>1, <2>2, <2>3 DEF Written, LinkTypes
  <2>10. /\ req[r].link = m
         /\ crossed' = crossed \cup {q \in {r} : link[m].phone # req[r].phone}
    BY <2>1, <2>2
  <2> HIDE DEF l
  <2>11. now + Life \in Nat
    BY TimeNat DEF LinkTypes, Life
  <2>5. ToldIsOver'
    BY <1>1, <2>1 DEF OtpInv, ToldIsOver, Moves
  <2>6. CodesFit'
    <3>1. \A q \in Requests : Stored(q) => Stored(q)' /\ For(q)' \in {None, For(q)}
      BY <1>1, ForStays DEF Stored
    <3>2. FitsNext(r, link[m].phone)
      BY <2>1, <2>10 DEF FitsNext, Stored, For
    <3>3. \A x \in Makers : Lives(x)' /\ link'[x].otp \in Requests =>
            \/ /\ Lives(x) /\ link'[x].otp = link[x].otp
               /\ link'[x].phone = link[x].phone
            \/ \E q, p : /\ q = link'[x].otp /\ p = link'[x].phone
                       /\ FitsNext(q, p)
      BY <2>4, <3>2 DEF Lives
    <3> QED BY <1>1, <2>1, <2>10, <3>1, <3>3, CodesStay DEF OtpInv
  <2>7. PromisesFit'
    <3>1. MadeOnce(m)'
      BY <1>1, <2>4, MadeStays DEF LinkInv
    <3> QED BY <1>1, <2>4, <2>11, <3>1, MadeStays DEF OtpInv, PromisesFit
  <2>8. ReadWasMade'
    BY <1>1, <2>1, ReadKept
  <2>9. ASSUME polite PROVE PoliteInv'
    <3>0. PoliteInv
      BY <2>9 DEF OtpInv
    <3>1. OneWrites' /\ \A q \in Requests \ {r} : ~Writing(q) /\ ~Writing(q)'
      BY <1>1, <3>0, WritesAlone DEF Writing
    <3>2. PhoneIsRead' /\ EndIsRead'
      BY <2>1, <3>1 DEF PhoneIsRead, EndIsRead, Writing
    <3>3. crossed' = {}
      <4>1. link[m].phone = req[r].phone
        BY <1>1, <2>4, <2>10, <3>0 DEF PoliteInv, PhoneIsRead
      <4> QED BY <2>10, <3>0, <4>1 DEF PoliteInv
    <3>7. \A x \in Makers : Lives(x)' => promised'[x] <= link'[x].expire
      <4> SUFFICES ASSUME NEW x \in Makers, Lives(x)' PROVE promised'[x] <= link'[x].expire
        OBVIOUS
      <4>1. CASE x = m
        BY <2>4, <2>11, <4>1
      <4>2. CASE x # m
        BY <2>4, <3>0, <4>2 DEF PoliteInv, Lives
      <4> QED BY <4>1, <4>2
    <3> QED BY <3>1, <3>2, <3>3, <3>7 DEF PoliteInv
  <2> QED BY <1>1, <2>5, <2>6, <2>7, <2>8, <2>9 DEF OtpInv
<1> QED BY <1>2, <1>3

\* A code is told as it was to be told, or to nobody.
LEMMA CodeTold ==
  ASSUME OtpInv, RequestShape, LinkTypes, NEW r \in Requests, SendOTP(r) \/ SendAgain(r),
         UNCHANGED now
  PROVE  OtpInv'
<1>1. /\ pc[r] \in {"sendOtp", "sendAgain"} /\ pc'[r] = "done" /\ Moves(r)
      /\ UNCHANGED <<link, crossed, promised, verified, polite>>
  BY SendEffect
<1>2. /\ told'[r] = None \/ told'[r] = req[r].phone
      /\ \A q \in Requests \ {r} : told'[q] = told[q]
  <2>1. told[r] = None
    BY <1>1 DEF OtpInv, ToldIsOver
  <2> QED BY <2>1, SendEffect DEF LinkTypes
<1>3. ToldIsOver'
  BY <1>1, <1>2 DEF OtpInv, ToldIsOver, Moves
<1>4. CodesFit'
  <2>1. \A q \in Requests : Stored(q) => Stored(q)' /\ For(q)' \in {None, For(q)}
    BY <1>1, <1>2 DEF Stored, For, Moves
  <2> QED BY <1>1, <2>1, CodesStay DEF OtpInv, Lives
<1>5. PromisesFit'
  BY <1>1, MadeStays DEF OtpInv, PromisesFit
<1>6. ReadWasMade'
  BY <1>1, ReadKept
<1>7. ASSUME polite PROVE PoliteInv'
  <2>0. PoliteInv
    BY <1>7 DEF OtpInv
  <2>1. OneWrites' /\ \A q \in Requests \ {r} : ~Writing(q) /\ ~Writing(q)'
    BY <1>1, <2>0, WritesAlone DEF Writing
  <2>2. PhoneIsRead' /\ EndIsRead'
    BY <1>1, <2>1 DEF PhoneIsRead, EndIsRead, Writing
  <2>3. \A x \in Makers : Lives(x)' => promised'[x] <= link'[x].expire
    BY <1>1, <2>0 DEF PoliteInv, Lives
  <2> QED BY <1>1, <2>0, <2>1, <2>2, <2>3 DEF PoliteInv
<1> QED BY <1>1, <1>3, <1>4, <1>5, <1>6, <1>7 DEF OtpInv

\* An update gives a date, and takes the promise back, or repeats the date it
\* has read.
LEMMA LinkExtended ==
  ASSUME OtpInv, RequestShape, LinkTypes, NEW r \in Requests, Extend(r), UNCHANGED now
  PROVE  OtpInv'
<1>1. /\ pc[r] = "extend" /\ req[r].link \in Makers /\ req[r].expire \in Nat
      /\ pc'[r] = "done" /\ Moves(r) /\ UNCHANGED <<told, crossed, verified, polite>>
  BY ExtendEffect
<1>2. CASE UNCHANGED <<link, promised>>
  BY <1>1, <1>2, CodesFade DEF Special, Fade, Lives, Stored
<1>3. CASE ~UNCHANGED <<link, promised>>
  <2> DEFINE l == req[r].link
             k == [phone |-> link[l].phone, otp |-> link[l].otp, expire |-> req[r].expire,
                   uid |-> link[l].uid, at |-> link[l].at]
  <2>1. /\ Lives(l) /\ Written(l, k)
        /\ promised' = IF req[r].given THEN [promised EXCEPT ![l] = 0] ELSE promised
    BY <1>3, ExtendEffect
  <2>2. PICK m \in Makers : m = l
    BY <1>1
  <2>3. k.otp = link[m].otp /\ k.phone = link[m].phone /\ k.expire = req[r].expire
    BY <2>2
  <2> HIDE DEF k
  <2>4. /\ Lives(m) /\ link'[m].otp = link[m].otp /\ link'[m].phone = link[m].phone
        /\ link'[m].expire = req[r].expire
        /\ \A x \in Makers \ {m} : link'[x] = link[x]
    BY <2>1, <2>2, <2>3 DEF Written
  <2>10. req[r].link = m
    BY <2>2
  <2>11. /\ \A x \in Makers \ {m} : promised'[x] = promised[x]
         /\ promised'[m] = 0 \/ (~req[r].given /\ promised'[m] = promised[m])
    <3>1. CASE req[r].given
      BY <2>1, <2>2, <3>1 DEF LinkTypes
    <3>2. CASE ~req[r].given
      BY <2>1, <3>2
    <3> QED BY <3>1, <3>2
  <2> HIDE DEF l
  <2>12. \A x \in Makers : promised'[x] = 0 \/ promised'[x] = promised[x]
    BY <2>11
  <2>13. \A x \in Makers : link'[x].otp = link[x].otp /\ link'[x].phone = link[x].phone
    BY <2>4
  <2>14. \A x \in Makers : Lives(x)' => Lives(x)
    BY <2>4 DEF Lives
  <2>5. ToldIsOver'
    BY <1>1 DEF OtpInv, ToldIsOver, Moves
  <2>6. CodesFit'
    <3>1. \A q \in Requests : Stored(q) => Stored(q)' /\ For(q)' \in {None, For(q)}
      BY <1>1, ForStays DEF Stored
    <3> QED BY <1>1, <2>13, <2>14, <3>1, CodesStay DEF OtpInv
  <2>7. PromisesFit'
    <3>1. now + Life \in Nat
      BY TimeNat DEF LinkTypes, Life
    <3> QED BY <1>1, <2>12, <3>1, MadeStays DEF OtpInv, PromisesFit
  <2>8. ReadWasMade'
    BY <1>1, ReadKept
  <2>9. ASSUME polite PROVE PoliteInv'
    <3>0. PoliteInv
      BY <2>9 DEF OtpInv
    <3>1. OneWrites' /\ \A q \in Requests \ {r} : ~Writing(q) /\ ~Writing(q)'
      BY <1>1, <3>0, WritesAlone DEF Writing
    <3>2. PhoneIsRead' /\ EndIsRead'
      BY <1>1, <3>1 DEF PhoneIsRead, EndIsRead, Writing
    <3>7. \A x \in Makers : Lives(x)' => promised'[x] <= link'[x].expire
      <4> SUFFICES ASSUME NEW x \in Makers, Lives(x)' PROVE promised'[x] <= link'[x].expire
        OBVIOUS
      <4>1. CASE x = m
        <5>1. req[r].given \/ promised[m] <= req[r].expire
          BY <1>1, <2>10, <3>0 DEF PoliteInv, EndIsRead
        <5> QED BY <1>1, <2>4, <2>11, <4>1, <5>1
      <4>2. CASE x # m
        BY <2>4, <2>11, <3>0, <4>2 DEF PoliteInv, Lives
      <4> QED BY <4>1, <4>2
    <3> QED BY <1>1, <3>0, <3>1, <3>2, <3>7 DEF PoliteInv
  <2> QED BY <1>1, <2>5, <2>6, <2>7, <2>8, <2>9 DEF OtpInv
<1> QED BY <1>2, <1>3

\* A handler that reads links.
LEMMA LinkRead ==
  ASSUME OtpInv, LinkInv, RequestShape, LinkTypes, NEW r \in Requests, Moves(r), Reads(r),
         UNCHANGED <<linkRows, polite, now>>
  PROVE  OtpInv'
<1>1. Moves(r) /\ pc[r] # "done"
  BY ReadsPlace
<1> USE DEF Start, Goto, RequestShape, Everyone
<1>2. ASSUME NEW l \in Makers, NEW p \in Phones, CreateOTP(r, l, p) PROVE OtpInv'
  <2>1. /\ Lives(l) /\ (polite => NobodyWritesOTP)
        /\ pc[r] = "idle" /\ pc'[r] = "otp" /\ req'[r].link = l
    BY <1>2 DEF CreateOTP
  <2> QED BY <1>1, <2>1, CodeAsked
<1>3. ASSUME NEW l \in Makers, ReSendOTP(r, l) PROVE OtpInv'
  <2>1. /\ Lives(l) /\ (polite => NobodyWritesOTP)
        /\ pc[r] = "idle" /\ pc'[r] = "resend" /\ req'[r].link = l /\ req'[r].phone = link[l].phone
    BY <1>3 DEF ReSendOTP
  <2> QED BY <1>1, <2>1, CodeAsked
<1>4. ASSUME NEW p \in Phones, NEW code \in Requests, VerifyOTP(r, p, code) PROVE OtpInv'
  BY <1>4, CodeMatches
<1>5. ASSUME NEW l \in Makers, NEW e \in Dates \cup {None}, UpdateTempLink(r, l, e)
      PROVE  OtpInv'
  <2> DEFINE g == e # None
             d == IF e = None THEN link[l].expire ELSE e
  <2>1. /\ Lives(l) /\ (polite => NobodyWritesOTP)
        /\ pc[r] = "idle" /\ pc'[r] = "extend"
        /\ req'[r] = [link |-> l, uid |-> link[l].uid, given |-> g, expire |-> d]
    BY <1>5 DEF UpdateTempLink
  <2>2. g \/ d = link[l].expire
    OBVIOUS
  <2> HIDE DEF g, d
  <2>3. req'[r].link = l /\ req'[r].given = g /\ req'[r].expire = d
    BY <2>1
  <2>4. req'[r].given \/ req'[r].expire = link[l].expire
    BY <2>2, <2>3
  <2> QED BY <1>1, <2>1, <2>3, <2>4, CodeAsked
<1>6. CASE \/ \E p \in Phones : GetCustomerByPhone(r, p)
           \/ \E l \in Makers : DeleteTempLink(r, l)
           \/ \E m \in Merchants : RegisterCustomerDev(r, m)
           \/ LookForLink(r)
  <2>1. pc'[r] \notin Special /\ ~Stored(r)
    BY <1>1, <1>6 DEF GetCustomerByPhone, DeleteTempLink, RegisterCustomerDev, LookForLink, At,
       Finish, Special, Stored
  <2> QED BY <1>1, <2>1, CodesFade DEF Fade, linkRows, Lives
<1> QED BY <1>2, <1>3, <1>4, <1>5, <1>6 DEF Reads

\* Nothing has been told or promised in the beginning.
LEMMA InitCodes == Init => OtpInv
<1> SUFFICES ASSUME Init PROVE OtpInv
  OBVIOUS
<1> USE DEF Init
<1>1. PICK p \in Phones \cup {None} :
     link = [l \in Makers |->
               IF l = Old THEN [phone |-> p, otp |-> None, expire |-> 0, uid |-> 1, at |-> 1]
               ELSE NoLink]
  OBVIOUS
<1>2. \A l \in Makers : Lives(l) => l = Old /\ link[l].otp = None /\ link[l].expire = 0
  BY <1>1 DEF Lives
<1>3. None \notin Requests
  BY Distinct
<1>4. ToldIsOver /\ CodesFit /\ ReadWasMade
  BY <1>2, <1>3 DEF ToldIsOver, CodesFit, LinksFit, SeenFit, VerifiedFit, ReadWasMade
<1>5. PromisesFit
  BY DEF PromisesFit, Life
<1>6. PoliteInv
  BY <1>2, <1>3 DEF PoliteInv, OneWrites, PhoneIsRead, EndIsRead, Writing
<1> QED BY <1>4, <1>5, <1>6 DEF OtpInv

\* Every step keeps what is known of codes and promises.
LEMMA StepCodes == AccountInv /\ LinkInv /\ ShapeInv /\ OtpInv /\ [Next]_vars => OtpInv'
<1> SUFFICES ASSUME AccountInv, LinkInv, ShapeInv, OtpInv, [Next]_vars PROVE OtpInv'
  OBVIOUS
<1> USE DEF ShapeInv
<1>1. ASSUME NEW r \in Requests, MerchantStep(r), UNCHANGED <<linkRows, now>> PROVE OtpInv'
  <2>1. Moves(r) /\ pc[r] # "done" /\ pc'[r] \in {"done"} \cup MerchantPlaces /\ UNCHANGED polite
    BY <1>1, MerchantMoves, MerchantPlace
  <2>2. ~Stored(r)
    BY <1>1, <2>1 DEF Stored, MerchantStep, Register, CommitUser, CreateMerchant, CommitMerchant, AdmitMerchant,
       AdmitSeller, DeleteMerchant, CommitDeletion, At, Start
  <2> QED BY <1>1, <2>1, <2>2, CodesFade DEF Special, MerchantPlaces, Fade, linkRows, Lives
<1>2. ASSUME NEW r \in Requests, LinkStep(r) \/ CustomerStep(r), UNCHANGED now PROVE OtpInv'
  <2>1. CASE Reads(r) /\ UNCHANGED <<linkRows, customerRows, polite>>
    <3>1. Moves(r)
      BY <1>2, LinkMoves, CustomerMoves
    <3> QED BY <1>2, <2>1, <3>1, LinkRead
  <2>2. CASE RefreshLink(r) \/ StoreOTP(r) \/ StoreNewOTP(r) \/ SendOTP(r) \/ SendAgain(r) \/ Extend(r)
    BY <1>2, <2>2, LinkRefreshed, CodeStored, CodeRestored, CodeTold, LinkExtended
  <2>3. CASE NewLinkForPhone(r) \/ (\E p \in Phones, e \in Dates : CreateTempLink(r, p, e)) \/ DevLink(r)
    BY <1>2, <2>3, LinkAdded
  <2>4. CASE DropLink(r) \/ DeleteVerified(r) \/ Clear(r)
    BY <1>2, <2>4, RemoveEffect, CodesFade DEF Special, Stored
  <2>5. CASE /\ \/ \E m \in Merchants, p \in Phones, e \in Emails : CreateCustomer(r, m, p, e)
                \/ \E p \in Phones : ClearCustomerByPhone(r, p)
                \/ FindCustomer(r) \/ JoinMerchant(r) \/ InsertCustomer(r)
             /\ UNCHANGED <<linkRows, polite>>
    <3>1. Moves(r)
      BY <1>2, LinkMoves, CustomerMoves
    <3>2. /\ pc[r] \in {"idle", "find", "join", "insert"}
          /\ pc'[r] \in {"find", "clear", "join", "insert", "done"}
      BY <2>5 DEF CreateCustomer, ClearCustomerByPhone, FindCustomer, JoinMerchant, InsertCustomer,
         Start, Goto, Finish, At, RequestShape, Everyone
    <3> QED BY <1>2, <2>5, <3>1, <3>2, CodesFade DEF Special, Stored, Fade, linkRows, Lives
  <2> QED BY <1>2, <2>1, <2>2, <2>3, <2>4, <2>5, LinkCases
<1>3. CASE Tick \/ UNCHANGED vars
  <2>1. /\ UNCHANGED <<req, pc, polite, link, told, crossed, promised, verified>>
        /\ now' \in Nat /\ now \in Nat /\ now <= now'
    BY <1>3, TimeNat DEF Tick, vars, linkRows, LinkTypes
  <2>2. PromisesFit'
    BY <2>1 DEF OtpInv, PromisesFit, MadeOnce, Life, LinkTypes
  <2>3. ToldIsOver' /\ CodesFit' /\ ReadWasMade'
    BY <2>1 DEF OtpInv, ToldIsOver, CodesFit, LinksFit, SeenFit, VerifiedFit, Fits, Stored, For,
       ReadWasMade, MadeOnce, Lives
  <2>4. polite => PoliteInv'
    BY <2>1 DEF OtpInv, PoliteInv, OneWrites, PhoneIsRead, EndIsRead, Writing, Lives
  <2> QED BY <2>1, <2>2, <2>3, <2>4 DEF OtpInv
<1> QED BY <1>1, <1>2, <1>3 DEF Next

\* Codes keep to the phones and promises to the links they were made for.
THEOREM CodesInductive == Spec => []OtpInv
<1> QED BY InitCodes, StepCodes, AccountsInductive, LinksInductive, ShapesInductive, PTL DEF Spec

\* No code that was told in the name of one phone verifies another, unless it was
\* stored by ReSendOTP after CreateOTP replaced the phone it had read; and among
\* polite clients, whose requests for OTPs do not overlap, there is no such code
\* and a link lives as long as the person was told (CreateOTP.execute,
\* ReSendOTP.execute, VerifyOTP.execute).
THEOREM OtpStaysPersonal == Spec => []OtpIsPersonal
<1>1. ShapeInv /\ OtpInv => OtpIsPersonal
  <2> SUFFICES ASSUME ShapeInv, OtpInv PROVE OtpIsPersonal
    OBVIOUS
  <2>1. VerifiedByReceiver
    <3> SUFFICES ASSUME NEW v \in verified, v.code \notin crossed
                 PROVE  told[v.code] \in {None, v.phone}
      BY DEF VerifiedByReceiver
    <3>1. Fits(v.code, v.phone)
      BY DEF OtpInv, CodesFit, VerifiedFit
    <3>2. told[v.code] = None \/ For(v.code) = told[v.code]
      BY <3>1 DEF Fits, OtpInv, ToldIsOver, For
    <3> QED BY <3>1, <3>2 DEF Fits
  <2>2. NoneCrosses /\ PromiseKept
    BY DEF OtpInv, PoliteInv, NoneCrosses, PromiseKept
  <2> QED BY <2>1, <2>2 DEF OtpIsPersonal
<1> QED BY <1>1, CodesInductive, ShapesInductive, PTL
===============================================================================
