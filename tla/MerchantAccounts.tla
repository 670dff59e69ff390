-------------------------- MODULE MerchantAccounts --------------------------
(***************************************************************************)
(* Users of the back office, their merchants and the wallets of both.  A   *)
(* user has one master seed; the wallets of the user's merchants are       *)
(* derived from it, two for each merchant: one to hold and one to sell.    *)
(*                                                                         *)
(*   anybody    Register (AuthService.register)                            *)
(*   user       CreateMerchant, DeleteMerchant                             *)
(*                                                                         *)
(* The address of a derived wallet is the pair of the seed's user and the  *)
(* index, and is unique in the table of wallets.  A request is used once;  *)
(* the merchant it creates is named after it.  CustomerOnboarding extends  *)
(* this module by the customers of the merchants.                          *)
(***************************************************************************)
EXTENDS Integers, FiniteSets

CONSTANTS
  Users,
  Phones,
  Requests,     \* HTTP requests
  Old,          \* the merchant there is in the beginning
  None,         \* SQL NULL, and the phone '' of a merchant without one
  MaxIndex,     \* bound: derived wallets of a user
  MaxFaults     \* bound: calls that raise

ASSUME Distinct == Old \notin Requests /\ None \notin Phones \cup Users \cup Requests
ASSUME Limits   == MaxIndex \in Nat /\ MaxIndex >= 2 /\ MaxFaults \in Nat

VARIABLES
  next,        \* User.nextDerivationIndex, 0 before the user exists
  wallet,      \* derived Wallet rows
  merchant,    \* Merchant rows: owner, and the index of the first wallet
  key,         \* merchants with an ApiKey row
  given,       \* history: the merchants each address was made for
  shared,      \* history: first wallets whose phone was taken when they came
  whitelist,   \* addresses the marketplace accepts
  req,         \* arguments of a request and what it has read
  pc,          \* where a request stands
  polite,      \* whether clients keep out of each other's way
  faults

merchantRows == <<next, wallet, merchant, key, given, shared, whitelist>>

Merchants == Requests \cup {Old}
Indices   == 1 .. MaxIndex
Addresses == Users \X Indices

Wallet     == [type: {"merchant", "seller"}, phone: Phones \cup {None}]
Merchant   == [user: Users, index: Indices]
NoRow      == [type |-> "none"]
NoMerchant == [user |-> None]

MerchantReqs == [user: Users, phone: Phones \cup {None}, index: Indices]
                  \cup [user: Users] \cup [merchant: Merchants]
MerchantPlaces == {"register", "createMerchant", "whitelist", "whitelistSeller",
                   "deleteMerchant"}

MerchantTypeOK ==
  /\ next \in [Users -> Nat]
  /\ wallet \in [Addresses -> Wallet \cup {NoRow}]
  /\ merchant \in [Merchants -> Merchant \cup {NoMerchant}]
  /\ key \subseteq Merchants
  /\ given \in [Addresses -> SUBSET Merchants]
  /\ shared \subseteq Addresses
  /\ whitelist \subseteq Addresses
  /\ polite \in BOOLEAN
  /\ faults \in Nat

MerchantInit ==
  \E u \in Users, p \in Phones :
    /\ next = [v \in Users |-> IF v = u THEN 3 ELSE 0]
    /\ wallet = [a \in Addresses |->
                   CASE a = <<u, 1>> -> [type |-> "merchant", phone |-> p]
                     [] a = <<u, 2>> -> [type |-> "seller", phone |-> p]
                     [] OTHER        -> NoRow]
    /\ merchant = [m \in Merchants |->
                     IF m = Old THEN [user |-> u, index |-> 1] ELSE NoMerchant]
    /\ key = {Old}
    /\ given = [a \in Addresses |-> IF a \in {u} \X {1, 2} THEN {Old} ELSE {}]
    /\ shared = {}
    /\ whitelist = {u} \X {1, 2}
    /\ polite \in BOOLEAN
    /\ faults = 0

-----------------------------------------------------------------------------
Goto(r, place) == pc' = [pc EXCEPT ![r] = place]
Start(r, place, args) == /\ pc[r] = "idle"
                         /\ Goto(r, place)
                         /\ req' = [req EXCEPT ![r] = args]
Finish(r) == Goto(r, "done") /\ req' = [req EXCEPT ![r] = None]
Raises    == faults < MaxFaults /\ faults' = faults + 1

At(r, place) == pc[r] = place
Nobody(places) == \A r \in Requests : pc[r] \notin places

Exists(m) == merchant[m] # NoMerchant

(* Register: no user has the e-mail; later, in one transaction, the master *)
(* wallet and the user, whose e-mail is unique.                            *)

Register(r, u) ==
  /\ next[u] = 0
  /\ Start(r, "register", [user |-> u])
  /\ UNCHANGED <<merchantRows, polite, faults>>

CommitUser(r) ==
  /\ At(r, "register")
  /\ \/ /\ next[req[r].user] = 0
        /\ next' = [next EXCEPT ![req[r].user] = 1]
        /\ UNCHANGED faults
     \/ next[req[r].user] # 0 /\ UNCHANGED <<next, faults>>
     \/ Raises /\ UNCHANGED next
  /\ Finish(r)
  /\ UNCHANGED <<wallet, merchant, key, given, shared, whitelist, polite>>

(* CreateMerchant: the phone and the next index are read outside of the    *)
(* transaction that uses them.                                             *)

PhoneFree(p) ==
  p # None => \A a \in Addresses : wallet[a] # [type |-> "merchant", phone |-> p]

CreateMerchant(r, u, p) ==
  /\ next[u] # 0 /\ next[u] + 1 \in Indices
  /\ PhoneFree(p)
  /\ Start(r, "createMerchant", [user |-> u, phone |-> p, index |-> next[u]])
  /\ UNCHANGED <<merchantRows, polite, faults>>

\* deriveChildWallet, for the merchant and for the seller
First(r)  == <<req[r].user, req[r].index>>
Second(r) == <<req[r].user, req[r].index + 1>>

AddressesFree(r) == wallet[First(r)] = NoRow /\ wallet[Second(r)] = NoRow

\* Both wallets, the user's next index, the merchant with its user, and a
\* first API key.
InsertWallets(r) ==
  wallet' = [wallet EXCEPT ![First(r)]  = [type |-> "merchant", phone |-> req[r].phone],
                           ![Second(r)] = [type |-> "seller", phone |-> req[r].phone]]
NextIndex(r)  == req[r].index + 2
InsertMerchant(r) ==
  merchant' = [merchant EXCEPT ![r] = [user |-> req[r].user, index |-> req[r].index]]

InsertAll(r) ==
  /\ InsertWallets(r)
  /\ next' = [next EXCEPT ![req[r].user] = NextIndex(r)]
  /\ InsertMerchant(r)
  /\ key' = key \cup {r}
  /\ given' = [given EXCEPT ![First(r)] = @ \cup {r}, ![Second(r)] = @ \cup {r}]
  /\ shared' = shared \cup {a \in {First(r)} : ~PhoneFree(req[r].phone)}

Persist(r) ==
  \/ /\ AddressesFree(r)
     /\ InsertAll(r)
     /\ Goto(r, "whitelist")
     /\ UNCHANGED <<req, faults>>
  \/ /\ \/ ~AddressesFree(r) /\ UNCHANGED faults
        \/ Raises
     /\ Finish(r)
     /\ UNCHANGED <<next, wallet, merchant, key, given, shared>>

CommitMerchant(r) ==
  /\ At(r, "createMerchant")
  /\ Persist(r)
  /\ UNCHANGED <<whitelist, polite>>

\* A call that fails ends the whitelisting, and nothing else.
AdmitMerchant(r) ==
  /\ At(r, "whitelist")
  /\ \/ /\ whitelist' = whitelist \cup {First(r)}
        /\ Goto(r, "whitelistSeller")
        /\ UNCHANGED <<req, faults>>
     \/ Raises /\ Finish(r) /\ UNCHANGED whitelist
  /\ UNCHANGED <<next, wallet, merchant, key, given, shared, polite>>

AdmitSeller(r) ==
  /\ At(r, "whitelistSeller")
  /\ \/ whitelist' = whitelist \cup {Second(r)} /\ UNCHANGED faults
     \/ Raises /\ UNCHANGED whitelist
  /\ Finish(r)
  /\ UNCHANGED <<next, wallet, merchant, key, given, shared, polite>>

(* DeleteMerchant: one transaction for the merchant, what hangs on it, and *)
(* its first wallet.                                                       *)

DeleteMerchant(r, m) ==
  /\ Exists(m)
  /\ Start(r, "deleteMerchant", [merchant |-> m])
  /\ UNCHANGED <<merchantRows, polite, faults>>

BothWallets(m) ==
  {merchant[m].user} \X {merchant[m].index, merchant[m].index + 1}

WalletsToDelete(m) == {<<merchant[m].user, merchant[m].index>>}

CommitDeletion(r) ==
  /\ At(r, "deleteMerchant")
  /\ LET m == req[r].merchant
     IN \/ /\ Exists(m)
           /\ wallet' = [a \in Addresses |->
                           IF a \in WalletsToDelete(m) THEN NoRow ELSE wallet[a]]
           /\ merchant' = [merchant EXCEPT ![m] = NoMerchant]
           /\ key' = key \ {m}
           /\ UNCHANGED faults
        \/ /\ \/ ~Exists(m) /\ UNCHANGED faults
              \/ Raises
           /\ UNCHANGED <<wallet, merchant, key>>
  /\ Finish(r)
  /\ UNCHANGED <<next, given, shared, whitelist, polite>>

MerchantStep(r) ==
  \/ \E u \in Users : Register(r, u)
  \/ CommitUser(r)
  \/ \E u \in Users, p \in Phones \cup {None} : CreateMerchant(r, u, p)
  \/ CommitMerchant(r)
  \/ AdmitMerchant(r)
  \/ AdmitSeller(r)
  \/ \E m \in Merchants : DeleteMerchant(r, m)
  \/ CommitDeletion(r)

-----------------------------------------------------------------------------
\* No address is ever made for two merchants: what is sent to an address
\* never reaches a merchant that has it from somebody else.  Two requests may
\* have read one index, and the first one's merchant may be deleted before
\* the second writes.
NoAddressReuse == \A a \in Addresses : Cardinality(given[a]) <= 1

\* The counter is ahead of every wallet of its user.
NextIsFree == \A a \in Addresses : wallet[a] # NoRow => a[2] < next[a[1]]

\* Creation and deletion are each done as a whole: they leave a merchant with
\* its two wallets and a key, and no wallet that holds without its merchant.
\* (Keys are also deleted one by one, and an update may give a merchant another
\* wallet: DeleteApiKey and UpdateMerchant are left out.)
WholeMerchants ==
  /\ \A m \in Merchants : Exists(m) =>
       /\ m \in key
       /\ wallet[<<merchant[m].user, merchant[m].index>>].type = "merchant"
       /\ wallet[<<merchant[m].user, merchant[m].index + 1>>].type = "seller"
  /\ \A a \in Addresses : wallet[a].type = "merchant" =>
       \E m \in Merchants : merchant[m] = [user |-> a[1], index |-> a[2]]

\* A creation whitelists its addresses after they came about.  (AddToWhitelist,
\* which takes any address, is left out.)
WhitelistedWereGiven == \A a \in whitelist : given[a] # {}

\* Why: the first wallet of a merchant has an odd index and goes with it, the
\* second one stays for ever.  So a request that has read an index somebody
\* else has used finds at least the second address taken, and what it inserts
\* is new.
Odd(i) == i % 2 = 1

MayInsert(r) ==
  LET u == req[r].user  i == req[r].index IN
  /\ u \in Users /\ req[r].phone \in Phones \cup {None}
  /\ i \in Indices /\ i + 1 \in Indices
  /\ Odd(i) /\ i <= next[u]

WasGiven(r) ==
  /\ {First(r), Second(r)} \subseteq Addresses
  /\ given[First(r)] # {} /\ given[Second(r)] # {}

RequestInv ==
  \A r \in Requests :
    /\ pc[r] \in {"idle", "createMerchant"} => ~Exists(r)
    /\ pc[r] = "createMerchant" => MayInsert(r)
    /\ pc[r] \in {"whitelist", "whitelistSeller"} => WasGiven(r)
    /\ pc[r] = "deleteMerchant" => req[r].merchant \in Merchants

IndexInv ==
  \A u \in Users :
    /\ next[u] = 0 \/ Odd(next[u])
    /\ \A i \in Indices : i < next[u] /\ ~Odd(i) => wallet[<<u, i>>].type = "seller"

AddressInv ==
  \A a \in Addresses :
    /\ given[a] # {} => a[2] < next[a[1]]
    /\ wallet[a] # NoRow => given[a] # {}
    /\ \E m \in Merchants : given[a] \subseteq {m}

HomeInv ==
  \A m \in Merchants : Exists(m) =>
    LET u == merchant[m].user  i == merchant[m].index IN
    /\ Odd(i) /\ i + 1 \in Indices /\ i + 1 < next[u]
    /\ given[<<u, i>>] = {m}

AccountInv ==
  /\ MerchantTypeOK
  /\ DOMAIN req = Requests /\ DOMAIN pc = Requests
  /\ RequestInv /\ IndexInv /\ AddressInv /\ HomeInv
  /\ WholeMerchants /\ WhitelistedWereGiven

SellerWalletsByIndex(m) ==
  {a \in Addresses : a[2] = merchant[m].index + 1 /\ wallet[a].type = "seller"}

\* WalletDBService.getSellerWalletByMerchantId takes any of these.
SellerWallets(m) ==
  LET phone == wallet[<<merchant[m].user, merchant[m].index>>].phone
  IN {a \in Addresses : /\ a[2] = merchant[m].index + 1
                        /\ wallet[a] = [type |-> "seller", phone |-> phone]}

FirstOf(m)  == <<merchant[m].user, merchant[m].index>>
SecondOf(m) == <<merchant[m].user, merchant[m].index + 1>>

\* A merchant's seller wallet is looked for by index and phone, and not by
\* merchant.  Its own one is found; and of merchants that have a phone no other
\* living one's, but for a phone that two creations that overlapped have both
\* found free.  (What merchants that are gone have left may be found as well.)
SellerWalletIsOwn ==
  \A m \in Merchants : Exists(m) =>
    /\ SecondOf(m) \in SellerWallets(m)
    /\ wallet[FirstOf(m)].phone # None =>
         \A n \in Merchants : Exists(n) /\ SecondOf(n) \in SellerWallets(m) =>
           n = m \/ {FirstOf(m), FirstOf(n)} \cap shared # {}
=============================================================================
