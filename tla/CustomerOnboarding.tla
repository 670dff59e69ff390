------------------------- MODULE CustomerOnboarding -------------------------
(***************************************************************************)
(* How a person becomes a customer of a merchant: a temporary link is made *)
(* for a phone, a one-time password (OTP) is sent to the phone, the        *)
(* partner's page verifies it, and the partner creates the customer.       *)
(*                                                                         *)
(*   partner    GetCustomerByPhone, RegisterCustomerDev, CreateTempLink,   *)
(*              UpdateTempLink, DeleteTempLink, CreateCustomer,            *)
(*              ClearCustomerByPhone                                       *)
(*   person     CreateOTP, ReSendOTP, VerifyOTP                            *)
(*                                                                         *)
(* A handler reads, and later writes; only the creation and the clearing   *)
(* of a customer are transactions.  A row is named after the request that  *)
(* made it, and so is the OTP a request makes up.  MerchantAccounts is the *)
(* other half of the state: merchants may go while customers come.         *)
(***************************************************************************)
EXTENDS MerchantAccounts

CONSTANTS
  Emails,
  MaxTime,     \* bound: ticks of five minutes
  Workloads    \* bound: who may send the requests of a behaviour

Senders == {"user", "person", "partner"}

ASSUME TimeNat == MaxTime \in Nat
ASSUME WorkloadsOK == Workloads \subseteq [Requests -> Senders]

VARIABLES
  customer,     \* Customer rows
  custWallet,   \* Wallet rows of type customer
  joined,       \* CustomerMerChant rows
  cleared,      \* history: customers that were cleared
  link,         \* TempLinkCreateUser rows
  told,         \* history: the phone in whose name an OTP was told
  crossed,      \* history: OTPs stored in a link whose phone had changed
  promised,     \* history: when a link ends, as ReSendOTP told the person
  verified,     \* history: verifications that succeeded
  now,
  sender        \* who sends each request

linkRows     == <<link, told, crossed, promised, verified>>
customerRows == <<customer, custWallet, joined, cleared>>
vars == <<merchantRows, req, pc, polite, faults, customerRows, linkRows, now,
          sender>>

\* An OTP that is stored unhashed matches no code.
Plain == "plain"
ASSUME PlainIsNoCode == Plain \notin Requests

Makers     == Requests \cup {Old}
Customer   == [email: Emails, phone: Phones]
NoCustomer == [email |-> None]
\* The phone of a link is None while it holds the link's own uid.
Link   == [phone: Phones \cup {None}, otp: Requests \cup {None, Plain},
           expire: Nat, uid: Nat, at: Nat]
NoLink == [at |-> 0]
Life   == 1
\* Dates a partner gives: one that is over, and one far away.
Dates  == {0, MaxTime + Life}

CustomerReqs ==
  [phone: Phones]
    \cup [phone: Phones, link: Makers, uid: Nat]
    \cup [phone: Phones \cup {None}, link: Makers, uid: Nat]
    \cup [phone: Phones, link: Makers, uid: Nat, code: Requests]
    \cup [link: Makers, uid: Nat, expire: Nat, given: BOOLEAN]
    \cup [link: Makers, uid: Nat]
    \cup [merchant: Merchants, phone: Phones, email: Emails, id: Makers \cup {None}]
    \cup [phone: Phones, id: Makers]
LinkPlaces == {"lookup", "refresh", "addLink", "otp", "sendOtp", "resend", "sendAgain",
               "verify", "extend", "dropLink", "devLink"}
CustomerPlaces == {"find", "join", "insert", "clear"}

TypeOK ==
  /\ MerchantTypeOK
  /\ customer \in [Makers -> Customer \cup {NoCustomer}]
  /\ custWallet \subseteq Makers
  /\ joined \subseteq [id: Makers, merchant: Merchants, by: Makers]
  /\ cleared \subseteq Makers
  /\ link \in [Makers -> Link \cup {NoLink}]
  /\ told \in [Requests -> Phones \cup {None}]
  /\ crossed \subseteq Requests
  /\ promised \in [Makers -> Nat]
  /\ verified \subseteq [by: Requests, link: Makers, phone: Phones, code: Requests]
  /\ req \in [Requests -> MerchantReqs \cup CustomerReqs \cup {None}]
  /\ pc \in [Requests -> {"idle", "done"} \cup MerchantPlaces \cup LinkPlaces
                           \cup CustomerPlaces]
  /\ now \in 0 .. MaxTime
  /\ sender \in [Requests -> Senders]

\* There are a customer, whose merchant is gone, and a link.
Init ==
  /\ MerchantInit
  /\ req = [r \in Requests |-> None]
  /\ pc = [r \in Requests |-> "idle"]
  /\ \E p \in Phones, e \in Emails :
       customer = [i \in Makers |-> IF i = Old THEN [email |-> e, phone |-> p]
                                    ELSE NoCustomer]
  /\ custWallet = {Old}
  /\ joined = {}
  /\ cleared = {}
  /\ \E p \in Phones \cup {None} :
       link = [l \in Makers |->
                 IF l = Old THEN [phone |-> p, otp |-> None, expire |-> 0,
                                  uid |-> 1, at |-> 1]
                 ELSE NoLink]
  /\ told = [r \in Requests |-> None]
  /\ crossed = {}
  /\ promised = [l \in Makers |-> 0]
  /\ verified = {}
  /\ now = 0
  /\ sender \in Workloads

-----------------------------------------------------------------------------
Fail(r)  == Raises /\ Finish(r)
Lives(l) == link[l] # NoLink
Expired(l) == link[l].expire < now

\* getTempLinkByPhoneNumber: the newest link of the phone.
LinksOf(p)   == {l \in Makers : Lives(l) /\ link[l].phone = p}
NewestOf(p)  == {l \in LinksOf(p) : \A k \in LinksOf(p) : link[k].at <= link[l].at}

\* A link is updated and deleted by its uid: not when it is gone, nor when
\* it was given another uid.
Same(r) == Lives(req[r].link) /\ link[req[r].link].uid = req[r].uid

Newest == LET Ats == {0} \cup {link[l].at : l \in Makers}
          IN CHOOSE a \in Ats : \A b \in Ats : b <= a
AddLink(r, p, code, e) ==
  link' = [link EXCEPT ![r] = [phone |-> p, otp |-> code, expire |-> e,
                               uid |-> 1, at |-> Newest + 1]]

(* GetCustomerByPhone, when there is no customer with the phone: the link  *)
(* of the phone is used again, or made live again under another uid, or    *)
(* made.  Its OTP is told to nobody.                                       *)

CustomersWith(p) == {i \in Makers : customer[i] # NoCustomer /\ customer[i].phone = p}

GetCustomerByPhone(r, p) ==
  /\ CustomersWith(p) = {}
  /\ Start(r, "lookup", [phone |-> p])
  /\ UNCHANGED <<polite, faults, customerRows, linkRows>>

LookForLink(r) ==
  /\ At(r, "lookup")
  /\ LET p == req[r].phone
     IN \/ NewestOf(p) = {} /\ Goto(r, "addLink") /\ UNCHANGED req
        \/ \E l \in NewestOf(p) : ~Expired(l) /\ Finish(r)
        \/ \E l \in NewestOf(p) :
             /\ Expired(l)
             /\ Goto(r, "refresh")
             /\ req' = [req EXCEPT ![r] = [phone |-> p, link |-> l, uid |-> link[l].uid]]
  /\ UNCHANGED <<polite, faults, customerRows, linkRows>>

RefreshLink(r) ==
  /\ At(r, "refresh")
  /\ \/ /\ Same(r)
        /\ link' = [link EXCEPT ![req[r].link].uid = @ + 1,
                                ![req[r].link].expire = now + Life,
                                ![req[r].link].otp = r]
     \/ ~Same(r) /\ UNCHANGED link
  /\ Finish(r)
  /\ UNCHANGED <<polite, faults, customerRows, told, crossed, promised, verified>>

NewLinkForPhone(r) ==
  /\ At(r, "addLink")
  /\ AddLink(r, req[r].phone, r, now + Life)
  /\ Finish(r)
  /\ UNCHANGED <<polite, faults, customerRows, told, crossed, promised, verified>>

(* CreateOTP: the phone and the hash are stored, then the OTP is sent, and *)
(* also given in the answer.                                               *)

NobodyWritesOTP == Nobody({"otp", "sendOtp", "resend", "sendAgain", "extend"})

CreateOTP(r, l, p) ==
  /\ Lives(l) /\ ~Expired(l)
  /\ polite => NobodyWritesOTP
  /\ Start(r, "otp", [phone |-> p, link |-> l, uid |-> link[l].uid])
  /\ UNCHANGED <<polite, faults, customerRows, linkRows>>

StoreCodeOnly(r) == link' = [link EXCEPT ![req[r].link].otp = r]
StorePhoneAndCode(r) ==
  link' = [link EXCEPT ![req[r].link].phone = req[r].phone, ![req[r].link].otp = r]

StoreOTP(r) ==
  /\ At(r, "otp")
  /\ \/ Same(r) /\ StorePhoneAndCode(r) /\ Goto(r, "sendOtp") /\ UNCHANGED <<req, faults>>
     \/ ~Same(r) /\ Finish(r) /\ UNCHANGED <<link, faults>>
     \/ Fail(r) /\ UNCHANGED link
  /\ UNCHANGED <<polite, customerRows, told, crossed, promised, verified>>

\* AisSmsService.sendMt: an HTTP error raises, and then nothing is answered; a
\* message the operator rejects is only logged.
SendSms(r) ==
  LET tell == told' = [told EXCEPT ![r] = req[r].phone]
  IN \/ tell /\ UNCHANGED faults
     \/ (tell \/ UNCHANGED told) /\ Raises

SendOTP(r) ==
  /\ At(r, "sendOtp")
  /\ SendSms(r)
  /\ Finish(r)
  /\ UNCHANGED <<polite, customerRows, link, crossed, promised, verified>>

(* ReSendOTP: another OTP and another five minutes, told in the name of    *)
(* the phone that was read.                                                *)

ReSendOTP(r, l) ==
  /\ Lives(l) /\ ~Expired(l)
  /\ polite => NobodyWritesOTP
  /\ Start(r, "resend", [phone |-> link[l].phone, link |-> l, uid |-> link[l].uid])
  /\ UNCHANGED <<polite, faults, customerRows, linkRows>>

StoreCodeAndExpiry(r) ==
  link' = [link EXCEPT ![req[r].link].otp = r, ![req[r].link].expire = now + Life]

\* The answer, which comes after the message, tells when the link ends.
StoreNewOTP(r) ==
  /\ At(r, "resend")
  /\ \/ /\ Same(r)
        /\ StoreCodeAndExpiry(r)
        /\ promised' = [promised EXCEPT ![req[r].link] = now + Life]
        /\ crossed' = crossed \cup {q \in {r} : link[req[r].link].phone # req[r].phone}
        /\ Goto(r, "sendAgain")
        /\ UNCHANGED <<req, faults>>
     \/ ~Same(r) /\ Finish(r) /\ UNCHANGED <<link, promised, crossed, faults>>
     \/ Fail(r) /\ UNCHANGED <<link, promised, crossed>>
  /\ UNCHANGED <<polite, customerRows, told, verified>>

SendAgain(r) ==
  /\ At(r, "sendAgain")
  /\ SendSms(r)
  /\ Finish(r)
  /\ UNCHANGED <<polite, customerRows, link, crossed, promised, verified>>

(* VerifyOTP, with whatever code: one that was told, or a lucky one.       *)

Matches(l, code) == ~Expired(l) /\ link[l].otp = code

VerifyOTP(r, p, code) ==
  /\ \E l \in NewestOf(p) :
       /\ Matches(l, code)
       /\ Start(r, "verify", [phone |-> p, link |-> l, uid |-> link[l].uid, code |-> code])
  /\ UNCHANGED <<polite, faults, customerRows, linkRows>>

Succeed(r) ==
  verified' = verified \cup {[by |-> r, link |-> req[r].link,
                              phone |-> req[r].phone, code |-> req[r].code]}
RemoveIfThere(r) ==
  /\ Succeed(r)
  /\ \/ Same(r) /\ link' = [link EXCEPT ![req[r].link] = NoLink]
     \/ ~Same(r) /\ UNCHANGED link

\* The deletion of a link that is not there raises.
RemoveLink(r) ==
  \/ Same(r) /\ link' = [link EXCEPT ![req[r].link] = NoLink] /\ Succeed(r)
  \/ ~Same(r) /\ UNCHANGED <<link, verified>>

DeleteVerified(r) ==
  /\ At(r, "verify")
  /\ \/ RemoveLink(r) /\ UNCHANGED faults
     \/ Raises /\ UNCHANGED <<link, verified>>
  /\ Finish(r)
  /\ UNCHANGED <<polite, customerRows, told, crossed, promised>>

(* The links' own endpoints.                                               *)

CreateTempLink(r, p, e) ==
  /\ pc[r] = "idle"
  /\ AddLink(r, p, None, e)
  /\ Finish(r)
  /\ UNCHANGED <<polite, faults, customerRows, told, crossed, promised, verified>>

\* Without a date, the one that was read is written back.
UpdateTempLink(r, l, e) ==
  /\ Lives(l)
  /\ polite => NobodyWritesOTP
  /\ Start(r, "extend", [link |-> l, uid |-> link[l].uid, given |-> e # None,
                         expire |-> IF e = None THEN link[l].expire ELSE e])
  /\ UNCHANGED <<polite, faults, customerRows, linkRows>>

Extend(r) ==
  /\ At(r, "extend")
  /\ \/ /\ Same(r)
        /\ link' = [link EXCEPT ![req[r].link].expire = req[r].expire]
        /\ promised' = IF req[r].given THEN [promised EXCEPT ![req[r].link] = 0]
                       ELSE promised
     \/ ~Same(r) /\ UNCHANGED <<link, promised>>
  /\ Finish(r)
  /\ UNCHANGED <<polite, faults, customerRows, told, crossed, verified>>

DeleteTempLink(r, l) ==
  /\ Lives(l)
  /\ Start(r, "dropLink", [link |-> l, uid |-> link[l].uid])
  /\ UNCHANGED <<polite, faults, customerRows, linkRows>>

DropLink(r) ==
  /\ At(r, "dropLink")
  /\ \/ Same(r) /\ link' = [link EXCEPT ![req[r].link] = NoLink]
     \/ ~Same(r) /\ UNCHANGED link
  /\ Finish(r)
  /\ UNCHANGED <<polite, faults, customerRows, told, crossed, promised, verified>>

(* RegisterCustomerDev: a link of a merchant for a phone to be told later. *)

RegisterCustomerDev(r, m) ==
  /\ Exists(m)
  /\ Start(r, "devLink", [merchant |-> m])
  /\ UNCHANGED <<polite, faults, customerRows, linkRows>>

DevLink(r) ==
  /\ At(r, "devLink")
  /\ AddLink(r, None, Plain, now + Life)
  /\ Finish(r)
  /\ UNCHANGED <<polite, faults, customerRows, told, crossed, promised, verified>>

-----------------------------------------------------------------------------
(* CreateCustomer: the merchant, then the customer by e-mail, are read;    *)
(* then the customer joins the merchant, or is created in a transaction.   *)

CreateCustomer(r, m, p, e) ==
  /\ Exists(m)
  /\ polite => Nobody({"find", "join", "insert"})
  /\ Start(r, "find", [merchant |-> m, phone |-> p, email |-> e, id |-> None])
  /\ UNCHANGED <<polite, faults, customerRows, linkRows>>

CustomersBy(e) == {i \in Makers : customer[i] # NoCustomer /\ customer[i].email = e}

Associated(i, m)  == \E j \in joined : j.id = i /\ j.merchant = m

FindCustomer(r) ==
  /\ At(r, "find")
  /\ LET C == CustomersBy(req[r].email)
     IN \/ C = {} /\ Goto(r, "insert") /\ UNCHANGED req
        \/ \E i \in C : Associated(i, req[r].merchant) /\ Finish(r)
        \/ \E i \in C : /\ ~Associated(i, req[r].merchant)
                        /\ Goto(r, "join")
                        /\ req' = [req EXCEPT ![r].id = i]
  /\ UNCHANGED <<polite, faults, customerRows, linkRows>>

Join(r, i) == joined' = joined \cup {[id |-> i, merchant |-> req[r].merchant, by |-> r]}

JoinMerchant(r) ==
  /\ At(r, "join")
  /\ LET there == customer[req[r].id] # NoCustomer /\ Exists(req[r].merchant)
     IN \/ there /\ Join(r, req[r].id) /\ UNCHANGED faults
        \/ /\ \/ ~there /\ UNCHANGED faults
              \/ Raises
           /\ UNCHANGED joined
  /\ Finish(r)
  /\ UNCHANGED <<polite, customer, custWallet, cleared, linkRows>>

\* The phone is unique and the merchant a foreign key: otherwise, what was
\* done is rolled back.
Accepted(r)   == CustomersWith(req[r].phone) = {} /\ Exists(req[r].merchant)
KeepWallet(r) == custWallet' = custWallet \cup {r} /\ UNCHANGED <<customer, joined>>
Rollback(r)   == UNCHANGED <<custWallet, customer, joined>>

InsertCustomer(r) ==
  /\ At(r, "insert")
  /\ \/ /\ Accepted(r)
        /\ custWallet' = custWallet \cup {r}
        /\ customer' = [customer EXCEPT ![r] = [email |-> req[r].email,
                                                phone |-> req[r].phone]]
        /\ Join(r, r)
        /\ UNCHANGED faults
     \/ /\ \/ ~Accepted(r) /\ UNCHANGED faults
           \/ Raises
        /\ Rollback(r)
  /\ Finish(r)
  /\ UNCHANGED <<polite, cleared, linkRows>>

(* ClearCustomerByPhone: what was read of the customer has no walletId, so *)
(* that the wallet stays.                                                  *)

ClearCustomerByPhone(r, p) ==
  \E i \in CustomersWith(p) :
    /\ Start(r, "clear", [phone |-> p, id |-> i])
    /\ UNCHANGED <<polite, faults, customerRows, linkRows>>

Clear(r) ==
  /\ At(r, "clear")
  /\ \/ /\ customer[req[r].id] # NoCustomer
        /\ customer' = [customer EXCEPT ![req[r].id] = NoCustomer]
        /\ joined' = {j \in joined : j.id # req[r].id}
        /\ cleared' = cleared \cup {req[r].id}
        /\ link' = [l \in Makers |-> IF l \in LinksOf(req[r].phone) THEN NoLink ELSE link[l]]
     \/ customer[req[r].id] = NoCustomer /\ UNCHANGED <<customer, joined, cleared, link>>
  /\ Finish(r)
  /\ UNCHANGED <<polite, faults, custWallet, told, crossed, promised, verified>>

-----------------------------------------------------------------------------
LinkStep(r) ==
  \/ /\ sender[r] = "person"
     /\ \/ \E p \in Phones : GetCustomerByPhone(r, p)
        \/ \E l \in Makers, p \in Phones : CreateOTP(r, l, p)
        \/ \E l \in Makers : ReSendOTP(r, l)
        \/ \E p \in Phones, code \in Requests : VerifyOTP(r, p, code)
        \/ \E p \in Phones, e \in Dates : CreateTempLink(r, p, e)
        \/ \E l \in Makers, e \in Dates \cup {None} : UpdateTempLink(r, l, e)
        \/ \E l \in Makers : DeleteTempLink(r, l)
        \/ \E m \in Merchants : RegisterCustomerDev(r, m)
  \/ LookForLink(r)
  \/ RefreshLink(r)
  \/ NewLinkForPhone(r)
  \/ StoreOTP(r)
  \/ SendOTP(r)
  \/ StoreNewOTP(r)
  \/ SendAgain(r)
  \/ DeleteVerified(r)
  \/ Extend(r)
  \/ DropLink(r)
  \/ DevLink(r)

CustomerStep(r) ==
  \/ /\ sender[r] = "partner"
     /\ \/ \E m \in Merchants, p \in Phones, e \in Emails : CreateCustomer(r, m, p, e)
        \/ \E p \in Phones : ClearCustomerByPhone(r, p)
  \/ FindCustomer(r)
  \/ JoinMerchant(r)
  \/ InsertCustomer(r)
  \/ Clear(r)

\* The rows that associate customers with a merchant go with it.
Cascade == joined' = {j \in joined : merchant'[j.merchant] # NoMerchant}

Tick == /\ now < MaxTime
        /\ \E r \in Requests : sender[r] = "person"  \* nobody else looks at the clock
        /\ now' = now + 1
        /\ UNCHANGED <<merchantRows, req, pc, polite, faults, customerRows, linkRows, sender>>

Next ==
  \/ \E r \in Requests :
       /\ sender[r] = "user"
       /\ MerchantStep(r)
       /\ Cascade
       /\ UNCHANGED <<customer, custWallet, cleared, linkRows, now, sender>>
  \/ \E r \in Requests :
       /\ LinkStep(r) \/ CustomerStep(r)
       /\ UNCHANGED <<merchantRows, now, sender>>
  \/ Tick

Spec == Init /\ [][Next]_vars

-----------------------------------------------------------------------------
\* An OTP can only be used once (otp.service.ts:114): of two verifications
\* that both saw the code match, one fails.
VerifiedOnce == \A v, w \in verified : v.link = w.link => v = w

\* Why: a link is made by the last step of its request, so that a link that was
\* verified, and deleted with it, never comes back.
MadeOnce(l) == l \in Requests => pc[l] = "done"

LinkInv ==
  /\ DOMAIN link = Makers
  /\ \A r \in Requests : pc[r] = "verify" => req[r].link \in Makers
  /\ \A l \in Makers : Lives(l) => MadeOnce(l)
  /\ \A v \in verified : v.link \in Makers /\ MadeOnce(v.link) /\ ~Lives(v.link)
  /\ VerifiedOnce

\* A code that was told in the name of one phone verifies no other phone, but
\* for one that ReSendOTP stored after the phone it had read was replaced by
\* CreateOTP, which takes two requests for a link that overlap.
VerifiedByReceiver ==
  \A v \in verified : v.code \in crossed \/ told[v.code] \in {None, v.phone}
NoneCrosses == polite => crossed = {}

\* A link does not end before the time ReSendOTP told, unless a partner gave
\* it another one; an update without a date writes back the date it read.
PromiseKept == polite => \A l \in Makers : Lives(l) => link[l].expire >= promised[l]

\* A customer has its wallet, and there is no wallet of a customer that never
\* was: both come in one transaction.
CustomersOwnTheirWallets ==
  custWallet = cleared \cup {i \in Makers : customer[i] # NoCustomer}

\* "make sure customer not register more than once"
\* (createCustomer.handler.ts:59): nothing but the earlier read sees to it.
RegisteredOnce ==
  polite => \A j, k \in joined : j.id = k.id /\ j.merchant = k.merchant => j = k

\* A code verifies the phone it was told for, with the one exception above, and
\* polite requests cross none and keep the time they told (createOTP, reSendOTP,
\* verifyOTP).
OtpIsPersonal == VerifiedByReceiver /\ NoneCrosses /\ PromiseKept

\* Customers have their wallets, and are registered once with a merchant.
CustomersAreWhole == TypeOK /\ CustomersOwnTheirWallets /\ RegisteredOnce
=============================================================================
