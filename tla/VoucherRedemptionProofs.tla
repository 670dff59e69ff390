----------------------- MODULE VoucherRedemptionProofs ----------------------
(***************************************************************************)
(* Proofs about VoucherRedemption, for every set of codes, requests and    *)
(* customers and every bound: types, burned redemptions and redemptions    *)
(* that stand, whatever fails; two rows of one code only by requests that  *)
(* met; and the refinement of RedemptionSaga.                              *)
(***************************************************************************)
EXTENDS VoucherRedemption, FiniteSetTheorems, TLAPS

\* Before any request the stores agree and nothing was burned.
LEMMA InitInv == Init => IInv
<1> SUFFICES ASSUME Init PROVE IInv
  OBVIOUS
<1>1. \A k \in Customers : Cardinality({c \in Codes : owner[c] = k}) \in Nat
  <2> TAKE k \in Customers
  <2>1. IsFiniteSet({c \in Codes : owner[c] = k})
    BY FiniteCodes, FS_Subset, {c \in Codes : owner[c] = k} \subseteq Codes
  <2> QED BY <2>1, FS_CardinalityType
<1>2. TypeOK
  BY <1>1 DEF Init, TypeOK, Access, NoReq
<1>3. PlaceInv
  BY DEF Init, PlaceInv
<1>4. RedemptionIsBurned
  BY DEF Init, RedemptionIsBurned
<1> QED BY <1>2, <1>3, <1>4 DEF IInv

\* Every step keeps the types; a balance stays a natural number because the
\* contract burns only what is there.
LEMMA TypeStep == TypeOK /\ PlaceInv /\ [Next]_vars => TypeOK'
<1> SUFFICES ASSUME TypeOK, PlaceInv, [Next]_vars PROVE TypeOK'
  OBVIOUS
<1> USE DEF TypeOK, Running, Ended, Access, Reqs, NoReq, stores, partner
<1>1. ASSUME NEW r \in Requests, Arrive(r) PROVE TypeOK'
  BY <1>1 DEF Arrive, Goto
<1>2. ASSUME NEW r \in Requests, CheckBalance(r) PROVE TypeOK'
  BY <1>2 DEF CheckBalance, Goto, Raises
<1>3. ASSUME NEW r \in Requests, Authorize(r) PROVE TypeOK'
  BY <1>3 DEF Authorize, AfterCallError, Goto, Raises
<1>4. ASSUME NEW r \in Requests, Unauthorized(r) PROVE TypeOK'
  BY <1>4 DEF Unauthorized
<1>5. ASSUME NEW r \in Requests, TransferIn(r) PROVE TypeOK'
  BY <1>5 DEF TransferIn, AfterCallError, Goto, Raises, Release
<1>6. ASSUME NEW r \in Requests, TransferReverse(r) PROVE TypeOK'
  BY <1>6 DEF TransferReverse, AfterCallError, Goto, Raises, Release
<1>7. ASSUME NEW r \in Requests, Unresolved(r) PROVE TypeOK'
  BY <1>7 DEF Unresolved, Fail, Goto
<1>8. ASSUME NEW r \in Requests, SendBurn(r) PROVE TypeOK'
  BY <1>8 DEF SendBurn, Fail, Goto, Raises
<1>9. ASSUME NEW r \in Requests, AwaitBurn(r) PROVE TypeOK'
  BY <1>9 DEF AwaitBurn, Fail, Goto, Raises
<1>10. ASSUME NEW r \in Requests, Record(r) PROVE TypeOK'
  <2>1. req[r] \in Reqs
    BY <1>10 DEF PlaceInv, Record
  <2> QED BY <1>10, <2>1 DEF Record, MarkUsed, Fail, Goto, Raises
<1>11. ASSUME NEW r \in Requests, Crash(r) PROVE TypeOK'
  BY <1>11 DEF Crash, Goto
<1>12. ASSUME NEW r \in Requests, Mine(r) PROVE TypeOK'
  <2>1. req[r] \in Reqs
    BY <1>12 DEF PlaceInv, Mine
  <2> QED BY <1>12, <2>1 DEF Mine
<1>13. ASSUME NEW r \in Requests, Replace(r) PROVE TypeOK'
  BY <1>13 DEF Replace
<1>14. ASSUME NEW c \in Codes, NEW k \in Customers, Sell(c, k) PROVE TypeOK'
  BY <1>14 DEF Sell
<1>15. CASE Revoke
  BY <1>15 DEF Revoke
<1>16. CASE UNCHANGED vars
  BY <1>16 DEF vars
<1> QED
  BY <1>1, <1>2, <1>3, <1>4, <1>5, <1>6, <1>7, <1>8, <1>9, <1>10, <1>11,
     <1>12, <1>13, <1>14, <1>15, <1>16 DEF Next, RequestStep

\* A step moves one request at most, and never back to idle or to another
\* code; burns settle once, points of a request change only in its own calls.
LEMMA PlaceStep == TypeOK /\ PlaceInv /\ [Next]_vars => PlaceInv'
<1> SUFFICES ASSUME TypeOK, PlaceInv, [Next]_vars PROVE PlaceInv'
  OBVIOUS
<1> USE DEF TypeOK, PlaceInv, Running, Ended, Reqs, NoReq, stores, partner
<1>1. ASSUME NEW r \in Requests, Arrive(r) PROVE PlaceInv'
  BY <1>1 DEF Arrive, Goto
<1>2. ASSUME NEW r \in Requests, CheckBalance(r) PROVE PlaceInv'
  BY <1>2 DEF CheckBalance, Goto
<1>3. ASSUME NEW r \in Requests, Authorize(r) PROVE PlaceInv'
  BY <1>3 DEF Authorize, Calling, AfterCallError, Goto
<1>4. ASSUME NEW r \in Requests, Unauthorized(r) PROVE PlaceInv'
  BY <1>4 DEF Unauthorized
<1>5. ASSUME NEW r \in Requests, TransferIn(r) PROVE PlaceInv'
  BY <1>5 DEF TransferIn, AfterCallError, Goto
<1>6. ASSUME NEW r \in Requests, TransferReverse(r) PROVE PlaceInv'
  BY <1>6 DEF TransferReverse, AfterCallError, Goto
<1>7. ASSUME NEW r \in Requests, Unresolved(r) PROVE PlaceInv'
  BY <1>7 DEF Unresolved, Fail, Goto
<1>8. ASSUME NEW r \in Requests, SendBurn(r) PROVE PlaceInv'
  BY <1>8 DEF SendBurn, Fail, Goto
<1>9. ASSUME NEW r \in Requests, AwaitBurn(r) PROVE PlaceInv'
  BY <1>9 DEF AwaitBurn, Fail, Goto
<1>10. ASSUME NEW r \in Requests, Record(r) PROVE PlaceInv'
  BY <1>10 DEF Record, MarkUsed, Fail, Goto
<1>11. ASSUME NEW r \in Requests, Crash(r) PROVE PlaceInv'
  BY <1>11 DEF Crash, Goto
<1>12. ASSUME NEW r \in Requests, Mine(r) PROVE PlaceInv'
  BY <1>12 DEF Mine
<1>13. ASSUME NEW r \in Requests, Replace(r) PROVE PlaceInv'
  BY <1>13 DEF Replace
<1>14. ASSUME NEW c \in Codes, NEW k \in Customers, Sell(c, k)
       PROVE PlaceInv'
  BY <1>14 DEF Sell
<1>15. CASE Revoke
  BY <1>15 DEF Revoke
<1>16. CASE UNCHANGED vars
  BY <1>16 DEF vars
<1> QED
  BY <1>1, <1>2, <1>3, <1>4, <1>5, <1>6, <1>7, <1>8, <1>9, <1>10, <1>11,
     <1>12, <1>13, <1>14, <1>15, <1>16 DEF Next, RequestStep

\* Codes become used and rows appear in Record alone, after a burn that
\* succeeded; a successful burn stays successful.
LEMMA BurnedStep ==
  TypeOK /\ PlaceInv /\ RedemptionIsBurned /\ [Next]_vars
    => RedemptionIsBurned'
<1> SUFFICES ASSUME TypeOK, PlaceInv, RedemptionIsBurned, [Next]_vars
             PROVE RedemptionIsBurned'
  OBVIOUS
<1> USE DEF RedemptionIsBurned
<1>1. ASSUME NEW r \in Requests, Arrive(r) PROVE RedemptionIsBurned'
  <2>1. r \notin rows
    BY <1>1 DEF Arrive, PlaceInv
  <2>2. \A q \in rows : req'[q] = req[q]
    BY <1>1, <2>1 DEF Arrive, TypeOK
  <2> QED BY <1>1, <2>2 DEF Arrive, stores
<1>2. ASSUME NEW r \in Requests, Record(r) PROVE RedemptionIsBurned'
  <2>1. /\ burn[r] = "success" /\ req[r] \in Reqs
        /\ UNCHANGED <<burn, req>>
    BY <1>2 DEF Record, PlaceInv
  <2>2. CASE UNCHANGED <<usedBy, rows>>
    BY <2>1, <2>2
  <2>3. CASE MarkUsed(r)
    <3> DEFINE c == req[r].code
    <3>1. /\ c \in Codes /\ req[r].by \in Customers
          /\ rows' = rows \cup {r}
          /\ usedBy' = [usedBy EXCEPT ![c] = req[r].by]
      BY <2>1, <2>3 DEF MarkUsed, Reqs
    <3>2. None # req[r].by
      BY <3>1, MarketIsNoCustomer
    <3>3. \A q \in rows' : burn'[q] = "success" /\ usedBy'[req'[q].code] # None
      BY <2>1, <3>1, <3>2 DEF TypeOK
    <3>4. ASSUME NEW d \in Codes, usedBy'[d] # None
          PROVE \E q \in rows' : req'[q].code = d /\ req'[q].by = usedBy'[d]
      <4>1. CASE d = c
        BY <2>1, <3>1, <4>1 DEF TypeOK
      <4>2. CASE d # c
        BY <2>1, <3>1, <3>4, <4>2 DEF TypeOK
      <4> QED BY <4>1, <4>2
    <3> QED BY <3>3, <3>4
  <2> QED BY <1>2, <2>2, <2>3 DEF Record
<1>3. ASSUME NEW r \in Requests, SendBurn(r) PROVE RedemptionIsBurned'
  <2>1. UNCHANGED <<usedBy, rows, req>> /\ r \notin rows
    BY <1>3 DEF SendBurn, PlaceInv
  <2>2. burn' \in {burn, [burn EXCEPT ![r] = "pending"]}
    BY <1>3 DEF SendBurn
  <2>3. \A q \in rows : burn'[q] = burn[q]
    BY <2>1, <2>2 DEF TypeOK
  <2> QED BY <2>1, <2>3
<1>4. ASSUME NEW r \in Requests, Mine(r) \/ Replace(r)
      PROVE RedemptionIsBurned'
  BY <1>4 DEF Mine, Replace, TypeOK
<1>5. ASSUME UNCHANGED <<usedBy, rows, burn, req>> PROVE RedemptionIsBurned'
  BY <1>5
<1>6. ASSUME NEW r \in Requests, RequestStep(r), ~Record(r), ~SendBurn(r)
      PROVE RedemptionIsBurned'
  BY <1>5, <1>6 DEF RequestStep, CheckBalance, Authorize, Unauthorized,
     TransferIn, TransferReverse, Unresolved, AwaitBurn, stores
<1>7. CASE Revoke \/ UNCHANGED vars
  BY <1>5, <1>7 DEF Revoke, vars, stores
<1>8. ASSUME NEW r \in Requests, Crash(r) PROVE RedemptionIsBurned'
  BY <1>5, <1>8 DEF Crash, stores
<1>9. ASSUME NEW c \in Codes, NEW k \in Customers, Sell(c, k)
      PROVE RedemptionIsBurned'
  BY <1>5, <1>9 DEF Sell
<1> QED
  BY <1>1, <1>2, <1>3, <1>4, <1>6, <1>7, <1>8, <1>9 DEF Next

\* A request that arrives meets whoever works on its code, and is turned
\* away once the code has a row; a row is written by a request that has met
\* everybody who works on the code or wrote before.
LEMMA MeetStep == IInv /\ MeetInv /\ [Next]_vars => MeetInv'
<1> SUFFICES ASSUME IInv, MeetInv, [Next]_vars
             PROVE MeetInv'
  OBVIOUS
<1>1. TypeOK /\ PlaceInv /\ RedemptionIsBurned
  BY DEF IInv
<1>2. ASSUME NEW r \in Requests, Arrive(r) PROVE MeetInv'
  <2> PICK c \in Codes, k \in Customers, ais \in BOOLEAN :
        /\ met' = [met EXCEPT ![r] = {q \in Requests : Concerns(q, c)}]
        /\ req' = [req EXCEPT ![r] = [code |-> c, by |-> k, ais |-> ais]]
        /\ Goto(r, IF Redeemable(c, k) THEN "balance" ELSE "refused")
    BY <1>2 DEF Arrive
  <2>1. UNCHANGED <<usedBy, rows>> /\ pc[r] = "idle" /\ r \notin rows
    BY <1>1, <1>2 DEF Arrive, stores, PlaceInv
  <2>2. \A q \in Requests \ {r} :
          req'[q] = req[q] /\ pc'[q] = pc[q] /\ met'[q] = met[q]
    BY <1>1 DEF TypeOK, Goto
  <2>3. /\ req'[r].code = c /\ pc'[r] \in {"balance", "refused"}
        /\ met'[r] = {q \in Requests : Concerns(q, c)}
    BY <1>1 DEF TypeOK, Goto
  <2>4. pc'[r] = "balance" => usedBy[c] = None
    BY <1>1 DEF TypeOK, Goto, Redeemable
  <2>5. \A q \in Requests \ {r} :
          pc'[q] \in Running /\ req'[q].code = c => Met(q, r)'
    BY <2>2, <2>3 DEF Concerns, Met
  <2>6. \A p, q \in Requests \ {r} : Met(p, q) => Met(p, q)'
    BY <2>2 DEF Met
  <2>7. TwiceOnlyTogether'
    BY <1>1, <2>1, <2>2, <2>6 DEF TwiceOnlyTogether, MeetInv, TypeOK
  <2>8. ASSUME NEW p \in Requests, NEW q \in rows',
               pc'[p] \in Running \ {"reverse"}, req'[p].code = req'[q].code
        PROVE p = q \/ Met(p, q)'
    <3>1. q \in rows /\ q \in Requests \ {r} /\ req'[q] = req[q]
      BY <1>1, <2>1, <2>2, <2>8 DEF TypeOK
    <3>2. CASE p = r
      <4>1. usedBy[c] = None /\ req[q].code = c
        BY <2>3, <2>4, <2>8, <3>1, <3>2 DEF Running
      <4> QED BY <1>1, <3>1, <4>1 DEF RedemptionIsBurned
    <3>3. CASE p # r
      BY <2>2, <2>6, <2>8, <3>1, <3>3 DEF MeetInv
    <3> QED BY <3>2, <3>3
  <2>9. ASSUME NEW p \in Requests, NEW q \in Requests,
               pc'[p] \in Running, pc'[q] \in Running,
               req'[p].code = req'[q].code
        PROVE p = q \/ Met(p, q)'
    <3>1. CASE p # r /\ q # r
      BY <2>2, <2>6, <2>9, <3>1 DEF MeetInv
    <3>2. CASE p = r /\ q # r
      BY <2>3, <2>5, <2>9, <3>2 DEF Met
    <3>3. CASE p # r /\ q = r
      BY <2>3, <2>5, <2>9, <3>3
    <3> QED BY <3>1, <3>2, <3>3
  <2> QED BY <2>7, <2>8, <2>9 DEF MeetInv
<1>3. ASSUME NEW r \in Requests, Record(r) PROVE MeetInv'
  <2>1. pc[r] = "record" /\ UNCHANGED <<req, met>>
    BY <1>3 DEF Record
  <2>2. \A q \in Requests \ {r} : pc'[q] = pc[q]
    BY <1>1, <1>3 DEF Record, Fail, Goto, TypeOK
  <2>3. pc'[r] \notin Running \ {"reverse"}
    BY <1>1, <1>3 DEF Record, Fail, Goto, TypeOK, Running
  <2>4. rows' \subseteq rows \cup {r}
    BY <1>3 DEF Record, MarkUsed
  <2>5. \A p, q \in Requests : Met(p, q)' = Met(p, q) /\ Met(p, q) = Met(q, p)
    BY <2>1 DEF Met
  <2>6. \A q \in rows : req[q].code = req[r].code => r = q \/ Met(r, q)
    BY <2>1 DEF MeetInv, Running
  <2>7. TwiceOnlyTogether'
    BY <1>1, <2>1, <2>4, <2>5, <2>6 DEF TwiceOnlyTogether, MeetInv, TypeOK
  <2>8. ASSUME NEW p \in Requests, NEW q \in rows',
               pc'[p] \in Running \ {"reverse"}, req'[p].code = req'[q].code
        PROVE p = q \/ Met(p, q)'
    <3>1. p # r /\ pc[p] \in Running \ {"reverse"} /\ q \in rows \cup {r}
      BY <2>2, <2>3, <2>4, <2>8
    <3>2. CASE q \in rows
      BY <1>1, <2>1, <2>5, <2>8, <3>1, <3>2 DEF MeetInv, TypeOK
    <3>3. CASE q = r
      BY <2>1, <2>5, <2>8, <3>1, <3>3 DEF MeetInv, Running
    <3> QED BY <3>1, <3>2, <3>3
  <2>9. ASSUME NEW p \in Requests, NEW q \in Requests,
               pc'[p] \in Running, pc'[q] \in Running,
               req'[p].code = req'[q].code
        PROVE p = q \/ Met(p, q)'
    <3>1. pc[p] \in Running /\ pc[q] \in Running
      BY <2>1, <2>2, <2>9 DEF Running
    <3> QED BY <2>1, <2>5, <2>9, <3>1 DEF MeetInv
  <2> QED BY <2>7, <2>8, <2>9 DEF MeetInv
<1>4. ASSUME UNCHANGED <<usedBy, rows, req, met>>,
             \A q \in Requests :
               /\ pc'[q] \in Running => pc[q] \in Running
               /\ pc'[q] \in Running \ {"reverse"} =>
                    pc[q] \in Running \ {"reverse"}
      PROVE MeetInv'
  BY <1>4 DEF MeetInv, TwiceOnlyTogether, Met
<1>5. ASSUME NEW r \in Requests, RequestStep(r), ~Record(r)
      PROVE MeetInv'
  <2> USE DEF stores, Goto, Fail, AfterCallError, Calling, Running
  <2>1. CASE CheckBalance(r)
    BY <1>1, <1>4, <2>1 DEF CheckBalance, TypeOK
  <2>2. CASE Authorize(r)
    BY <1>1, <1>4, <2>2 DEF Authorize, TypeOK
  <2>3. CASE Unauthorized(r)
    BY <1>1, <1>4, <2>3 DEF Unauthorized, TypeOK
  <2>4. CASE TransferIn(r)
    BY <1>1, <1>4, <2>4 DEF TransferIn, TypeOK
  <2>5. CASE TransferReverse(r)
    BY <1>1, <1>4, <2>5 DEF TransferReverse, TypeOK
  <2>6. CASE Unresolved(r)
    BY <1>1, <1>4, <2>6 DEF Unresolved, TypeOK
  <2>7. CASE SendBurn(r)
    BY <1>1, <1>4, <2>7 DEF SendBurn, TypeOK
  <2>8. CASE AwaitBurn(r)
    BY <1>1, <1>4, <2>8 DEF AwaitBurn, TypeOK
  <2> QED BY <1>5, <2>1, <2>2, <2>3, <2>4, <2>5, <2>6, <2>7, <2>8
      DEF RequestStep
<1>6. ASSUME NEW r \in Requests, Crash(r) PROVE MeetInv'
  BY <1>1, <1>4, <1>6 DEF Crash, Goto, stores, TypeOK, Running
<1>7. ASSUME UNCHANGED <<usedBy, rows, req, pc, met>> PROVE MeetInv'
  BY <1>4, <1>7
<1>8. ASSUME NEW r \in Requests, Mine(r) \/ Replace(r) PROVE MeetInv'
  BY <1>7, <1>8 DEF Mine, Replace
<1>9. ASSUME NEW c \in Codes, NEW k \in Customers, Sell(c, k)
      PROVE MeetInv'
  BY <1>7, <1>9 DEF Sell
<1>10. CASE Revoke \/ UNCHANGED vars
  BY <1>7, <1>10 DEF Revoke, vars, stores
<1> QED
  BY <1>2, <1>3, <1>5, <1>6, <1>8, <1>9, <1>10 DEF Next

-----------------------------------------------------------------------------
\* The strengthening is inductive.
THEOREM RedemptionInductive == Spec => []IInv
<1>1. IInv /\ [Next]_vars => IInv'
  BY TypeStep, PlaceStep, BurnedStep DEF IInv
<1> QED BY InitInv, <1>1, PTL DEF Spec

\* Every reachable state is well typed: no coupon balance goes below zero,
\* though the balance is checked long before the burn.
THEOREM RedemptionTypes == Spec => []TypeOK
<1>1. IInv => TypeOK
  BY DEF IInv
<1> QED BY RedemptionInductive, <1>1, PTL

\* executeRedeemCore writes to the database only after the receipt of the
\* burn, and the reversal of one request leaves the redemptions of others
\* alone: a used code and its REDEEM row stand for a burned token each, and
\* what was answered as redeemed keeps its row and its points.
THEOREM StoresAlwaysAgree == Spec => []StoresAgree
<1>1. IInv => StoresAgree
  BY DEF IInv, PlaceInv, StoresAgree, RedeemedStands
<1> QED BY RedemptionInductive, <1>1, PTL

\* A request that works on a code has met everybody else who works on it,
\* and whoever wrote its row before, as long as it may write itself.
THEOREM RequestsMeet == Spec => []MeetInv
<1>1. Init => MeetInv
  BY DEF Init, MeetInv, TwiceOnlyTogether, Running
<1>2. IInv /\ MeetInv /\ [Next]_vars => (IInv /\ MeetInv)'
  BY MeetStep, TypeStep, PlaceStep, BurnedStep DEF IInv
<1> QED BY InitInv, <1>1, <1>2, PTL DEF Spec

\* The check of isUsed keeps every request from a used code but those that
\* were under way beside the one that used it.
THEOREM TwiceOnlyByConcurrentRequests == Spec => []TwiceOnlyTogether
<1>1. MeetInv => TwiceOnlyTogether
  BY DEF MeetInv
<1> QED BY RequestsMeet, <1>1, PTL
-----------------------------------------------------------------------------
(* A redemption follows the saga of RedemptionSaga.                        *)

\* Points are credited once, for requests that ask for them, and a request
\* writes once: what the steps of the saga rely on.
LEMMA SagaPlaceStep ==
  TypeOK /\ PlaceInv /\ SagaPlace /\ [Next]_vars => SagaPlace'
<1> SUFFICES ASSUME TypeOK, PlaceInv, SagaPlace, [Next]_vars
             PROVE SagaPlace'
  OBVIOUS
<1> USE DEF TypeOK, SagaPlace, Running, Ended, Reqs, NoReq, stores, partner
<1>1. ASSUME NEW r \in Requests, Arrive(r) PROVE SagaPlace'
  BY <1>1 DEF Arrive, Goto
<1>2. ASSUME NEW r \in Requests, CheckBalance(r) PROVE SagaPlace'
  BY <1>2 DEF CheckBalance, Goto
<1>3. ASSUME NEW r \in Requests, Authorize(r) PROVE SagaPlace'
  BY <1>3 DEF Authorize, Calling, AfterCallError, Goto
<1>4. ASSUME NEW r \in Requests, Unauthorized(r) PROVE SagaPlace'
  BY <1>4 DEF Unauthorized
<1>5. ASSUME NEW r \in Requests, TransferIn(r) PROVE SagaPlace'
  BY <1>5 DEF TransferIn, AfterCallError, Goto
<1>6. ASSUME NEW r \in Requests, TransferReverse(r) PROVE SagaPlace'
  BY <1>6 DEF TransferReverse, AfterCallError, Goto
<1>7. ASSUME NEW r \in Requests, Unresolved(r) PROVE SagaPlace'
  BY <1>7 DEF Unresolved, Fail, Goto
<1>8. ASSUME NEW r \in Requests, SendBurn(r) PROVE SagaPlace'
  BY <1>8 DEF SendBurn, Fail, Goto, PlaceInv
<1>9. ASSUME NEW r \in Requests, AwaitBurn(r) PROVE SagaPlace'
  BY <1>9 DEF AwaitBurn, Fail, Goto
<1>10. ASSUME NEW r \in Requests, Record(r) PROVE SagaPlace'
  BY <1>10 DEF Record, MarkUsed, Fail, Goto
<1>11. ASSUME NEW r \in Requests, Crash(r) PROVE SagaPlace'
  BY <1>11 DEF Crash, Goto
<1>12. ASSUME NEW r \in Requests, Mine(r) \/ Replace(r) PROVE SagaPlace'
  BY <1>12 DEF Mine, Replace
<1>13. ASSUME NEW c \in Codes, NEW k \in Customers, Sell(c, k)
       PROVE SagaPlace'
  BY <1>13 DEF Sell
<1>14. CASE Revoke \/ UNCHANGED vars
  BY <1>14 DEF Revoke, vars
<1> QED
  BY <1>1, <1>2, <1>3, <1>4, <1>5, <1>6, <1>7, <1>8, <1>9, <1>10, <1>11,
     <1>12, <1>13, <1>14 DEF Next, RequestStep

\* What the refinement needs of a state.
SagaInv == IInv /\ SagaPlace /\ MeetInv

\* The invariant of the refinement holds throughout.
THEOREM SagaInductive == Spec => []SagaInv
<1>1. Init => SagaInv
  <2>1. Init => SagaPlace
    BY DEF Init, SagaPlace
  <2>2. Init => MeetInv
    BY DEF Init, MeetInv, TwiceOnlyTogether, Running
  <2> QED BY InitInv, <2>1, <2>2 DEF SagaInv
<1>2. SagaInv /\ [Next]_vars => SagaInv'
  <2> SUFFICES ASSUME SagaInv, [Next]_vars PROVE SagaInv'
    OBVIOUS
  <2>1. IInv'
    BY TypeStep, PlaceStep, BurnedStep DEF IInv, SagaInv
  <2>2. SagaPlace'
    BY SagaPlaceStep DEF IInv, SagaInv
  <2>3. MeetInv'
    BY MeetStep DEF SagaInv
  <2> QED BY <2>1, <2>2, <2>3 DEF SagaInv
<1> QED BY <1>1, <1>2, PTL DEF Spec

Fates == [q \in Requests |-> FateOf(q)]

\* A step that moves one request gives that request a new fate.
LEMMA FatesBecome ==
  ASSUME NEW r \in Requests,
         \A q \in Requests \ {r} : pc'[q] = pc[q] /\ burn'[q] = burn[q]
  PROVE  Fates' = [Fates EXCEPT ![r] = FateOf(r)']
  BY DEF Fates, FateOf

\* A step that moves no request and sends no burn changes no fate.
LEMMA FatesStay ==
  ASSUME pc' = pc, \A q \in Requests : burn'[q] = "none" <=> burn[q] = "none"
  PROVE  Fates' = Fates
  BY DEF Fates, FateOf

\* A step that leaves chain, database and partner alone and does not change
\* what becomes of any request is invisible in the saga.
LEMMA Unseen ==
  ASSUME UNCHANGED <<tokens, usedBy, rows, points, req, met>>,
         Burned' = Burned, Fates' = Fates
  PROVE  UNCHANGED Saga!svars
  BY DEF Saga!svars, Fates

\* A request that gives up, before or after it went on.
LEMMA GivesUp ==
  ASSUME TypeOK, PlaceInv, SagaPlace, NEW r \in Requests,
         UNCHANGED <<tokens, usedBy, rows, req, met, burn>>,
         \A q \in Requests \ {r} : pc'[q] = pc[q],
         pc[r] \in {"balance", "credit", "burn", "mined", "record"},
         pc'[r] \in Ended \cup {"reverse"}, pc'[r] # "redeemed",
         \/ points' = points
         \/ pc[r] = "credit" /\ points' = points \cup {r}
  PROVE  Saga!GiveUp(r)
<1>1. Burned' = Burned
  BY DEF Burned
<1>2. Fates' = [Fates EXCEPT ![r] = FateOf(r)']
  BY FatesBecome
<1>3. FateOf(r)' = IF burn[r] = "none" THEN "unsent" ELSE "failed"
  BY DEF FateOf, Ended
<1>4. CASE pc[r] \in {"balance", "credit"}
  <2>1. FateOf(r) = "open" /\ FateOf(r)' = "unsent"
    BY <1>3, <1>4 DEF FateOf, PlaceInv
  <2>2. points' = points \/ (req[r].ais /\ points' = points \cup {r})
    BY DEF SagaPlace
  <2> QED
    BY <1>1, <1>2, <2>1, <2>2 DEF Saga!GiveUp, Saga!Becomes, Fates
<1>5. CASE pc[r] \in {"burn", "mined", "record"}
  <2>1. FateOf(r) = "going"
    BY <1>5 DEF FateOf
  <2>2. \/ r \notin Burned /\ FateOf(r)' = "unsent"
        \/ FateOf(r)' = "failed"
    BY <1>3 DEF Burned
  <2>3. points' = points
    BY <1>5
  <2> QED
    BY <1>1, <1>2, <2>1, <2>2, <2>3 DEF Saga!GiveUp, Saga!Becomes, Fates
<1> QED BY <1>4, <1>5

\* A step of the saga by one request is a step of the saga.
LEMMA SagaSteps ==
  ASSUME NEW r \in Requests,
         \/ Saga!Ask(r) \/ Saga!Start(r) \/ Saga!GiveUp(r) \/ Saga!Burn(r)
         \/ Saga!Use(r) \/ Saga!TakeBack(r)
  PROVE  Saga!SagaNext
BY DEF Saga!SagaNext

\* The request: it asks, may be refused, and goes on once its points stand.
LEMMA RequestFollows ==
  ASSUME TypeOK, PlaceInv, SagaPlace, NEW r \in Requests,
         \/ Arrive(r) \/ CheckBalance(r) \/ Authorize(r) \/ Unauthorized(r)
         \/ TransferIn(r) \/ TransferReverse(r)
  PROVE  [Saga!SagaNext]_(Saga!svars)
<1>1. /\ UNCHANGED <<tokens, usedBy, rows, burn>>
      /\ \A q \in Requests \ {r} : pc'[q] = pc[q]
  BY DEF Arrive, CheckBalance, Authorize, Unauthorized, TransferIn,
     TransferReverse, stores, Goto, AfterCallError, TypeOK
<1>2. Burned' = Burned
  BY <1>1 DEF Burned
<1>3. Fates' = [Fates EXCEPT ![r] = FateOf(r)']
  BY <1>1, FatesBecome
<1>4. ASSUME UNCHANGED <<points, req, met>>, FateOf(r)' = FateOf(r)
      PROVE  UNCHANGED Saga!svars
  <2>1. Fates' = Fates
    BY <1>3, <1>4 DEF Fates
  <2> QED BY <1>1, <1>2, <1>4, <2>1, Unseen
<1>5. ASSUME Arrive(r) PROVE Saga!Ask(r)
  <2>1. FateOf(r) = "none" /\ UNCHANGED points
    BY <1>5 DEF Arrive, FateOf, stores
  <2>2. \E o \in Saga!Orders : req' = [req EXCEPT ![r] = o]
    BY <1>5 DEF Arrive, Saga!Orders
  <2>5. \E m \in SUBSET {q \in Requests : Fates[q] \notin {"none", "confirmed"}} :
          met' = [met EXCEPT ![r] = m]
    <3>1. PICK c \in Codes :
            met' = [met EXCEPT ![r] = {q \in Requests : Concerns(q, c)}]
      BY <1>5 DEF Arrive
    <3>2. \A q \in Requests :
            Concerns(q, c) => Fates[q] \notin {"none", "confirmed"}
      BY DEF Concerns, Fates, FateOf, Running
    <3>3. {q \in Requests : Concerns(q, c)}
            \in SUBSET {q \in Requests : Fates[q] \notin {"none", "confirmed"}}
      BY <3>2
    <3> QED BY <3>1, <3>3
  <2>3. pc'[r] \in {"balance", "refused"} /\ burn'[r] = "none"
    BY <1>1, <1>5 DEF Arrive, Goto, TypeOK, PlaceInv
  <2>4. FateOf(r)' \in {"open", "unsent"}
    BY <2>3 DEF FateOf
  <2> QED
    BY <1>1, <1>2, <1>3, <2>1, <2>2, <2>4, <2>5 DEF Saga!Ask, Saga!Becomes, Fates
<1>6. ASSUME FateOf(r) = "open", FateOf(r)' = "going", req' = req, met' = met,
             r \notin points,
             points' = IF req[r].ais THEN points \cup {r} ELSE points
      PROVE  Saga!Start(r)
  BY <1>1, <1>2, <1>3, <1>6 DEF Saga!Start, Saga!Becomes, Fates
<1>7. CASE CheckBalance(r)
  <2>1. /\ pc[r] = "balance" /\ UNCHANGED <<points, req, met>> /\ r \notin points
        /\ \/ pc'[r] = "refused"
           \/ pc'[r] = IF req[r].ais THEN "credit" ELSE "burn"
    BY <1>7 DEF CheckBalance, Goto, stores, TypeOK, SagaPlace
  <2>2. CASE pc'[r] = "refused"
    BY <1>1, <2>1, <2>2, GivesUp, SagaSteps DEF Ended
  <2>3. CASE pc'[r] = "credit"
    BY <1>4, <2>1, <2>3 DEF FateOf
  <2>4. CASE pc'[r] = "burn" /\ ~req[r].ais
    BY <1>6, <2>1, <2>4, SagaSteps DEF FateOf
  <2> QED BY <2>1, <2>2, <2>3, <2>4
<1>8. CASE Unauthorized(r)
  BY <1>1, <1>4, <1>8 DEF Unauthorized, stores, FateOf
<1>9. CASE Authorize(r)
  <2>1. UNCHANGED <<points, req, met>> /\ pc[r] \in {"credit", "reverse"}
    BY <1>9 DEF Authorize, Calling, stores
  <2>2. CASE UNCHANGED pc
    BY <1>1, <1>4, <2>1, <2>2 DEF FateOf
  <2>3. CASE AfterCallError(r) /\ pc[r] = "credit"
    <3>1. pc'[r] = "refused"
      BY <2>3 DEF AfterCallError, Goto, TypeOK
    <3> QED BY <1>1, <2>1, <2>3, <3>1, GivesUp, SagaSteps DEF Ended
  <2>4. CASE AfterCallError(r) /\ pc[r] = "reverse"
    <3>1. pc'[r] = "rollbackFailed"
      BY <2>4 DEF AfterCallError, Goto, TypeOK
    <3> QED BY <1>1, <1>4, <2>1, <2>4, <3>1 DEF FateOf
  <2> QED BY <1>9, <2>1, <2>2, <2>3, <2>4 DEF Authorize
<1>10. CASE TransferIn(r)
  <2>1. pc[r] = "credit" /\ req[r].ais /\ r \notin points /\ UNCHANGED <<req, met>>
    BY <1>10 DEF TransferIn, SagaPlace
  <2>2. \/ pc'[r] = "burn" /\ points' = points \cup {r}
        \/ pc'[r] = "refused" /\ points' \in {points, points \cup {r}}
    BY <1>10, <2>1 DEF TransferIn, AfterCallError, Goto, TypeOK
  <2>3. CASE pc'[r] = "burn" /\ points' = points \cup {r}
    BY <1>6, <2>1, <2>3, SagaSteps DEF FateOf
  <2>4. CASE pc'[r] = "refused" /\ points' \in {points, points \cup {r}}
    BY <1>1, <2>1, <2>4, GivesUp, SagaSteps DEF Ended
  <2> QED BY <2>2, <2>3, <2>4
<1>11. CASE TransferReverse(r)
  <2>1. /\ pc[r] = "reverse" /\ req[r].ais /\ UNCHANGED <<req, met>>
        /\ pc'[r] \in {"rolledBack", "rollbackFailed"}
        /\ points' \in {points, points \ {r}}
    BY <1>11 DEF TransferReverse, AfterCallError, Goto, TypeOK, SagaPlace
  <2>2. FateOf(r)' = FateOf(r) /\ FateOf(r) \in {"unsent", "failed"}
    BY <1>1, <2>1 DEF FateOf
  <2>3. CASE points' = points
    BY <1>4, <2>1, <2>2, <2>3
  <2>4. CASE points' = points \ {r}
    <3>1. Fates' = Fates
      BY <1>3, <2>2 DEF Fates
    <3>2. Saga!TakeBack(r)
      BY <1>1, <1>2, <2>1, <2>2, <2>4, <3>1 DEF Saga!TakeBack, Fates
    <3> QED BY <3>2, SagaSteps
  <2> QED BY <2>1, <2>3, <2>4
<1> QED BY <1>5, <1>7, <1>8, <1>9, <1>10, <1>11, SagaSteps

\* The burn and the write: the code is used after its coupon is gone.
LEMMA CoreFollows ==
  ASSUME SagaInv, NEW r \in Requests,
         \/ Unresolved(r) \/ SendBurn(r) \/ AwaitBurn(r) \/ Record(r)
         \/ Crash(r)
  PROVE  [Saga!SagaNext]_(Saga!svars)
<1>1. TypeOK /\ PlaceInv /\ SagaPlace
  BY DEF SagaInv, IInv
<1>2. /\ UNCHANGED <<tokens, req, met, points>>
      /\ \A q \in Requests \ {r} : pc'[q] = pc[q] /\ burn'[q] = burn[q]
  BY <1>1 DEF Unresolved, SendBurn, AwaitBurn, Record, Crash, stores, Goto,
     Fail, TypeOK
<1>3. Fates' = [Fates EXCEPT ![r] = FateOf(r)']
  BY <1>2, FatesBecome
<1>4. ASSUME UNCHANGED <<usedBy, rows>>, FateOf(r)' = FateOf(r),
             Burned' = Burned
      PROVE  UNCHANGED Saga!svars
  <2>1. Fates' = Fates
    BY <1>3, <1>4 DEF Fates
  <2> QED BY <1>2, <1>4, <2>1, Unseen
<1>5. ASSUME UNCHANGED <<usedBy, rows, burn>>,
             pc[r] \in {"balance", "credit", "burn", "mined", "record"},
             pc'[r] \in {"reverse", "refused", "crashed"}
      PROVE  Saga!GiveUp(r)
  BY <1>1, <1>2, <1>5, GivesUp DEF Ended
<1>6. CASE Unresolved(r)
  <2>1. pc'[r] \in {"reverse", "refused"}
    BY <1>1, <1>6 DEF Unresolved, Fail, Goto, TypeOK
  <2> QED BY <1>5, <1>6, <2>1, SagaSteps DEF Unresolved, stores
<1>7. CASE SendBurn(r)
  <2>1. /\ pc[r] = "burn" /\ burn[r] = "none" /\ UNCHANGED <<usedBy, rows>>
        /\ \/ burn' = burn /\ pc'[r] \in {"reverse", "refused"}
           \/ burn'[r] = "pending" /\ pc'[r] \in {"mined", "reverse", "refused"}
    BY <1>1, <1>7 DEF SendBurn, Fail, Goto, TypeOK, PlaceInv
  <2>2. CASE burn' = burn /\ pc'[r] \in {"reverse", "refused"}
    BY <1>5, <2>1, <2>2, SagaSteps
  <2>3. CASE burn'[r] = "pending" /\ pc'[r] \in {"mined", "reverse", "refused"}
    <3>1. Burned' = Burned /\ r \notin Burned
      BY <1>2, <2>1, <2>3 DEF Burned
    <3>2. CASE pc'[r] = "mined"
      BY <1>4, <2>1, <3>1, <3>2 DEF FateOf
    <3>3. CASE pc'[r] # "mined"
      <4>1. FateOf(r) = "going" /\ FateOf(r)' = "failed"
        BY <2>1, <2>3, <3>3 DEF FateOf
      <4>2. Saga!GiveUp(r)
        BY <1>2, <1>3, <2>1, <3>1, <4>1
           DEF Saga!GiveUp, Saga!Becomes, Fates
      <4> QED BY <4>2, SagaSteps
    <3> QED BY <3>2, <3>3
  <2> QED BY <2>1, <2>2, <2>3
<1>8. CASE AwaitBurn(r)
  <2>1. /\ pc[r] = "mined" /\ UNCHANGED <<usedBy, rows, burn>>
        /\ pc'[r] \in {"record", "reverse", "refused"}
    BY <1>1, <1>8 DEF AwaitBurn, Fail, Goto, stores, TypeOK
  <2>2. CASE pc'[r] = "record"
    BY <1>4, <2>1, <2>2 DEF FateOf, Burned
  <2>3. CASE pc'[r] # "record"
    BY <1>5, <2>1, <2>3, SagaSteps
  <2> QED BY <2>2, <2>3
<1>9. CASE Record(r)
  <2>1. /\ pc[r] = "record" /\ burn[r] = "success" /\ burn' = burn
        /\ r \notin rows /\ (req[r].ais => r \in points)
    BY <1>1, <1>9 DEF Record, PlaceInv, SagaPlace
  <2>2. \A q \in rows : req[q].code = req[r].code => Saga!Met(r, q)
    BY <2>1 DEF SagaInv, MeetInv, Running, Met, Saga!Met
  <2>3. \/ pc'[r] \in {"reverse", "refused"} /\ UNCHANGED <<usedBy, rows>>
        \/ pc'[r] \in {"redeemed", "reverse", "refused"} /\ MarkUsed(r)
    BY <1>1, <1>9 DEF Record, Fail, Goto, TypeOK
  <2>4. CASE pc'[r] \in {"reverse", "refused"} /\ UNCHANGED <<usedBy, rows>>
    BY <1>5, <2>1, <2>4, SagaSteps
  <2>5. CASE pc'[r] \in {"redeemed", "reverse", "refused"} /\ MarkUsed(r)
    <3>1. FateOf(r) = "going" /\ FateOf(r)' \in {"confirmed", "failed"}
      BY <2>1, <2>5 DEF FateOf
    <3>2. r \in Burned /\ Burned' = Burned
      BY <2>1 DEF Burned
    <3>3. Saga!Use(r)
      BY <1>2, <1>3, <2>1, <2>2, <2>5, <3>1, <3>2
         DEF Saga!Use, Saga!Becomes, Fates, MarkUsed
    <3> QED BY <3>3, SagaSteps
  <2> QED BY <2>3, <2>4, <2>5
<1>10. CASE Crash(r)
  <2>1. pc[r] \in Running /\ pc'[r] = "crashed" /\ UNCHANGED <<usedBy, rows, burn>>
    BY <1>1, <1>10 DEF Crash, Goto, stores, TypeOK
  <2>2. CASE pc[r] = "reverse"
    BY <1>4, <2>1, <2>2 DEF FateOf, Burned
  <2>3. CASE pc[r] # "reverse"
    BY <1>5, <2>1, <2>3, SagaSteps DEF Running
  <2> QED BY <2>2, <2>3
<1> QED BY <1>6, <1>7, <1>8, <1>9, <1>10

\* The chain and the marketplace: coupons go by burns and come by purchases.
LEMMA ChainFollows ==
  ASSUME SagaInv,
         \/ \E r \in Requests : Mine(r) \/ Replace(r)
         \/ \E c \in Codes, k \in Customers : Sell(c, k)
         \/ Revoke
         \/ UNCHANGED vars
  PROVE  [Saga!SagaNext]_(Saga!svars)
<1>1. TypeOK /\ PlaceInv
  BY DEF SagaInv, IInv
<1>2. ASSUME NEW r \in Requests, Mine(r) PROVE [Saga!SagaNext]_(Saga!svars)
  <2>1. /\ burn[r] = "pending"
        /\ UNCHANGED <<usedBy, rows, points, req, met, pc>>
        /\ \A q \in Requests \ {r} : burn'[q] = burn[q]
        /\ burn'[r] # "none"
    BY <1>1, <1>2 DEF Mine, TypeOK
  <2>2. Fates' = Fates
    BY <2>1, FatesStay
  <2>3. CASE tokens[req[r].by] >= 1
    <3>1. /\ burn' = [burn EXCEPT ![r] = "success"]
          /\ tokens' = [tokens EXCEPT ![req[r].by] = @ - 1]
      BY <1>2, <2>3 DEF Mine
    <3>2. r \notin Burned /\ Burned' = Burned \cup {r}
      BY <1>1, <2>1, <3>1 DEF Burned, TypeOK
    <3>3. FateOf(r) \in {"going", "failed"}
      BY <1>1, <2>1 DEF FateOf, PlaceInv, TypeOK, Running, Ended
    <3>4. Saga!Burn(r)
      BY <2>1, <2>2, <2>3, <3>1, <3>2, <3>3 DEF Saga!Burn, Fates
    <3> QED BY <3>4, SagaSteps
  <2>4. CASE ~(tokens[req[r].by] >= 1)
    <3>1. burn'[r] = "reverted" /\ UNCHANGED tokens
      BY <1>1, <1>2, <2>4 DEF Mine, TypeOK
    <3>2. Burned' = Burned
      BY <2>1, <3>1 DEF Burned
    <3> QED BY <2>1, <2>2, <3>1, <3>2, Unseen
  <2> QED BY <2>3, <2>4
<1>3. ASSUME NEW r \in Requests, Replace(r)
      PROVE [Saga!SagaNext]_(Saga!svars)
  <2>1. /\ UNCHANGED <<tokens, usedBy, rows, points, req, met, pc>>
        /\ \A q \in Requests \ {r} : burn'[q] = burn[q]
        /\ burn[r] = "pending" /\ burn'[r] = "dropped"
    BY <1>1, <1>3 DEF Replace, TypeOK
  <2>2. Burned' = Burned /\ Fates' = Fates
    BY <2>1, FatesStay DEF Burned
  <2> QED BY <2>1, <2>2, Unseen
<1>4. ASSUME NEW c \in Codes, NEW k \in Customers, Sell(c, k)
      PROVE [Saga!SagaNext]_(Saga!svars)
  <2>1. Burned' = Burned /\ Fates' = Fates
    BY <1>4 DEF Sell, Burned, Fates, FateOf
  <2>2. Saga!Buy(k)
    BY <1>4, <2>1 DEF Sell, Saga!Buy, Fates
  <2> QED BY <2>2 DEF Saga!SagaNext
<1>5. CASE Revoke \/ UNCHANGED vars
  <2>1. UNCHANGED <<tokens, usedBy, rows, points, req, met, pc, burn>>
    BY <1>5 DEF Revoke, stores, vars
  <2>2. Burned' = Burned /\ Fates' = Fates
    BY <2>1 DEF Burned, Fates, FateOf
  <2> QED BY <2>1, <2>2, Unseen
<1> QED BY <1>2, <1>3, <1>4, <1>5

\* Before any request no step of the saga was taken.
LEMMA SagaStarts == Init => Saga!SagaInit
<1> SUFFICES ASSUME Init PROVE Saga!SagaInit
  OBVIOUS
<1>1. Burned = {} /\ \A r \in Requests : FateOf(r) = "none"
  BY DEF Init, Burned, FateOf
<1> QED BY <1>1 DEF Init, Saga!SagaInit

\* Redemption implements the saga: with crashes, lost answers, refused
\* reversals and replaced burns at every point, a redemption is seen as
\* credit, burn, use and take back in the order the saga allows.
THEOREM SagaIsFollowed == Spec => ImplementsSaga
<1>1. SagaInv /\ [Next]_vars => [Saga!SagaNext]_(Saga!svars)
  <2> SUFFICES ASSUME SagaInv, [Next]_vars
               PROVE  [Saga!SagaNext]_(Saga!svars)
    OBVIOUS
  <2>1. TypeOK /\ PlaceInv /\ SagaPlace
    BY DEF SagaInv, IInv
  <2> QED BY <2>1, RequestFollows, CoreFollows, ChainFollows
      DEF Next, RequestStep
<1> QED BY <1>1, SagaStarts, SagaInductive, PTL
    DEF Spec, ImplementsSaga, Saga!SagaSpec
=============================================================================
