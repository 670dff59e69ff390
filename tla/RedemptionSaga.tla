--------------------------- MODULE RedemptionSaga ---------------------------
(***************************************************************************)
(* What a redemption promises, whatever fails in between.  It credits its  *)
(* points once, before anything is burned; it burns one coupon, and none   *)
(* if it ended before it went on; it uses its code in one step, after its  *)
(* coupon was burned and while its points stand, and not a code that was   *)
(* used unless it met the request that used it, which it cannot once that  *)
(* one is confirmed; and it takes its points back only if it did not end   *)
(* well.                                                                   *)
(***************************************************************************)
EXTENDS Naturals

CONSTANTS Codes, Requests, Customers, None

VARIABLES
  coupons,    \* the coupons of each customer
  usedBy,     \* who used each code, None at first
  rows,       \* requests that used their code
  points,     \* requests whose points stand
  burned,     \* requests whose coupon is gone
  order,      \* what a request asks for: code, customer and points or not
  fate,       \* how far a request got
  met         \* the requests it met: those it may share its code with

svars == <<coupons, usedBy, rows, points, burned, order, fate, met>>

Orders == [code: Codes, by: Customers, ais: BOOLEAN]

SagaInit ==
  /\ usedBy = [c \in Codes |-> None]
  /\ rows = {} /\ points = {} /\ burned = {}
  /\ fate = [r \in Requests |-> "none"]
  /\ met = [r \in Requests |-> {}]

Met(r, q) == q \in met[r] \/ r \in met[q]

Becomes(r, f) == fate' = [fate EXCEPT ![r] = f]

\* A redemption that was confirmed is over: nobody meets it any more.
Ask(r) ==
  /\ fate[r] = "none"
  /\ \E m \in SUBSET {q \in Requests : fate[q] \notin {"none", "confirmed"}} :
       met' = [met EXCEPT ![r] = m]
  /\ \E o \in Orders : order' = [order EXCEPT ![r] = o]
  /\ \E f \in {"open", "unsent"} : Becomes(r, f)
  /\ UNCHANGED <<coupons, usedBy, rows, points, burned>>

\* From here on a coupon may be burned: points come first, and once.
Start(r) ==
  /\ fate[r] = "open" /\ r \notin points
  /\ points' = IF order[r].ais THEN points \cup {r} ELSE points
  /\ Becomes(r, "going")
  /\ UNCHANGED <<coupons, usedBy, rows, burned, order, met>>

\* A refusal, an error or a crash.  The credit may have taken effect even
\* if its answer was lost.
GiveUp(r) ==
  /\ \/ /\ fate[r] = "open" /\ Becomes(r, "unsent")
        /\ points' = points \/ (order[r].ais /\ points' = points \cup {r})
     \/ /\ fate[r] = "going" /\ UNCHANGED points
        /\ \/ r \notin burned /\ Becomes(r, "unsent")
           \/ Becomes(r, "failed")
  /\ UNCHANGED <<coupons, usedBy, rows, burned, order, met>>

\* A burn may be mined after the request that sent it gave up.
Burn(r) ==
  /\ fate[r] \in {"going", "failed"} /\ r \notin burned
  /\ coupons[order[r].by] >= 1
  /\ coupons' = [coupons EXCEPT ![order[r].by] = @ - 1]
  /\ burned' = burned \cup {r}
  /\ UNCHANGED <<usedBy, rows, points, order, fate, met>>

\* The code may be used although the request is told that it failed.
Use(r) ==
  /\ fate[r] = "going" /\ r \in burned /\ r \notin rows
  /\ order[r].ais => r \in points
  /\ \A q \in rows : order[q].code = order[r].code => Met(r, q)
  /\ usedBy' = [usedBy EXCEPT ![order[r].code] = order[r].by]
  /\ rows' = rows \cup {r}
  /\ \E f \in {"confirmed", "failed"} : Becomes(r, f)
  /\ UNCHANGED <<coupons, points, burned, order, met>>

TakeBack(r) ==
  /\ fate[r] \in {"unsent", "failed"} /\ order[r].ais
  /\ points' = points \ {r}
  /\ UNCHANGED <<coupons, usedBy, rows, burned, order, fate, met>>

\* A customer buys a code that nobody used, and a coupon with it.
Buy(k) ==
  /\ \E c \in Codes : usedBy[c] = None
  /\ coupons' = [coupons EXCEPT ![k] = @ + 1]
  /\ UNCHANGED <<usedBy, rows, points, burned, order, fate, met>>

SagaNext ==
  \/ \E r \in Requests : \/ Ask(r) \/ Start(r) \/ GiveUp(r) \/ Burn(r)
                         \/ Use(r) \/ TakeBack(r)
  \/ \E k \in Customers : Buy(k)

SagaSpec == SagaInit /\ [][SagaNext]_svars
=============================================================================
