--------------------------- MODULE BatchTransfer ----------------------------
(***************************************************************************)
(* Who asks for direct transfers, and what they answer.                    *)
(*                                                                         *)
(*   csv        ExecuteBatchTransferCsv, after PreviewBatchTransferCsv     *)
(*   json       BatchTransferVoucherToCustomer                             *)
(*   single     TransferVoucherToCustomer                                  *)
(*   rewards    ExecuteRewardsCsv: the merchant is whoever has a code      *)
(*                                                                         *)
(* A file is a sequence of rows: a customer, a voucher and a quantity.     *)
(* The stock for the whole file is looked at first; then each row is a     *)
(* direct transfer of its own, and a row that fails does not stop the      *)
(* next.  The server may stop between any two steps.                       *)
(***************************************************************************)
EXTENDS WalletPool, Sequences, FiniteSetsExt, Tallies

CONSTANTS
  Files,       \* bound: [kind, merchant, rows]
  Stranger,    \* a phone that is nobody's, or whose owner has no wallet
  Unminted,    \* a voucher without a tokenId
  SafeLimit    \* SAFE_TRANSFER_LIMIT

Kinds == {"csv", "json", "single", "rewards"}
Row   == [to: Customers \cup {Stranger}, voucher: Vouchers \cup {Unminted}, quantity: Int]

\* The quantity of a CSV row is parsed; the others are checked on arrival
\* (@Min(1)), and a reward is one coupon.
ASSUME FilesOK ==
  \A f \in Files :
    /\ f.kind \in Kinds /\ f.merchant \in Merchants
    /\ f.rows \in Seq(Row) /\ Len(f.rows) \in 1 .. MaxRows
    /\ f.kind # "csv" => \A i \in DOMAIN f.rows : f.rows[i].quantity >= 1
    /\ f.kind = "single" => Len(f.rows) = 1
    /\ f.kind = "rewards" => \A i \in DOMAIN f.rows : f.rows[i].quantity = 1
ASSUME NobodyElse == Stranger \notin Customers /\ Unminted \notin Vouchers

Tasks    == [f: Files, ready: SUBSET (1 .. MaxRows)]
LogStatuses == {"SUCCESS", "PARTIAL_FAILED", "FAILED"}

ASSUME NoTaskIsNull == None \notin Tasks /\ None \notin LogStatuses

VARIABLES
  file,       \* what a request was sent, and the rows a preview was content with
  seller,     \* the merchant whose codes the current row is for
  results,    \* what the answer will say of each row
  log         \* BatchTransferLog rows

callVars == <<file, seller, results, log>>

Calling == {"row", "prepare", "transfer", "ledger", "log"}
Outcomes == {"SUCCESS", "FAILED", "REVIEW", "DESYNCED"}

CallTypeOK ==
  /\ file \in [Requests -> Tasks \cup {None}]
  /\ seller \in [Requests -> Merchants \cup {None}]
  /\ results \in [Requests -> Seq(Outcomes)]
  /\ log \in [Requests -> LogStatuses \cup {None}]

CallInit ==
  /\ file = [r \in Requests |-> None]
  /\ seller = [r \in Requests |-> None]
  /\ results = [r \in Requests |-> <<>>]
  /\ log = [r \in Requests |-> None]

Rows(r)    == file[r].f.rows
Current(r) == Len(results[r]) + 1
ThisRow(r) == Rows(r)[Current(r)]
Op(r)      == <<r, Current(r)>>

\* Of a row that did not succeed only a CSV answer has the operation and the
\* hash: the others tell a failure that left something from no other.
Told(r, outcome) ==
  IF file[r].f.kind = "csv" \/ outcome = "SUCCESS" THEN outcome ELSE "FAILED"

Report(r, outcome) ==
  /\ results' = [results EXCEPT ![r] = Append(@, Told(r, outcome))]
  /\ Goto(r, "row")
  /\ UNCHANGED <<file, seller, log>>

(***************************************************************************)
(* Stock for a file.  A negative sum is an error of the query.             *)
(***************************************************************************)
RowsOf(rows, v) == {i \in DOMAIN rows : rows[i].voucher = v}
Needed(rows, v) == MapThenSumSet(LAMBDA i : rows[i].quantity, RowsOf(rows, v))
Named(rows)     == {rows[i].voucher : i \in DOMAIN rows}
Asked(rows, S)  == Tally([i \in S |-> rows[i].quantity])

InStock(f) ==
  \A v \in Named(f.rows) :
    Needed(f.rows, v) \in 0 .. Cardinality(WalletPool(v, f.merchant))

Reachable(row) == row.to \in Customers /\ row.voucher \in Vouchers
Valid(row)     == row.quantity > 0 /\ Reachable(row)

\* Seeded fault: the preview does not look at a row's quantity.
PreviewedReachable(f, i) ==
  LET v == f.rows[i].voucher IN
  /\ Reachable(f.rows[i])
  /\ Asked(f.rows, {j \in RowsOf(f.rows, v) : j <= i /\ f.rows[j].quantity > 0})
       <= Cardinality(WalletPool(v, f.merchant))

\* PreviewBatchTransferCsv: a row is valid, and the rows of its voucher up to
\* it are in stock.
Previewed(f, i) ==
  LET v == f.rows[i].voucher IN
  /\ Valid(f.rows[i])
  /\ Asked(f.rows, {j \in RowsOf(f.rows, v) : j <= i /\ f.rows[j].quantity > 0})
       <= Cardinality(WalletPool(v, f.merchant))

\* DryRunRewardsCsv: each row alone, and any unused code of a merchant, be it
\* listed or claimed.
DryRun(f, i) ==
  /\ f.rows[i].to # Stranger
  /\ \E c \in Codes : /\ VoucherOf[c] = f.rows[i].voucher
                      /\ owner[c] \in Merchants /\ c \notin used

Ready(f) ==
  {i \in DOMAIN f.rows : \/ f.kind = "csv" /\ Previewed(f, i)
                         \/ f.kind = "rewards" /\ DryRun(f, i)}

Admitted(f) ==
  /\ f.kind = "csv" => Len(f.rows) <= SafeLimit
  /\ f.kind \in {"csv", "json"} => InStock(f)
  /\ f.kind \in {"json", "single"} => \A i \in DOMAIN f.rows : Reachable(f.rows[i])

\* A request that is refused changes nothing and is left out.  The rows
\* another transaction has locked are passed over, which can only refuse more.
Start(r) ==
  /\ pc[r] = "idle"
  /\ \E f \in Files :
       /\ Admitted(f)
       /\ file' = [file EXCEPT ![r] = [f |-> f, ready |-> Ready(f)]]
       /\ seller' = [seller EXCEPT ![r] = f.merchant]
  /\ Goto(r, "row")
  /\ Begins(r)
  /\ UNCHANGED <<poolVars, results, log>>

(***************************************************************************)
(* One row after the other.                                                *)
(***************************************************************************)
BeginRow(r) ==
  /\ pc[r] = "row" /\ Current(r) <= Len(Rows(r))
  /\ file[r].f.kind # "rewards"
  /\ IF file[r].f.kind = "csv" /\ ~Valid(ThisRow(r))
       THEN Report(r, "FAILED")
       ELSE Goto(r, "prepare") /\ UNCHANGED callVars
  /\ Quietly(r)
  /\ UNCHANGED poolVars

\* A code of the voucher that is in any merchant's pool names the merchant.
FindReward(r) ==
  /\ pc[r] = "row" /\ Current(r) <= Len(Rows(r))
  /\ file[r].f.kind = "rewards"
  /\ LET row  == ThisRow(r)
         pool == UNION {WalletPool(row.voucher, m) : m \in Merchants} IN
     IF row.to = Stranger \/ pool = {}
       THEN Report(r, "FAILED")
       ELSE /\ seller' = [seller EXCEPT ![r] = owner[CHOOSE c \in Lowest(pool, 1) : TRUE]]
            /\ Goto(r, "prepare")
            /\ UNCHANGED <<file, results, log>>
  /\ Quietly(r)
  /\ UNCHANGED poolVars

\* One transaction: the codes are claimed, or there are not enough.
Prepare(r) ==
  LET row == ThisRow(r)  pool == WalletPool(row.voucher, seller[r]) IN
  /\ pc[r] = "prepare"
  /\ Quietly(r)
  /\ \/ /\ Cardinality(pool) >= row.quantity
        /\ Claim(Op(r), Lowest(pool, row.quantity), row.to)
        /\ Goto(r, "transfer") /\ UNCHANGED callVars
     \/ /\ \/ Cardinality(pool) < row.quantity
           \/ \E q \in Requests \ {r} : pc[q] \in {"prepare", "ledger"}
        /\ Report(r, "FAILED") /\ UNCHANGED poolVars

\* The chain refuses a transfer of more coupons than the merchant has, which
\* an activation of claimed codes may have taken.
Short(o) ==
  \E c \in Claimed(o) : tokens[<<VoucherOf[c], owner[c]>>] < Cardinality(Claimed(o))
Fails(r) == Raises(r) \/ (Short(Op(r)) /\ Quietly(r))

\* Seeded fault: a transfer nobody can vouch for is reported like a refusal.
TransferShrugs(r) ==
  LET o == Op(r) IN
  /\ pc[r] = "transfer"
  /\ \/ /\ Moved(o) /\ Goto(r, "ledger") /\ Quietly(r)
        /\ UNCHANGED <<owner, delivered, callVars>>
     \/ Fails(r) /\ Report(r, "FAILED") /\ (Release(o) \/ UNCHANGED poolVars)

\* The chain moves the coupons, or the transfer fails: reverted, and then the
\* codes are released, or in a way that leaves the operation to a review.
Transfer(r) ==
  LET o == Op(r) IN
  /\ pc[r] = "transfer"
  /\ \/ /\ Moved(o) /\ Goto(r, "ledger") /\ Quietly(r)
        /\ UNCHANGED <<owner, delivered, callVars>>
     \/ Fails(r) /\ Report(r, "REVIEW") /\ (Release(o) \/ UNCHANGED poolVars)
     \/ Raises(r) /\ Report(r, "REVIEW") /\ Moved(o) /\ UNCHANGED <<owner, delivered>>

Ledger(r) ==
  /\ pc[r] = "ledger"
  /\ \/ WriteLedger(Op(r)) /\ Report(r, "SUCCESS") /\ Quietly(r)
     \/ UNCHANGED <<owner, delivered, shelved>> /\ Report(r, "DESYNCED") /\ Raises(r)
  /\ UNCHANGED <<used, claim, tokens, settled, receiver, others, crossed>>

(***************************************************************************)
(* The end.                                                                *)
(***************************************************************************)
Status(r) ==
  LET good == {i \in DOMAIN results[r] : results[r][i] = "SUCCESS"} IN
  IF good = DOMAIN results[r] THEN "SUCCESS" ELSE
  IF good = {}                THEN "FAILED"  ELSE "PARTIAL_FAILED"

Finish(r) ==
  /\ pc[r] = "row" /\ Current(r) > Len(Rows(r))
  /\ Goto(r, IF file[r].f.kind = "csv" THEN "log" ELSE "over")
  /\ Quietly(r)
  /\ UNCHANGED <<poolVars, callVars>>

WriteLog(r) ==
  /\ pc[r] = "log"
  /\ Goto(r, "over")
  /\ \/ log' = [log EXCEPT ![r] = Status(r)] /\ Quietly(r)
     \/ Raises(r) /\ UNCHANGED log
  /\ UNCHANGED <<poolVars, file, seller, results>>

Stop(r) ==
  /\ pc[r] \in Calling
  /\ Goto(r, "dead") /\ Raises(r)
  /\ \/ UNCHANGED poolVars
     \/ pc[r] = "transfer" /\ Moved(Op(r)) /\ UNCHANGED <<owner, delivered>>
  /\ UNCHANGED callVars

\* Seeded fault: recovery gives the codes back without asking the chain.
RecoverReleases(o) ==
  /\ OpenClaim(o)
  /\ ~(pc[o[1]] \in {"transfer", "ledger"} /\ Op(o[1]) = o)
  /\ claim' = [c \in Codes |-> IF claim[c] = o THEN None ELSE claim[c]]
  /\ UNCHANGED <<owner, delivered, shelved, used, tokens, settled, receiver, crossed>>
  /\ Other
  /\ UNCHANGED callVars

\* Seeded fault: recovery hands over without asking the chain.
RecoverAnyway(o) ==
  /\ OpenClaim(o)
  /\ ~(pc[o[1]] \in {"transfer", "ledger"} /\ Op(o[1]) = o)
  /\ WriteLedger(o) /\ UNCHANGED claim
  /\ UNCHANGED <<used, tokens, settled, receiver, crossed>>
  /\ Other
  /\ UNCHANGED callVars

\* Recovery, when the request has let go of the operation.
Recover(o) ==
  /\ OpenClaim(o)
  /\ ~(pc[o[1]] \in {"transfer", "ledger"} /\ Op(o[1]) = o)
  /\ \/ o \in settled /\ WriteLedger(o) /\ UNCHANGED claim
     \/ /\ o \notin settled
        /\ claim' = [c \in Codes |-> IF claim[c] = o THEN None ELSE claim[c]]
        /\ UNCHANGED <<owner, delivered, shelved>>
  /\ UNCHANGED <<used, tokens, settled, receiver, crossed>>
  /\ Other
  /\ UNCHANGED callVars

CallStep(r) == \/ Start(r) \/ BeginRow(r) \/ FindReward(r) \/ Prepare(r) \/ Transfer(r)
               \/ Ledger(r) \/ Finish(r) \/ WriteLog(r) \/ Stop(r)
=============================================================================
