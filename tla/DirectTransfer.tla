--------------------------- MODULE DirectTransfer ---------------------------
(***************************************************************************)
(* Direct transfer of voucher codes from a merchant's Wallet Pool to a     *)
(* customer: a request reserves code rows in PostgreSQL, moves the coupon  *)
(* tokens on chain and then writes the ledger; administrators later repair *)
(* the operations a failure left unfinished.                               *)
(*                                                                         *)
(*   request   executeDirectVoucherTransfer (direct-voucher-transfer.util) *)
(*   workers   RecoverDirectTransferOperationsHandler: one worker handles  *)
(*             one selected operation of a dry run, an execute run or an   *)
(*             explicit release                                            *)
(*   chain     the coupon contract, seen through submit / wait / receipt   *)
(*                                                                         *)
(* A Prisma $transaction or a single statement is one step, because row    *)
(* locks serialise the writers of a row and a commit is atomic; separate   *)
(* statements are separate steps.  One merchant and one voucher: all       *)
(* predicates on them are constant.  Each request signs one transaction,   *)
(* so an operation's hash is only "recorded" or not.                       *)
(***************************************************************************)
EXTENDS Naturals, FiniteSets

CONSTANTS
  Codes,              \* voucher code rows of the merchant
  Ops,                \* transfer requests, one operation row each
  Customers,          \* receivers
  Workers,            \* recovery workers that may run at the same time
  Merchant,           \* the owner of a code that was not handed out
  None,               \* SQL NULL
  MaxQuantity,        \* bound: codes asked for by one request
  MaxFaults,          \* bound: failed database or RPC calls
  MaxListed,          \* bound: codes on the marketplace at a time
  MaxCareless         \* bound: operations in shared, operations in hasty

ASSUME OwnersDiffer == Merchant \notin Customers
ASSUME Bounds       == /\ MaxQuantity \in Nat \ {0}
                       /\ MaxFaults \in Nat /\ MaxListed \in Nat
                       /\ MaxCareless \in Nat

VARIABLES
  owner,     \* VoucherCode.currentOwnerId
  listed,    \* VoucherCode.voucherGroupId is set; rows that are used or bound
             \* to a point are in no pool and are left out
  claim,     \* VoucherCode.directTransferOperationId
  status,    \* DirectTransferOperation.status, None before the row exists
  hash,      \* DirectTransferOperation.txHash is set
  reserved,  \* DirectTransferOperation.reservedVoucherCodeIds
  receiver,  \* DirectTransferOperation.customerId
  aged,      \* createdAt lies 15 minutes back
  rows,      \* number of Transaction rows per (transactionRefId, code)
  chain,     \* fate of the coupon transfer the request signed
  pc,        \* where the request stands
  worker,    \* recovery workers
  faults,    \* failed calls so far
  hasty,     \* history: operations whose codes an administrator gave back
             \* while the request was alive or after it had sent something
  shared     \* history: operations that a worker took up while the request
             \* or another worker was still at them

history == <<hasty, shared>>
tables == <<owner, listed, claim, status, hash, reserved, receiver, rows>>
vars == <<owner, listed, claim, status, hash, reserved, receiver, rows,
          aged, chain, pc, worker, faults, hasty, shared>>

Statuses == {"PREPARED", "SUBMITTED", "CONFIRMED", "CHAIN_FAILED",
             "DB_FAILED", "MANUAL_REVIEW"}
ASSUME NoneIsNull == None \notin Ops \cup Customers \cup Statuses

Final    == {"CONFIRMED", "CHAIN_FAILED"}
Fates    == {"none", "pending", "success", "reverted", "dropped"}
Running  == {"submit", "mark", "wait", "ledger",
             "release", "dbFailed", "review", "reviewSent"}
Ended    == {"done", "failed"}
Advice   == {"NO_ACTION", "WAIT", "FINALIZE_DB", "MARK_CONFIRMED_ONLY",
             "RELEASE_CLAIM", "MANUAL_REVIEW", "INVESTIGATE_SUBMISSION"}
Acting   == {"inspect", "read", "act", "release"}

Idle == [at |-> "idle"]
WorkerState ==
  {Idle} \cup
  [at: Acting, op: Ops, dry: BOOLEAN, seen: Statuses, hash: BOOLEAN,
   rows: {"unread", "none", "exact", "other"},
   codes: {"unread", "none", "all", "some"}, advice: Advice]

TypeOK ==
  /\ owner \in [Codes -> Customers \cup {Merchant}]
  /\ listed \in [Codes -> BOOLEAN]
  /\ claim \in [Codes -> Ops \cup {None}]
  /\ status \in [Ops -> Statuses \cup {None}]
  /\ hash \in [Ops -> BOOLEAN]
  /\ reserved \in [Ops -> SUBSET Codes]
  /\ receiver \in [Ops -> Customers \cup {None}]
  /\ aged \in [Ops -> BOOLEAN]
  /\ rows \in [Ops -> [Codes -> Nat]]
  /\ chain \in [Ops -> Fates]
  /\ pc \in [Ops -> {"idle"} \cup Running \cup Ended]
  /\ worker \in [Workers -> WorkerState]
  /\ faults \in Nat
  /\ hasty \subseteq Ops /\ shared \subseteq Ops

Init ==
  /\ owner = [c \in Codes |-> Merchant]
  /\ listed = [c \in Codes |-> FALSE]
  /\ claim = [c \in Codes |-> None]
  /\ status = [o \in Ops |-> None]
  /\ hash = [o \in Ops |-> FALSE]
  /\ reserved = [o \in Ops |-> {}]
  /\ receiver = [o \in Ops |-> None]
  /\ aged = [o \in Ops |-> FALSE]
  /\ rows = [o \in Ops |-> [c \in Codes |-> 0]]
  /\ chain = [o \in Ops |-> "none"]
  /\ pc = [o \in Ops |-> "idle"]
  /\ worker = [w \in Workers |-> Idle]
  /\ faults = 0
  /\ hasty = {} /\ shared = {}

-----------------------------------------------------------------------------
(* The transactions and statements both sides issue.                       *)

\* Rows a direct transfer may take: the merchant's, unlisted and unclaimed.
WalletPool ==
  {c \in Codes : owner[c] = Merchant /\ ~listed[c] /\ claim[c] = None}

SetStatus(o, s) ==
  /\ status' = [status EXCEPT ![o] = s]
  /\ UNCHANGED <<owner, listed, claim, hash, reserved, receiver, rows>>

\* One transaction: the operation row and the claims on its codes.
ClaimCodes(o, k, S) ==
  /\ status' = [status EXCEPT ![o] = "PREPARED"]
  /\ reserved' = [reserved EXCEPT ![o] = S]
  /\ receiver' = [receiver EXCEPT ![o] = k]
  /\ claim' = [c \in Codes |-> IF c \in S THEN o ELSE claim[c]]
  /\ UNCHANGED <<owner, listed, hash, rows>>

\* Seeded fault: submission is taken for confirmation.
MarkSubmittedConfirmed(o) ==
  /\ status' = [status EXCEPT ![o] = "CONFIRMED"]
  /\ hash' = [hash EXCEPT ![o] = TRUE]
  /\ UNCHANGED <<owner, listed, claim, reserved, receiver, rows>>

MarkSubmitted(o) ==
  /\ status' = [status EXCEPT ![o] = "SUBMITTED"]
  /\ hash' = [hash EXCEPT ![o] = TRUE]
  /\ UNCHANGED <<owner, listed, claim, reserved, receiver, rows>>

ReleaseClaims(o) ==
  /\ status' = [status EXCEPT ![o] = "CHAIN_FAILED"]
  /\ claim' = [c \in Codes |-> IF claim[c] = o THEN None ELSE claim[c]]
  /\ UNCHANGED <<owner, listed, hash, reserved, receiver, rows>>

\* The ownership update must match every reserved code, or all rolls back.
LedgerWritable(o) == \A c \in reserved[o] : claim[c] = o

WriteLedger(o) ==
  /\ LedgerWritable(o)
  /\ owner' = [c \in Codes |->
                 IF c \in reserved[o] THEN receiver[o] ELSE owner[c]]
  /\ listed' = [c \in Codes |-> listed[c] /\ c \notin reserved[o]]
  /\ rows' = [rows EXCEPT ![o] = [c \in Codes |->
                 IF c \in reserved[o] THEN rows[o][c] + 1 ELSE rows[o][c]]]
  /\ status' = [status EXCEPT ![o] = "CONFIRMED"]
  /\ hash' = [hash EXCEPT ![o] = TRUE]
  /\ UNCHANGED <<claim, reserved, receiver>>

\* Seeded fault: recovery writes a ledger that is already there.
WriteAgain(o) == WriteLedger(o)

MarkConfirmed(o) ==
  /\ status' = [status EXCEPT ![o] = "CONFIRMED"]
  /\ hash' = [hash EXCEPT ![o] = TRUE]
  /\ UNCHANGED <<owner, listed, claim, reserved, receiver, rows>>

NoWrite == UNCHANGED tables

\* A call that raises: rolled back, or committed with the answer lost.
Raise(write) == /\ faults < MaxFaults
                /\ faults' = faults + 1
                /\ write \/ NoWrite

Goto(o, place) == pc' = [pc EXCEPT ![o] = place]

-----------------------------------------------------------------------------
(* The request: executeDirectVoucherTransfer.                              *)

\* Reserve codes; an error here reaches the caller before it knows the id.
Prepare(o) ==
  /\ pc[o] = "idle"
  /\ \E k \in Customers, S \in SUBSET WalletPool :
       /\ Cardinality(S) \in 1 .. MaxQuantity
       /\ \/ ClaimCodes(o, k, S) /\ Goto(o, "submit") /\ UNCHANGED faults
          \/ Raise(ClaimCodes(o, k, S)) /\ Goto(o, "failed")
  /\ UNCHANGED <<aged, chain, worker, history>>

\* SKIP LOCKED passes over rows another transaction holds at the moment, so
\* any part of the pool may be all the request sees.
PrepareInsufficient(o) ==
  /\ pc[o] = "idle"
  /\ \E q \in 1 .. MaxQuantity, seen \in SUBSET WalletPool :
       Cardinality(seen) < q
  /\ Goto(o, "failed")
  /\ UNCHANGED <<tables, aged, chain, worker, faults, history>>

Submit(o) ==
  /\ pc[o] = "submit"
  /\ chain' = [chain EXCEPT ![o] = "pending"]
  /\ Goto(o, "mark")
  /\ UNCHANGED <<tables, aged, worker, faults, history>>

\* The RPC call raises; the node may have taken the transaction all the same.
SubmitError(o) ==
  /\ pc[o] = "submit"
  /\ faults < MaxFaults
  /\ faults' = faults + 1
  /\ chain' \in {chain, [chain EXCEPT ![o] = "pending"]}
  /\ Goto(o, "review")
  /\ UNCHANGED <<tables, aged, worker, history>>

Mark(o) ==
  /\ pc[o] = "mark"
  /\ \/ MarkSubmitted(o) /\ Goto(o, "wait") /\ UNCHANGED faults
     \/ Raise(MarkSubmitted(o)) /\ Goto(o, "reviewSent")
  /\ UNCHANGED <<aged, chain, worker, history>>

\* Seeded fault: no receipt yet counts as a good one.
WaitBriefly(o) ==
  /\ pc[o] = "wait"
  /\ \/ chain[o] # "reverted" /\ Goto(o, "ledger")
     \/ chain[o] = "reverted" /\ Goto(o, "release")
  /\ UNCHANGED <<tables, aged, chain, worker, faults, history>>

\* A revert is reported with its own code or as a plain error; a replaced
\* transaction makes tx.wait() throw, whatever became of the other one.
Wait(o) ==
  /\ pc[o] = "wait"
  /\ \/ chain[o] = "success" /\ Goto(o, "ledger") /\ UNCHANGED faults
     \/ chain[o] = "reverted" /\ Goto(o, "release") /\ UNCHANGED faults
     \/ chain[o] = "dropped" /\ Goto(o, "reviewSent") /\ UNCHANGED faults
     \/ Raise(NoWrite) /\ Goto(o, "reviewSent")
  /\ UNCHANGED <<tables, aged, chain, worker, history>>

Ledger(o) ==
  /\ pc[o] = "ledger"
  /\ \/ WriteLedger(o) /\ Goto(o, "done") /\ UNCHANGED faults
     \/ /\ ~LedgerWritable(o)
        /\ Goto(o, "dbFailed")
        /\ UNCHANGED <<tables, faults>>
     \/ Raise(WriteLedger(o)) /\ Goto(o, "dbFailed")
  /\ UNCHANGED <<aged, chain, worker, history>>

\* Seeded fault: every failure gives the codes back.
RecordAndRelease(o) ==
  \/ pc[o] \in {"release", "review", "reviewSent"} /\ ReleaseClaims(o)
  \/ pc[o] = "dbFailed" /\ SetStatus(o, "DB_FAILED")

RecordFailure(o) ==
  \/ pc[o] = "release" /\ ReleaseClaims(o)
  \/ pc[o] = "dbFailed" /\ SetStatus(o, "DB_FAILED")
  \/ pc[o] \in {"review", "reviewSent"} /\ SetStatus(o, "MANUAL_REVIEW")

\* The catch block; an error of the status write itself is swallowed.
Catch(o) ==
  /\ pc[o] \in {"release", "dbFailed", "review", "reviewSent"}
  /\ (RecordFailure(o) /\ UNCHANGED faults) \/ Raise(RecordFailure(o))
  /\ Goto(o, "failed")
  /\ UNCHANGED <<aged, chain, worker, history>>

\* The process stops: only what was committed survives.
Crash(o) ==
  /\ pc[o] \in Running
  /\ Goto(o, "failed")
  /\ UNCHANGED <<tables, aged, chain, worker, faults, history>>

RequestStep(o) ==
  \/ Prepare(o) \/ PrepareInsufficient(o) \/ Submit(o) \/ SubmitError(o)
  \/ Mark(o) \/ Wait(o) \/ Ledger(o) \/ Catch(o)

-----------------------------------------------------------------------------
(* The chain and the clock.                                                *)

Mine(o) ==
  /\ chain[o] = "pending"
  /\ \E fate \in {"success", "reverted"} :
       chain' = [chain EXCEPT ![o] = fate]
  /\ UNCHANGED <<tables, aged, pc, worker, faults, history>>

\* Requests take their nonce from the node: a second transfer of the same
\* wallet may replace one that is not mined yet.
Replace(o) ==
  /\ chain[o] = "pending"
  /\ \E p \in Ops \ {o} : chain[p] # "none"
  /\ chain' = [chain EXCEPT ![o] = "dropped"]
  /\ UNCHANGED <<tables, aged, pc, worker, faults, history>>

Age(o) ==
  /\ status[o] # None /\ ~aged[o]
  /\ aged' = [aged EXCEPT ![o] = TRUE]
  /\ UNCHANGED <<tables, chain, pc, worker, faults, history>>

\* An activation found the code among the merchant's, claimed or not, and
\* lists it by its id: fetchOwnedCodesToActivate and persistVoucherCodes do
\* not look at directTransferOperationId.
Activate(c) ==
  /\ ~listed[c]
  /\ Cardinality({d \in Codes : listed[d]}) < MaxListed
  /\ listed' = [listed EXCEPT ![c] = TRUE]
  /\ UNCHANGED <<owner, claim, status, hash, reserved, receiver, rows, aged,
                 chain, pc, worker, faults, history>>

-----------------------------------------------------------------------------
(* Recovery: RecoverDirectTransferOperationsHandler.                       *)

Busy(w, o) == worker[w].at # "idle" /\ worker[w].op = o

Undisturbed(w, o) == /\ pc[o] \in Ended
                     /\ \A v \in Workers \ {w} : ~Busy(v, o)

\* Nothing keeps two runs, or a run and the request, off one operation.
TakeUp(w, o) ==
  /\ worker[w].at = "idle"
  /\ status[o] # None
  /\ Undisturbed(w, o) \/ Cardinality(shared) < MaxCareless
  /\ shared' = IF Undisturbed(w, o) THEN shared ELSE shared \cup {o}

\* The request is over and has sent nothing.
Over(o) == chain[o] = "none" /\ pc[o] \in Ended

Become(w, state) == worker' = [worker EXCEPT ![w] = state]

\* findSelectedOperations: the row as it is now is what the run will act on.
Snapshot(o, place, dry) ==
  [at |-> place, op |-> o, dry |-> dry, seen |-> status[o], hash |-> hash[o],
   rows |-> "unread", codes |-> "unread", advice |-> "NO_ACTION"]

Select(w, o, dry) ==
  /\ TakeUp(w, o)
  /\ Become(w, Snapshot(o, "inspect", dry))
  /\ UNCHANGED <<tables, aged, chain, pc, faults, hasty>>

Advise(w, advice) ==
  Become(w, [worker[w] EXCEPT !.at = "act", !.advice = advice])

Uncertain(r) == r.seen = "PREPARED" /\ ~r.hash

\* inspectOperation up to the point where it needs the database state.
Inspect(w) ==
  /\ worker[w].at = "inspect"
  /\ LET r == worker[w] IN
     \/ r.seen \in Final /\ Advise(w, "NO_ACTION")
     \/ /\ r.seen \notin Final
        /\ ~r.hash /\ ~Uncertain(r)
        /\ Advise(w, "MANUAL_REVIEW")
     \/ /\ r.seen \notin Final
        /\ r.hash
        /\ \/ chain[r.op] \in {"none", "pending", "dropped"}
              /\ Advise(w, "WAIT")
           \/ chain[r.op] = "reverted" /\ Advise(w, "RELEASE_CLAIM")
           \/ chain[r.op] = "success"
              /\ Become(w, [r EXCEPT !.at = "read"])
     \/ Uncertain(r) /\ Become(w, [r EXCEPT !.at = "read"])
  /\ UNCHANGED <<tables, aged, chain, pc, faults, history>>

RowsSeen(o) ==
  IF \A c \in Codes : rows[o][c] = 0 THEN "none"
  ELSE IF \A c \in Codes : rows[o][c] = (IF c \in reserved[o] THEN 1 ELSE 0)
       THEN "exact" ELSE "other"

Delivered(o, c) == owner[c] = receiver[o] /\ claim[c] = o

CodesSeen(o) ==
  IF \A c \in reserved[o] : Delivered(o, c) THEN "all"
  ELSE IF \E c \in reserved[o] : owner[c] # Merchant THEN "some" ELSE "none"

\* getDatabaseState issues two queries that share no snapshot.
ReadRows(w) ==
  /\ worker[w].at = "read" /\ worker[w].rows = "unread"
  /\ Become(w, [worker[w] EXCEPT !.rows = RowsSeen(worker[w].op)])
  /\ UNCHANGED <<tables, aged, chain, pc, faults, history>>

ReadCodes(w) ==
  /\ worker[w].at = "read" /\ worker[w].codes = "unread"
  /\ Become(w, [worker[w] EXCEPT !.codes = CodesSeen(worker[w].op)])
  /\ UNCHANGED <<tables, aged, chain, pc, faults, history>>

Complete(r) == r.rows = "exact" /\ r.codes = "all"
\* Seeded fault: an untouched database counts as a partial one.
AlwaysPartial(r) == ~Complete(r)

Partial(r) == ~Complete(r) /\ (r.rows # "none" \/ r.codes # "none")

\* What inspectOperation concludes from the two reads.
Conclude(w) ==
  /\ worker[w].at = "read"
  /\ worker[w].rows # "unread" /\ worker[w].codes # "unread"
  /\ LET r == worker[w] IN
     \/ Partial(r) /\ Advise(w, "MANUAL_REVIEW")
     \/ /\ Complete(r)
        /\ IF ~Uncertain(r) \/ chain[r.op] = "success"
           THEN Advise(w, "MARK_CONFIRMED_ONLY")
           ELSE Advise(w, "MANUAL_REVIEW")
     \/ /\ ~Complete(r) /\ ~Partial(r)
        /\ IF Uncertain(r) THEN Advise(w, "INVESTIGATE_SUBMISSION")
                           ELSE Advise(w, "FINALIZE_DB")
  /\ UNCHANGED <<tables, aged, chain, pc, faults, history>>

\* The advice is carried out on the operation as it is by now.
Act(w) ==
  /\ worker[w].at = "act"
  /\ LET o == worker[w].op
         a == worker[w].advice
     IN IF worker[w].dry THEN NoWrite
        ELSE \/ a = "FINALIZE_DB" /\ WriteLedger(o)
             \/ a = "FINALIZE_DB" /\ ~LedgerWritable(o) /\ NoWrite
             \/ a = "MARK_CONFIRMED_ONLY" /\ MarkConfirmed(o)
             \/ a = "RELEASE_CLAIM" /\ ReleaseClaims(o)
             \/ a = "MANUAL_REVIEW" /\ SetStatus(o, "MANUAL_REVIEW")
             \/ /\ a \in {"NO_ACTION", "WAIT", "INVESTIGATE_SUBMISSION"}
                /\ NoWrite
  /\ Become(w, Idle)
  /\ UNCHANGED <<aged, chain, pc, faults, history>>

\* A call fails or the process stops; at most an ERROR event is recorded.
Abandon(w) ==
  /\ worker[w].at # "idle"
  /\ Raise(NoWrite)
  /\ Become(w, Idle)
  /\ UNCHANGED <<tables, aged, chain, pc, history>>

StillReserved(o) ==
  \A c \in reserved[o] : owner[c] = Merchant /\ claim[c] = o

\* releasePrepared, its checks.  What the administrator wrote down as
\* evidence is stored and not looked at.
CheckRelease(w, o) ==
  /\ TakeUp(w, o)
  /\ Over(o) \/ Cardinality(hasty) < MaxCareless
  /\ status[o] = "PREPARED" /\ ~hash[o]
  /\ aged[o]
  /\ RowsSeen(o) = "none"
  /\ {c \in Codes : claim[c] = o} = reserved[o]
  /\ StillReserved(o)
  /\ Become(w, Snapshot(o, "release", FALSE))
  /\ UNCHANGED <<tables, aged, chain, pc, faults, hasty>>

\* releasePrepared, its transaction: guarded updates, or nothing.
CommitRelease(w) ==
  /\ worker[w].at = "release"
  /\ LET o == worker[w].op
         Unchanged == status[o] = "PREPARED" /\ ~hash[o] /\ StillReserved(o)
     IN /\ IF Unchanged THEN ReleaseClaims(o) ELSE NoWrite
        /\ hasty' = IF Unchanged /\ ~Over(o) THEN hasty \cup {o} ELSE hasty
  /\ Become(w, Idle)
  /\ UNCHANGED <<aged, chain, pc, faults, shared>>

WorkerStep(w) == \/ Inspect(w) \/ ReadRows(w) \/ ReadCodes(w)
                 \/ Conclude(w) \/ Act(w) \/ CommitRelease(w)

-----------------------------------------------------------------------------
Next ==
  \/ \E o \in Ops : \/ RequestStep(o) \/ Crash(o)
                    \/ Mine(o) \/ Replace(o) \/ Age(o)
  \/ \E c \in Codes : Activate(c)
  \/ \E w \in Workers :
       \/ WorkerStep(w) \/ Abandon(w)
       \/ \E o \in Ops : \/ CheckRelease(w, o)
                         \/ \E dry \in BOOLEAN : Select(w, o, dry)

Spec == Init /\ [][Next]_vars

\* listNeedsAction: failures at once, the others after 15 minutes.
NeedsAction(o) ==
  \/ status[o] \in {"DB_FAILED", "MANUAL_REVIEW"}
  \/ status[o] \in {"SUBMITTED", "PREPARED"} /\ aged[o]

\* A running request and a running worker go on, blocks are mined, time
\* passes, and administrators keep executing recovery on what is listed.
Fairness ==
  /\ \A o \in Ops : /\ WF_vars(RequestStep(o))
                    /\ WF_vars(Mine(o))
                    /\ WF_vars(Age(o))
                    /\ SF_vars(NeedsAction(o) /\ \E w \in Workers :
                                                   Select(w, o, FALSE))
  /\ \A w \in Workers : WF_vars(WorkerStep(w))

FairSpec == Spec /\ Fairness

-----------------------------------------------------------------------------
(* Properties that hold whatever administrators do.                        *)

\* The ledger never runs ahead of the chain: a Transaction row exists only
\* for a reserved code of a transfer that succeeded on chain.
LedgerBacked ==
  \A o \in Ops, c \in Codes :
    rows[o][c] > 0 => chain[o] = "success" /\ c \in reserved[o]

\* A code that left the merchant is in the ledger of exactly one operation,
\* and its owner is that operation's customer: nobody's code is handed to a
\* second receiver, in whatever order requests and recoveries write.
OneReceiverPerCode ==
  \A c \in Codes : owner[c] # Merchant =>
    \E o \in Ops : /\ rows[o][c] > 0
                   /\ owner[c] = receiver[o]
                   /\ \A p \in Ops \ {o} : rows[p][c] = 0

\* A transfer of several codes is delivered whole or not at all.
WholeDelivery ==
  \A o \in Ops : \A c, d \in reserved[o] :
    rows[o][c] = rows[o][d] /\ (rows[o][c] > 0 => Delivered(o, d))

\* An operation marked CONFIRMED, or reported as done to the caller, has all
\* its codes with the customer and in the ledger.
ConfirmedIsDelivered ==
  \A o \in Ops : status[o] = "CONFIRMED" \/ pc[o] = "done" =>
    \A c \in reserved[o] : rows[o][c] > 0 /\ Delivered(o, c)

\* What was delivered stays delivered: no late status write, release or
\* second recovery takes the code back, frees its claim or drops a row.
DeliveredIsFinal ==
  [][\A o \in Ops, c \in Codes : rows[o][c] > 0 =>
       /\ rows'[o][c] >= rows[o][c]
       /\ owner'[c] = owner[c] /\ claim'[c] = o
       /\ status'[o] # "CHAIN_FAILED"]_vars

\* Tokens that left, or may leave, the merchant's wallet are matched by codes
\* still held by their operation, so the pool never offers a code whose token
\* is gone: only a release that came before the request had ended, or after
\* it had sent something, can break this.
SentCodesHeld ==
  \A o \in Ops \ hasty : chain[o] \in {"pending", "success"} =>
    \A c \in reserved[o] : claim[c] = o

\* A code is in an operation's ledger twice only if a worker took the
\* operation up while somebody else was at it: no sequence of crashes,
\* retries and runs that follow each other writes a ledger again.
NoDuplicateRows ==
  \A o \in Ops \ shared, c \in Codes : rows[o][c] <= 1

\* What the plan of the pool asks for: a code reserved for the marketplace
\* is not taken by a direct transfer.  It fails: an activation may list a
\* code that is claimed, and the ledger looks at the claim only.
ListedUntouched ==
  [][\A c \in Codes : listed[c] => listed'[c] /\ owner'[c] = owner[c]]_vars

\* A transfer confirmed on chain whose hash was recorded ends up in the
\* ledger, whatever crashed or failed on the way, unless its codes were given
\* back too early or two worked on it at once.
ConfirmedEventuallyDelivered ==
  \A o \in Ops :
    chain[o] = "success" /\ hash[o]
      ~> status[o] = "CONFIRMED" \/ o \in hasty \cup shared

-----------------------------------------------------------------------------
(* A direct transfer implements VoucherDelivery: coupons settle when the   *)
(* chain reports success, codes are delivered when the ledger has them.    *)

Delivery == INSTANCE VoucherDelivery WITH
  settled   <- {o \in Ops : chain[o] = "success"},
  delivered <- [o \in Ops |-> {c \in Codes : rows[o][c] > 0}]

\* Every interleaving of requests, crashes and recoveries looks like coupons
\* that settle once and codes that follow them once, whole, to one customer.
ImplementsDelivery == Delivery!DSpec

-----------------------------------------------------------------------------
(* The inductive invariant behind these properties.                        *)

\* An operation row exists from the moment its codes are reserved.
RowInv ==
  \A o \in Ops :
    /\ status[o] = None => /\ reserved[o] = {} /\ chain[o] = "none"
                           /\ pc[o] \in {"idle", "failed"} /\ ~hash[o]
    /\ status[o] # None => /\ reserved[o] # {} /\ receiver[o] \in Customers
                           /\ pc[o] # "idle"

\* Where the request stands says what the chain has done.
ChainInv ==
  \A o \in Ops :
    /\ pc[o] \in {"idle", "submit"} => chain[o] = "none"
    /\ pc[o] \in {"ledger", "dbFailed"} => chain[o] = "success"
    /\ pc[o] = "release" => chain[o] = "reverted"
    /\ pc[o] \in {"mark", "wait", "reviewSent"} => chain[o] # "none"
    /\ hash[o] => chain[o] # "none"

\* A claim is one of the operation's reservations; a failed operation has
\* given up all of them.
ClaimInv ==
  \A o \in Ops, c \in Codes : claim[c] = o =>
    c \in reserved[o] /\ status[o] # "CHAIN_FAILED"

\* A ledger row needs the chain's consent and keeps code, claim and owner.
LedgerInv ==
  \A o \in Ops, c \in Codes : rows[o][c] > 0 =>
    c \in reserved[o] /\ chain[o] = "success" /\ Delivered(o, c)

OwnerInv ==
  \A c \in Codes : owner[c] # Merchant => \E o \in Ops : rows[o][c] > 0

UniformInv ==
  \A o \in Ops : \A c, d \in reserved[o] : rows[o][c] = rows[o][d]

Recorded(o) == \A c \in reserved[o] : rows[o][c] > 0

ConfirmedInv ==
  \A o \in Ops : status[o] = "CONFIRMED" \/ pc[o] = "done" => Recorded(o)

\* What a worker learned stays true: fates of the chain are final and
\* ledger rows are never removed.
Knows(r) ==
  r.at # "idle" =>
    /\ status[r.op] # None
    /\ r.at = "read" => Uncertain(r) \/ chain[r.op] = "success"
    /\ r.rows = "exact" => Recorded(r.op)
    /\ r.at = "act" =>
         /\ r.advice = "FINALIZE_DB" => chain[r.op] = "success"
         /\ r.advice = "RELEASE_CLAIM" => chain[r.op] = "reverted"
         /\ r.advice = "MARK_CONFIRMED_ONLY" =>
              Recorded(r.op) /\ chain[r.op] = "success"

WorkerInv == \A w \in Workers : Knows(worker[w])

IInv == /\ TypeOK /\ RowInv /\ ChainInv /\ ClaimInv /\ LedgerInv
        /\ OwnerInv /\ UniformInv /\ ConfirmedInv /\ WorkerInv

\* Codes are held while their token may be under way or may yet be sent.
SentInv ==
  \A o \in Ops \ hasty :
    (\/ chain[o] \in {"pending", "success"}
     \/ chain[o] = "none" /\ pc[o] \in Running)
    => \A c \in reserved[o] : claim[c] = o

\* An operation that is not shared has one actor at a time, so an empty
\* ledger it read is still empty when it writes.
QuietInv ==
  /\ \A w \in Workers, o \in Ops \ shared : Busy(w, o) =>
       pc[o] \in Ended /\ \A v \in Workers : Busy(v, o) => v = w
  /\ \A o \in Ops \ shared : pc[o] \notin Ended \cup {"dbFailed"} =>
       \A c \in Codes : rows[o][c] = 0
  /\ \A w \in Workers :
       worker[w].at # "idle" /\ worker[w].op \notin shared
         /\ worker[w].rows = "none"
         => \A c \in Codes : rows[worker[w].op][c] = 0
  /\ \A w \in Workers :
       worker[w].at = "act" /\ worker[w].advice = "FINALIZE_DB"
         => worker[w].rows = "none"
  /\ NoDuplicateRows
=============================================================================
