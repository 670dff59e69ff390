------------------------ MODULE DirectTransferProofs ------------------------
(***************************************************************************)
(* Proofs about DirectTransfer for any number of codes, requests and       *)
(* workers.  IInv is inductive: the steps are grouped by what they write.  *)
(* Section 1 shows that each table write keeps DataInv, the part of IInv   *)
(* about the tables; section 2 adds the program counters and the workers;  *)
(* sections 3 and 4 have the invariants and the action properties, section *)
(* 5 the refinement of VoucherDelivery, section 6 what careless            *)
(* administrators alone can break.                                         *)
(***************************************************************************)
EXTENDS DirectTransfer, TLAPS, FiniteSetTheorems

TablesOK ==
  /\ owner \in [Codes -> Customers \cup {Merchant}]
  /\ listed \in [Codes -> BOOLEAN]
  /\ claim \in [Codes -> Ops \cup {None}]
  /\ status \in [Ops -> Statuses \cup {None}]
  /\ hash \in [Ops -> BOOLEAN]
  /\ reserved \in [Ops -> SUBSET Codes]
  /\ receiver \in [Ops -> Customers \cup {None}]
  /\ rows \in [Ops -> [Codes -> Nat]]

DataInv ==
  /\ TablesOK /\ ClaimInv /\ LedgerInv /\ OwnerInv /\ UniformInv
  /\ \A o \in Ops : status[o] = "CONFIRMED" => Recorded(o)

\* Rows of the operation table, once there, stay; so does a full ledger.
Kept ==
  \A o \in Ops : status[o] # None =>
    /\ status'[o] # None
    /\ reserved'[o] = reserved[o] /\ receiver'[o] = receiver[o]
    /\ hash[o] => hash'[o]
    /\ Recorded(o) => Recorded(o)'

\* The chain forgets no transfer and changes no verdict.
Sticky ==
  \A o \in Ops : /\ chain[o] # "none" => chain'[o] # "none"
                 /\ chain[o] \in {"success", "reverted"} => chain'[o] = chain[o]

ControlOK ==
  /\ aged \in [Ops -> BOOLEAN]
  /\ chain \in [Ops -> Fates]
  /\ pc \in [Ops -> {"idle"} \cup Running \cup Ended]
  /\ worker \in [Workers -> WorkerState]
  /\ faults \in Nat
  /\ hasty \subseteq Ops /\ shared \subseteq Ops

\* The next state satisfies IInv if each of its parts holds there.
LEMMA Assemble ==
  ASSUME DataInv', ControlOK', RowInv', ChainInv', WorkerInv',
         \A o \in Ops : pc'[o] = "done" => Recorded(o)'
  PROVE  IInv'
  BY DEF DataInv, TablesOK, ControlOK, IInv, TypeOK, ConfirmedInv

\* IInv split into the part about the tables and the parts about control.
LEMMA Parts ==
  ASSUME IInv
  PROVE  /\ DataInv /\ ControlOK /\ RowInv /\ ChainInv /\ WorkerInv
         /\ \A o \in Ops : pc[o] = "done" => Recorded(o)
  BY DEF DataInv, TablesOK, ControlOK, IInv, TypeOK, ConfirmedInv

-----------------------------------------------------------------------------
(* 1. The writes.                                                          *)

\* A step that writes no table keeps the tables sound while the chain moves.
LEMMA NoWriteData ==
  ASSUME DataInv, NoWrite, Sticky
  PROVE  DataInv' /\ Kept
  <1>. USE DEF NoWrite, tables
  <1>1. Kept
    BY DEF Kept, Recorded
  <1>2. TablesOK' /\ ClaimInv' /\ OwnerInv' /\ UniformInv'
    BY DEF DataInv, TablesOK, ClaimInv, OwnerInv, UniformInv
  <1>3. LedgerInv'
    BY DEF DataInv, LedgerInv, Sticky, Delivered
  <1>4. \A o \in Ops : status'[o] = "CONFIRMED" => Recorded(o)'
    BY DEF DataInv, Recorded
  <1>. QED
    BY <1>1, <1>2, <1>3, <1>4 DEF DataInv

\* Statuses other than CONFIRMED and CHAIN_FAILED promise nothing.
LEMMA SetStatusData ==
  ASSUME DataInv, NEW o \in Ops, NEW s \in Statuses \ Final, status[o] # None,
         SetStatus(o, s), chain' = chain
  PROVE  DataInv' /\ Kept
  <1>. USE DEF SetStatus
  <1>1. Kept
    BY NoneIsNull DEF DataInv, TablesOK, Kept, Recorded
  <1>2. TablesOK'
    BY DEF DataInv, TablesOK
  <1>3. ClaimInv'
    BY DEF DataInv, TablesOK, ClaimInv, Final
  <1>4. LedgerInv' /\ OwnerInv' /\ UniformInv'
    BY DEF DataInv, LedgerInv, OwnerInv, UniformInv, Delivered
  <1>5. \A p \in Ops : status'[p] = "CONFIRMED" => Recorded(p)'
    BY DEF DataInv, TablesOK, Recorded, Final
  <1>. QED
    BY <1>1, <1>2, <1>3, <1>4, <1>5 DEF DataInv

\* Recording the submission keeps the tables sound.
LEMMA MarkSubmittedData ==
  ASSUME DataInv, NEW o \in Ops, status[o] # None,
         MarkSubmitted(o), chain' = chain
  PROVE  DataInv' /\ Kept
  <1>. USE DEF MarkSubmitted
  <1>1. Kept
    BY NoneIsNull DEF DataInv, TablesOK, Kept, Recorded, Statuses
  <1>2. TablesOK'
    BY DEF DataInv, TablesOK, Statuses
  <1>3. ClaimInv'
    BY DEF DataInv, TablesOK, ClaimInv
  <1>4. LedgerInv' /\ OwnerInv' /\ UniformInv'
    BY DEF DataInv, LedgerInv, OwnerInv, UniformInv, Delivered
  <1>5. \A p \in Ops : status'[p] = "CONFIRMED" => Recorded(p)'
    BY DEF DataInv, TablesOK, Recorded
  <1>. QED
    BY <1>1, <1>2, <1>3, <1>4, <1>5 DEF DataInv

\* An operation with a full ledger may be marked CONFIRMED.
LEMMA MarkConfirmedData ==
  ASSUME DataInv, NEW o \in Ops, status[o] # None, Recorded(o),
         reserved[o] # {}, MarkConfirmed(o), chain' = chain
  PROVE  DataInv' /\ Kept
  <1>. USE DEF MarkConfirmed
  <1>1. Kept
    BY NoneIsNull DEF DataInv, TablesOK, Kept, Recorded, Statuses
  <1>2. TablesOK'
    BY DEF DataInv, TablesOK, Statuses
  <1>3. ClaimInv'
    BY DEF DataInv, TablesOK, ClaimInv
  <1>4. LedgerInv' /\ OwnerInv' /\ UniformInv'
    BY DEF DataInv, LedgerInv, OwnerInv, UniformInv, Delivered
  <1>5. \A p \in Ops : status'[p] = "CONFIRMED" => Recorded(p)'
    BY DEF DataInv, TablesOK, Recorded
  <1>. QED
    BY <1>1, <1>2, <1>3, <1>4, <1>5 DEF DataInv

\* Claims are given back only by an operation that delivered nothing.
LEMMA ReleaseClaimsData ==
  ASSUME DataInv, NEW o \in Ops, status[o] # None,
         \A c \in Codes : rows[o][c] = 0, reserved[o] # {},
         ReleaseClaims(o), chain' = chain
  PROVE  DataInv' /\ Kept
  <1>. USE DEF ReleaseClaims
  <1>1. Kept
    BY NoneIsNull DEF DataInv, TablesOK, Kept, Recorded, Statuses
  <1>2. TablesOK'
    BY DEF DataInv, TablesOK, Statuses
  <1>3. ClaimInv'
    BY NoneIsNull DEF DataInv, TablesOK, ClaimInv
  <1>4. LedgerInv' /\ OwnerInv' /\ UniformInv'
    BY DEF DataInv, TablesOK, LedgerInv, OwnerInv, UniformInv, Delivered
  <1>5. \A p \in Ops : status'[p] = "CONFIRMED" => Recorded(p)'
    BY DEF DataInv, TablesOK, Recorded
  <1>. QED
    BY <1>1, <1>2, <1>3, <1>4, <1>5 DEF DataInv

\* A reservation takes only codes nobody claims.
LEMMA ClaimCodesData ==
  ASSUME DataInv, RowInv, NEW o \in Ops, NEW k \in Customers,
         NEW S \in SUBSET WalletPool, status[o] = None,
         ClaimCodes(o, k, S), chain' = chain
  PROVE  DataInv' /\ Kept
  <1>. USE DEF ClaimCodes
  <1>0. S \subseteq Codes /\ \A c \in S : claim[c] = None
    BY DEF WalletPool
  <1>1. Kept
    BY NoneIsNull DEF DataInv, TablesOK, Kept, Recorded, Statuses
  <1>2. TablesOK'
    BY <1>0 DEF DataInv, TablesOK, Statuses
  <1>3. \A c \in Codes : claim[c] # o
    BY DEF DataInv, ClaimInv, RowInv
  <1>4. ClaimInv'
    BY <1>0, <1>3, NoneIsNull DEF DataInv, TablesOK, ClaimInv
  <1>5. \A c \in Codes : rows[o][c] = 0
    BY DEF DataInv, TablesOK, LedgerInv, RowInv
  <1>6. LedgerInv' /\ UniformInv'
    BY <1>0, <1>5, NoneIsNull
       DEF DataInv, TablesOK, LedgerInv, UniformInv, Delivered
  <1>7. OwnerInv'
    BY DEF DataInv, OwnerInv
  <1>8. \A p \in Ops : status'[p] = "CONFIRMED" => Recorded(p)'
    BY DEF DataInv, TablesOK, Recorded
  <1>. QED
    BY <1>1, <1>2, <1>4, <1>6, <1>7, <1>8 DEF DataInv

\* The ledger of a settled transfer, for the first time or once more.
LEMMA WriteLedgerData ==
  ASSUME DataInv, RowInv, NEW o \in Ops, status[o] # None,
         chain[o] = "success", WriteLedger(o), chain' = chain
  PROVE  DataInv' /\ Kept /\ Recorded(o)'
  <1>. USE DEF WriteLedger
  <1>0. reserved[o] \subseteq Codes /\ receiver[o] \in Customers
    BY DEF RowInv, DataInv, TablesOK
  <1>1. TablesOK'
    BY <1>0 DEF DataInv, TablesOK, Statuses
  <1>2. Recorded(o)'
    BY <1>0 DEF DataInv, TablesOK, Recorded
  <1>3. Kept
    BY <1>0, NoneIsNull DEF DataInv, TablesOK, Kept, Recorded, Statuses
  <1>4. ClaimInv'
    BY DEF DataInv, TablesOK, ClaimInv
  <1>5. LedgerInv'
    BY <1>0 DEF DataInv, TablesOK, LedgerInv, LedgerWritable, Delivered
  <1>6. OwnerInv'
    <2>. SUFFICES ASSUME NEW c \in Codes, owner'[c] # Merchant
                  PROVE  \E p \in Ops : rows'[p][c] > 0
      BY DEF OwnerInv
    <2>1. CASE c \in reserved[o]
      BY <2>1, <1>2 DEF Recorded
    <2>2. CASE c \notin reserved[o]
      BY <2>2 DEF DataInv, TablesOK, OwnerInv
    <2>. QED
      BY <2>1, <2>2
  <1>7. UniformInv'
    BY <1>0 DEF DataInv, TablesOK, UniformInv
  <1>8. \A p \in Ops : status'[p] = "CONFIRMED" => Recorded(p)'
    BY <1>2, <1>3, NoneIsNull DEF DataInv, TablesOK, Kept, Statuses
  <1>. QED
    BY <1>1, <1>2, <1>3, <1>4, <1>5, <1>6, <1>7, <1>8 DEF DataInv

\* Without success on chain the ledger of an operation is empty.
LEMMA NothingYet ==
  ASSUME DataInv, NEW o \in Ops, chain[o] # "success"
  PROVE  \A c \in Codes : rows[o][c] = 0
  BY DEF LedgerInv, DataInv, TablesOK

\* Codes that are all still the merchant's mean the same.
LEMMA NothingHandedOver ==
  ASSUME DataInv, NEW o \in Ops, receiver[o] \in Customers, StillReserved(o)
  PROVE  \A c \in Codes : rows[o][c] = 0
  <1>. SUFFICES ASSUME NEW c \in Codes, rows[o][c] > 0
                PROVE  FALSE
    BY DEF DataInv, TablesOK
  <1>1. c \in reserved[o] /\ owner[c] = receiver[o]
    BY DEF DataInv, LedgerInv, Delivered
  <1>. QED
    BY <1>1, OwnersDiffer DEF StillReserved

-----------------------------------------------------------------------------
(* 2. The steps.                                                           *)

\* Workers keep what they learned while others write.
LEMMA WorkersKept ==
  ASSUME DataInv, ControlOK, WorkerInv, Kept, Sticky,
         \A w \in Workers : worker'[w] \in {worker[w], Idle}
  PROVE  WorkerInv'
  BY DEF DataInv, ControlOK, WorkerState, Idle, WorkerInv, Knows, Kept, Sticky,
         Uncertain

\* A chain that does not move forgets nothing.
LEMMA StickyIfSame == chain' = chain => Sticky
  BY DEF Sticky

\* Steps of a request that write no table.
LEMMA RequestMoves ==
  ASSUME IInv, NEW o \in Ops,
         \/ PrepareInsufficient(o) \/ Submit(o) \/ SubmitError(o) \/ Wait(o)
         \/ Crash(o) \/ Mine(o) \/ Replace(o) \/ Age(o)
  PROVE  IInv'
  <1>. USE Parts DEF tables, history
  <1>1. UNCHANGED <<tables, worker, history>>
    BY DEF PrepareInsufficient, Submit, SubmitError, Wait, Crash, Mine,
           Replace, Age
  <1>2. \/ /\ aged' \in [Ops -> BOOLEAN]
           /\ UNCHANGED <<chain, pc, faults>>
        \/ /\ \/ pc[o] = "idle" /\ pc' = [pc EXCEPT ![o] = "failed"]
              \/ pc[o] \in Running /\ pc' = [pc EXCEPT ![o] = "failed"]
              \/ /\ pc[o] = "wait" /\ chain[o] = "success"
                 /\ pc' = [pc EXCEPT ![o] = "ledger"]
              \/ /\ pc[o] = "wait" /\ chain[o] = "reverted"
                 /\ pc' = [pc EXCEPT ![o] = "release"]
              \/ pc[o] = "wait" /\ pc' = [pc EXCEPT ![o] = "reviewSent"]
           /\ faults' \in {faults, faults + 1} /\ UNCHANGED <<aged, chain>>
        \/ /\ pc[o] = "submit"
           /\ \/ /\ chain' \in {chain, [chain EXCEPT ![o] = "pending"]}
                 /\ pc' = [pc EXCEPT ![o] = "review"]
              \/ /\ chain' = [chain EXCEPT ![o] = "pending"]
                 /\ pc' = [pc EXCEPT ![o] = "mark"]
           /\ faults' \in {faults, faults + 1} /\ UNCHANGED aged
        \/ /\ chain[o] = "pending"
           /\ \E fate \in {"success", "reverted", "dropped"} :
                chain' = [chain EXCEPT ![o] = fate]
           /\ UNCHANGED <<aged, pc, faults>>
    <2>1. CASE PrepareInsufficient(o)
      BY <2>1 DEF PrepareInsufficient, Goto
    <2>2. CASE Submit(o)
      BY <2>2 DEF Submit, Goto
    <2>3. CASE SubmitError(o)
      BY <2>3 DEF SubmitError, Goto
    <2>4. CASE Wait(o)
      BY <2>4 DEF Wait, Goto, Raise
    <2>5. CASE Crash(o)
      BY <2>5 DEF Crash, Goto
    <2>6. CASE Mine(o)
      BY <2>6 DEF Mine
    <2>7. CASE Replace(o)
      BY <2>7 DEF Replace
    <2>8. CASE Age(o)
      BY <2>8 DEF Age, ControlOK
    <2>. QED
      BY <2>1, <2>2, <2>3, <2>4, <2>5, <2>6, <2>7, <2>8
  <1>3. Sticky /\ ControlOK'
    BY <1>1, <1>2 DEF ControlOK, Fates, Running, Ended, Sticky, ChainInv
  <1>4. DataInv' /\ Kept
    BY <1>1, <1>3, NoWriteData DEF NoWrite
  <1>5. WorkerInv'
    BY <1>1, <1>3, <1>4, WorkersKept
  <1>6. RowInv' /\ ChainInv'
    BY <1>1, <1>2 DEF ControlOK, Running, RowInv, ChainInv
  <1>7. \A p \in Ops : pc'[p] = "done" => Recorded(p)'
    BY <1>1, <1>2 DEF Recorded, ControlOK
  <1>. QED
    BY <1>3, <1>4, <1>5, <1>6, <1>7, Assemble

\* Reserving codes keeps IInv, whether the caller learns of it or not.
LEMMA PrepareInv ==
  ASSUME IInv, NEW o \in Ops, Prepare(o)
  PROVE  IInv'
  <1>. USE Parts
  <1>0. PICK k \in Customers, S \in SUBSET WalletPool :
          /\ Cardinality(S) \in 1 .. MaxQuantity
          /\ \/ ClaimCodes(o, k, S) /\ Goto(o, "submit") /\ UNCHANGED faults
             \/ Raise(ClaimCodes(o, k, S)) /\ Goto(o, "failed")
    BY DEF Prepare
  <1>1. S # {}
    BY <1>0, FS_EmptySet, Bounds
  <1>2. status[o] = None /\ chain[o] = "none" /\ ~hash[o]
    BY DEF Prepare, RowInv, ChainInv, ControlOK
  <1>3. UNCHANGED <<aged, chain, worker, history>> /\ Sticky
    BY StickyIfSame DEF Prepare
  <1>4. \/ ClaimCodes(o, k, S) /\ pc' = [pc EXCEPT ![o] = "submit"]
        \/ ClaimCodes(o, k, S) /\ pc' = [pc EXCEPT ![o] = "failed"]
        \/ NoWrite /\ pc' = [pc EXCEPT ![o] = "failed"]
    BY <1>0 DEF Goto, Raise
  <1>5. ControlOK'
    <2>1. faults' \in Nat
      BY <1>0 DEF ControlOK, Raise
    <2>. QED
      BY <1>3, <1>4, <2>1 DEF ControlOK, Running, Ended, history
  <1>6. DataInv' /\ Kept
    BY <1>2, <1>3, <1>4, ClaimCodesData, NoWriteData
  <1>7. WorkerInv'
    BY <1>3, <1>6, WorkersKept
  <1>8. ChainInv'
    BY <1>2, <1>3, <1>4
       DEF ClaimCodes, NoWrite, tables, ChainInv, ControlOK
  <1>9. RowInv'
    <2>1. CASE ClaimCodes(o, k, S)
      BY <1>1, <1>3, <1>4, <2>1, NoneIsNull
         DEF ClaimCodes, RowInv, ControlOK, DataInv, TablesOK, Statuses
    <2>2. CASE NoWrite /\ pc' = [pc EXCEPT ![o] = "failed"]
      BY <1>2, <1>3, <2>2 DEF NoWrite, tables, RowInv, ControlOK
    <2>. QED
      BY <1>4, <2>1, <2>2
  <1>10. \A p \in Ops : pc'[p] = "done" => Recorded(p)'
    BY <1>4, <1>6, <1>2 DEF ControlOK, Kept, RowInv, Recorded
  <1>. QED
    BY <1>5, <1>6, <1>7, <1>8, <1>9, <1>10, Assemble

\* IInv holds before the first request.
LEMMA InitInv == Init => IInv
  <1>. SUFFICES ASSUME Init
                PROVE  IInv
    OBVIOUS
  <1>1. TypeOK
    BY DEF Init, TypeOK, WorkerState, Idle, Fates
  <1>2. RowInv /\ ChainInv /\ ClaimInv /\ LedgerInv /\ OwnerInv /\ UniformInv
    BY NoneIsNull
       DEF Init, RowInv, ChainInv, ClaimInv, LedgerInv, OwnerInv, UniformInv
  <1>3. ConfirmedInv
    BY NoneIsNull DEF Init, ConfirmedInv, Statuses
  <1>4. WorkerInv
    BY DEF Init, WorkerInv, Knows, Idle
  <1>. QED
    BY <1>1, <1>2, <1>3, <1>4 DEF IInv

\* A request that leaves its row, its codes and the chain alone but for a
\* write that keeps DataInv: what is left to show is its program counter.
LEMMA RequestWrites ==
  ASSUME IInv, DataInv', Kept, NEW o \in Ops,
         NEW place \in {"wait", "done", "failed", "dbFailed", "reviewSent"},
         pc' = [pc EXCEPT ![o] = place],
         UNCHANGED <<aged, chain, worker, history>>, faults' \in Nat,
         pc[o] # "idle",
         place \in {"wait", "reviewSent"} => chain[o] # "none",
         place = "dbFailed" => chain[o] = "success",
         place = "done" => Recorded(o)',
         hash' \in {hash, [hash EXCEPT ![o] = TRUE]},
         hash' = hash \/ chain[o] # "none",
         UNCHANGED <<reserved, receiver>>, status[o] # None,
         \A p \in Ops \ {o} : status'[p] = status[p]
  PROVE  IInv'
  <1>. USE Parts
  <1>1. Sticky /\ ControlOK'
    BY StickyIfSame DEF ControlOK, Running, Ended, history
  <1>2. WorkerInv'
    BY <1>1, WorkersKept
  <1>3. ChainInv'
    BY DEF ChainInv, ControlOK, DataInv, TablesOK
  <1>4. RowInv'
    BY DEF RowInv, Kept, ControlOK, DataInv, TablesOK
  <1>5. \A p \in Ops : pc'[p] = "done" => Recorded(p)'
    BY DEF ControlOK, Kept, RowInv
  <1>. QED
    BY <1>1, <1>2, <1>3, <1>4, <1>5, Assemble

\* Recording the submission keeps IInv, also when it raises.
LEMMA MarkInv ==
  ASSUME IInv, NEW o \in Ops, Mark(o)
  PROVE  IInv'
  <1>. USE Parts
  <1>1. pc[o] = "mark" /\ status[o] # None /\ chain[o] # "none"
    BY DEF Mark, RowInv, ChainInv
  <1>2. UNCHANGED <<aged, chain, worker, history>> /\ Sticky
    BY StickyIfSame DEF Mark
  <1>3. faults' \in Nat
    BY DEF Mark, Raise, ControlOK
  <1>4. \/ MarkSubmitted(o) /\ pc' = [pc EXCEPT ![o] = "wait"]
        \/ MarkSubmitted(o) /\ pc' = [pc EXCEPT ![o] = "reviewSent"]
        \/ NoWrite /\ pc' = [pc EXCEPT ![o] = "reviewSent"]
    BY DEF Mark, Raise, Goto
  <1>5. DataInv' /\ Kept
    BY <1>1, <1>2, <1>4, MarkSubmittedData, NoWriteData
  <1>6. /\ hash' \in {hash, [hash EXCEPT ![o] = TRUE]}
        /\ UNCHANGED <<reserved, receiver>>
        /\ \A p \in Ops \ {o} : status'[p] = status[p]
    BY <1>4 DEF MarkSubmitted, NoWrite, tables, DataInv, TablesOK
  <1>. QED
    BY <1>1, <1>2, <1>3, <1>4, <1>5, <1>6, RequestWrites

\* Writing the ledger after the receipt keeps IInv, also when it raises.
LEMMA LedgerStepInv ==
  ASSUME IInv, NEW o \in Ops, Ledger(o)
  PROVE  IInv'
  <1>. USE Parts
  <1>1. pc[o] = "ledger" /\ status[o] # None /\ chain[o] = "success"
    BY DEF Ledger, RowInv, ChainInv
  <1>2. UNCHANGED <<aged, chain, worker, history>> /\ Sticky
    BY StickyIfSame DEF Ledger
  <1>3. faults' \in Nat
    BY DEF Ledger, Raise, ControlOK
  <1>4. \/ WriteLedger(o) /\ pc' = [pc EXCEPT ![o] = "done"]
        \/ WriteLedger(o) /\ pc' = [pc EXCEPT ![o] = "dbFailed"]
        \/ NoWrite /\ pc' = [pc EXCEPT ![o] = "dbFailed"]
    BY DEF Ledger, Raise, Goto, NoWrite
  <1>5. DataInv' /\ Kept /\ (WriteLedger(o) => Recorded(o)')
    BY <1>1, <1>2, <1>4, WriteLedgerData, NoWriteData
  <1>6. /\ hash' \in {hash, [hash EXCEPT ![o] = TRUE]}
        /\ UNCHANGED <<reserved, receiver>>
        /\ \A p \in Ops \ {o} : status'[p] = status[p]
    BY <1>4 DEF WriteLedger, NoWrite, tables, DataInv, TablesOK
  <1>7. CASE WriteLedger(o) /\ pc' = [pc EXCEPT ![o] = "done"]
    BY <1>1, <1>2, <1>3, <1>5, <1>6, <1>7, RequestWrites
  <1>8. CASE pc' = [pc EXCEPT ![o] = "dbFailed"]
    BY <1>1, <1>2, <1>3, <1>5, <1>6, <1>8, RequestWrites
  <1>. QED
    BY <1>4, <1>7, <1>8

\* The catch block keeps IInv: it frees codes only after a revert.
LEMMA CatchInv ==
  ASSUME IInv, NEW o \in Ops, Catch(o)
  PROVE  IInv'
  <1>. USE Parts
  <1>1. /\ pc[o] \in {"release", "dbFailed", "review", "reviewSent"}
        /\ status[o] # None /\ reserved[o] # {}
        /\ pc[o] = "release" => chain[o] = "reverted"
    BY DEF Catch, RowInv, ChainInv
  <1>2. UNCHANGED <<aged, chain, worker, history>> /\ Sticky
    BY StickyIfSame DEF Catch
  <1>3. faults' \in Nat
    BY DEF Catch, Raise, ControlOK
  <1>4. pc' = [pc EXCEPT ![o] = "failed"]
    BY DEF Catch, Goto
  <1>5. \/ pc[o] = "release" /\ ReleaseClaims(o)
        \/ SetStatus(o, "DB_FAILED")
        \/ SetStatus(o, "MANUAL_REVIEW")
        \/ NoWrite
    BY DEF Catch, Raise, RecordFailure
  <1>6. pc[o] = "release" => \A c \in Codes : rows[o][c] = 0
    BY <1>1, NothingYet
  <1>7. {"DB_FAILED", "MANUAL_REVIEW"} \subseteq Statuses \ Final
    BY DEF Statuses, Final
  <1>8. DataInv' /\ Kept
    BY <1>1, <1>2, <1>5, <1>6, <1>7, ReleaseClaimsData, SetStatusData,
       NoWriteData
  <1>9. /\ UNCHANGED <<hash, reserved, receiver>>
        /\ \A p \in Ops \ {o} : status'[p] = status[p]
    BY <1>5 DEF ReleaseClaims, SetStatus, NoWrite, tables, DataInv, TablesOK
  <1>. QED
    BY <1>1, <1>2, <1>3, <1>4, <1>8, <1>9, RequestWrites

\* A worker's step: a write that keeps DataInv, or none, and its next state.
LEMMA WorkerWrites ==
  ASSUME IInv, DataInv', Kept, NEW w \in Workers, NEW r \in WorkerState,
         worker' = [worker EXCEPT ![w] = r], Knows(r)',
         UNCHANGED <<aged, chain, pc, reserved, receiver>>, faults' \in Nat,
         hasty' \subseteq Ops, shared' \subseteq Ops,
         \A p \in Ops : hash'[p] => hash[p] \/ chain[p] # "none",
         \A p \in Ops : status[p] = None => status'[p] = None
  PROVE  IInv'
  <1>. USE Parts
  <1>1. Sticky /\ ControlOK'
    BY StickyIfSame DEF ControlOK
  <1>2. WorkerInv'
    <2>. SUFFICES ASSUME NEW v \in Workers, v # w
                  PROVE  Knows(worker[v])'
      BY DEF WorkerInv, ControlOK
    <2>1. worker'[v] = worker[v] /\ Knows(worker[v]) /\ worker[v] \in WorkerState
      BY DEF WorkerInv, ControlOK
    <2>. QED
      BY <1>1, <2>1 DEF WorkerState, Idle, Knows, Uncertain, Kept, Sticky
  <1>3. ChainInv'
    BY DEF ChainInv
  <1>4. RowInv'
    BY DEF RowInv, Kept, DataInv, TablesOK
  <1>5. \A p \in Ops : pc'[p] = "done" => Recorded(p)'
    BY DEF Kept, RowInv
  <1>. QED
    BY <1>1, <1>2, <1>3, <1>4, <1>5, Assemble

\* The steps of a worker that only read.
LEMMA WorkerLearns ==
  ASSUME IInv, NEW w \in Workers, NEW r \in WorkerState, Become(w, r),
         Knows(r), UNCHANGED <<tables, aged, chain, pc>>, faults' \in Nat,
         hasty' \subseteq Ops, shared' \subseteq Ops
  PROVE  IInv'
  <1>. USE Parts
  <1>1. Sticky
    BY StickyIfSame
  <1>2. DataInv' /\ Kept
    BY <1>1, NoWriteData DEF NoWrite
  <1>3. Knows(r)'
    BY DEF Knows, Uncertain, Recorded, tables
  <1>4. UNCHANGED <<hash, status, reserved, receiver>>
    BY DEF tables
  <1>. QED
    BY <1>2, <1>3, <1>4, WorkerWrites DEF Become

\* Starting a recovery or a release keeps IInv.
LEMMA SelectInv ==
  ASSUME IInv, NEW w \in Workers, NEW o \in Ops, NEW dry \in BOOLEAN,
         Select(w, o, dry) \/ CheckRelease(w, o)
  PROVE  IInv'
  <1>. USE Parts
  <1>1. PICK place \in {"inspect", "release"}, d \in BOOLEAN :
          Become(w, Snapshot(o, place, d))
    BY DEF Select, CheckRelease
  <1>2. status[o] # None /\ UNCHANGED <<tables, aged, chain, pc, faults>>
    BY DEF Select, CheckRelease, TakeUp
  <1>3. Snapshot(o, place, d) \in WorkerState
    BY <1>2 DEF Snapshot, WorkerState, Acting, Advice, DataInv, TablesOK
  <1>4. Knows(Snapshot(o, place, d))
    BY <1>2 DEF Snapshot, Knows
  <1>5. faults' \in Nat /\ hasty' \subseteq Ops /\ shared' \subseteq Ops
    BY <1>2 DEF ControlOK, Select, CheckRelease, TakeUp
  <1>. QED
    BY <1>1, <1>2, <1>3, <1>4, <1>5, WorkerLearns

\* The state of a worker that has been given its advice.
Advised(r, a) ==
  [at |-> "act", op |-> r.op, dry |-> r.dry, seen |-> r.seen, hash |-> r.hash,
   rows |-> r.rows, codes |-> r.codes, advice |-> a]

\* Advice changes where the worker stands and what it will do.
LEMMA AdvisedState ==
  ASSUME NEW w \in Workers, NEW a \in Advice, Advise(w, a),
         worker[w] \in WorkerState, worker[w].at # "idle"
  PROVE  Advised(worker[w], a) \in WorkerState /\ Become(w, Advised(worker[w], a))
  <1>. DEFINE r == worker[w]
              m == [r EXCEPT !.at = "act"]
  <1>1. r \in WorkerState /\ r.at # "idle"
    OBVIOUS
  <1>2. m \in WorkerState /\ m # Idle
    BY <1>1 DEF WorkerState, Idle, Acting
  <1>3. /\ m.at = "act" /\ m.op = r.op /\ m.dry = r.dry /\ m.seen = r.seen
        /\ m.hash = r.hash /\ m.rows = r.rows /\ m.codes = r.codes
    BY <1>1 DEF WorkerState, Idle
  <1>4. [m EXCEPT !.advice = a] = Advised(r, a)
    <2>. HIDE DEF m
    <2>. QED
      BY <1>2, <1>3 DEF WorkerState, Idle, Advised
  <1>5. Advised(r, a) \in WorkerState
    BY <1>1 DEF WorkerState, Idle, Acting, Advised
  <1>. QED
    BY <1>4, <1>5 DEF Advise

\* An advised worker is well-typed and knows what the advice rests on.
LEMMA AdviseInv ==
  ASSUME IInv, NEW w \in Workers, NEW a \in Advice, Advise(w, a),
         worker[w].at # "idle",
         a \in {"FINALIZE_DB", "MARK_CONFIRMED_ONLY"} =>
           chain[worker[w].op] = "success",
         a = "RELEASE_CLAIM" => chain[worker[w].op] = "reverted",
         a = "MARK_CONFIRMED_ONLY" => worker[w].rows = "exact",
         UNCHANGED <<tables, aged, chain, pc, faults, history>>
  PROVE  IInv'
  <1>. DEFINE r == worker[w]
              q == Advised(r, a)
  <1>1. r \in WorkerState /\ r.at # "idle" /\ Knows(r)
    BY Parts DEF ControlOK, WorkerInv
  <1>2. q \in WorkerState /\ Become(w, q)
    BY <1>1, AdvisedState
  <1>3. Knows(q)
    BY <1>1 DEF WorkerState, Idle, Knows, Advised
  <1>4. faults' \in Nat /\ hasty' \subseteq Ops /\ shared' \subseteq Ops
    BY Parts DEF ControlOK, history
  <1>. HIDE DEF q
  <1>. QED
    BY <1>2, <1>3, <1>4, WorkerLearns

\* Looking at status and receipt keeps IInv.
LEMMA InspectInv ==
  ASSUME IInv, NEW w \in Workers, Inspect(w)
  PROVE  IInv'
  <1>. USE Parts
  <1>. DEFINE r == worker[w]
  <1>1. r \in WorkerState /\ r.at = "inspect" /\ Knows(r)
    BY DEF Inspect, ControlOK, WorkerInv
  <1>2. /\ UNCHANGED <<tables, aged, chain, pc, faults, history>>
        /\ faults' \in Nat /\ hasty' \subseteq Ops /\ shared' \subseteq Ops
    BY DEF Inspect, ControlOK, history
  <1>3. \/ \E a \in {"NO_ACTION", "MANUAL_REVIEW", "WAIT", "RELEASE_CLAIM"} :
             /\ Advise(w, a)
             /\ a = "RELEASE_CLAIM" => chain[r.op] = "reverted"
        \/ /\ Become(w, [r EXCEPT !.at = "read"])
           /\ Uncertain(r) \/ chain[r.op] = "success"
    BY DEF Inspect
  <1>4. CASE Become(w, [r EXCEPT !.at = "read"]) /\ (Uncertain(r) \/ chain[r.op] = "success")
    <2>1. [r EXCEPT !.at = "read"] \in WorkerState
      BY <1>1 DEF WorkerState, Idle, Acting
    <2>2. Knows([r EXCEPT !.at = "read"])
      BY <1>1, <1>4 DEF WorkerState, Idle, Knows, Uncertain
    <2>. QED
      BY <1>2, <1>4, <2>1, <2>2, WorkerLearns
  <1>5. CASE \E a \in {"NO_ACTION", "MANUAL_REVIEW", "WAIT", "RELEASE_CLAIM"} :
               Advise(w, a) /\ (a = "RELEASE_CLAIM" => chain[r.op] = "reverted")
    BY <1>1, <1>2, <1>5, AdviseInv DEF Advice
  <1>. QED
    BY <1>3, <1>4, <1>5

\* Reading the ledger or the codes keeps IInv.
LEMMA ReadInv ==
  ASSUME IInv, NEW w \in Workers, ReadRows(w) \/ ReadCodes(w)
  PROVE  IInv'
  <1>. USE Parts
  <1>. DEFINE r == worker[w]
  <1>1. r \in WorkerState /\ r.at = "read" /\ Knows(r)
    BY DEF ReadRows, ReadCodes, ControlOK, WorkerInv
  <1>2. /\ UNCHANGED <<tables, aged, chain, pc, faults, history>>
        /\ faults' \in Nat /\ hasty' \subseteq Ops /\ shared' \subseteq Ops
    BY DEF ReadRows, ReadCodes, ControlOK, history
  <1>3. r.op \in Ops /\ reserved[r.op] \subseteq Codes
    BY <1>1 DEF WorkerState, Idle, DataInv, TablesOK
  <1>4. CASE ReadRows(w)
    <2>. DEFINE q == [r EXCEPT !.rows = RowsSeen(r.op)]
    <2>1. RowsSeen(r.op) \in {"none", "exact", "other"}
      BY DEF RowsSeen
    <2>2. RowsSeen(r.op) = "exact" => Recorded(r.op)
      BY <1>3 DEF RowsSeen, Recorded
    <2>3. q \in WorkerState
      BY <1>1, <2>1 DEF WorkerState, Idle
    <2>4. Knows(q)
      BY <1>1, <2>2 DEF WorkerState, Idle, Knows, Uncertain
    <2>5. Become(w, q)
      BY <1>4 DEF ReadRows
    <2>. HIDE DEF q
    <2>. QED
      BY <1>2, <2>3, <2>4, <2>5, WorkerLearns
  <1>5. CASE ReadCodes(w)
    <2>. DEFINE q == [r EXCEPT !.codes = CodesSeen(r.op)]
    <2>1. CodesSeen(r.op) \in {"none", "all", "some"}
      BY DEF CodesSeen
    <2>2. q \in WorkerState
      BY <1>1, <2>1 DEF WorkerState, Idle
    <2>3. Knows(q)
      BY <1>1 DEF WorkerState, Idle, Knows, Uncertain
    <2>4. Become(w, q)
      BY <1>5 DEF ReadCodes
    <2>. HIDE DEF q
    <2>. QED
      BY <1>2, <2>2, <2>3, <2>4, WorkerLearns
  <1>. QED
    BY <1>4, <1>5

\* The advice of an inspection keeps IInv.
LEMMA ConcludeInv ==
  ASSUME IInv, NEW w \in Workers, Conclude(w)
  PROVE  IInv'
  <1>. USE Parts
  <1>. DEFINE r == worker[w]
  <1>1. r \in WorkerState /\ r.at = "read" /\ Knows(r)
    BY DEF Conclude, ControlOK, WorkerInv
  <1>2. UNCHANGED <<tables, aged, chain, pc, faults, history>>
    BY DEF Conclude
  <1>3. Uncertain(r) \/ chain[r.op] = "success"
    BY <1>1 DEF Knows
  <1>4. \/ Advise(w, "MANUAL_REVIEW")
        \/ /\ Advise(w, "MARK_CONFIRMED_ONLY")
           /\ r.rows = "exact" /\ chain[r.op] = "success"
        \/ Advise(w, "INVESTIGATE_SUBMISSION")
        \/ Advise(w, "FINALIZE_DB") /\ chain[r.op] = "success"
    BY <1>3 DEF Conclude, Complete
  <1>. QED
    BY <1>1, <1>2, <1>4, AdviseInv DEF Advice

\* Acting on possibly outdated advice keeps IInv: what it rests on is final.
LEMMA ActInv ==
  ASSUME IInv, NEW w \in Workers, Act(w)
  PROVE  IInv'
  <1>. USE Parts
  <1>. DEFINE o == worker[w].op
  <1>1. worker[w] \in WorkerState /\ worker[w].at = "act" /\ Knows(worker[w])
    BY DEF Act, ControlOK, WorkerInv
  <1>2. o \in Ops /\ status[o] # None /\ reserved[o] # {}
    BY <1>1 DEF WorkerState, Idle, Knows, RowInv
  <1>3. /\ UNCHANGED <<aged, chain, pc, faults>> /\ Sticky /\ faults' \in Nat
        /\ hasty' \subseteq Ops /\ shared' \subseteq Ops
    BY StickyIfSame DEF Act, ControlOK, history
  <1>4. \/ WriteLedger(o) /\ chain[o] = "success"
        \/ MarkConfirmed(o) /\ Recorded(o) /\ chain[o] = "success"
        \/ ReleaseClaims(o) /\ chain[o] = "reverted"
        \/ SetStatus(o, "MANUAL_REVIEW")
        \/ NoWrite
    BY <1>1 DEF Act, Knows
  <1>5. chain[o] = "reverted" => \A c \in Codes : rows[o][c] = 0
    BY <1>2, NothingYet
  <1>6. "MANUAL_REVIEW" \in Statuses \ Final
    BY DEF Statuses, Final
  <1>7. DataInv' /\ Kept
    BY <1>2, <1>3, <1>4, <1>5, <1>6, WriteLedgerData, MarkConfirmedData,
       ReleaseClaimsData, SetStatusData, NoWriteData
  <1>8. /\ UNCHANGED <<reserved, receiver>>
        /\ \A p \in Ops : hash'[p] => hash[p] \/ chain[p] # "none"
        /\ \A p \in Ops : status[p] = None => status'[p] = None
    BY <1>2, <1>4 DEF WriteLedger, MarkConfirmed, ReleaseClaims, SetStatus,
                      NoWrite, tables, DataInv, TablesOK
  <1>9. worker' = [worker EXCEPT ![w] = Idle] /\ Idle \in WorkerState
    BY DEF Act, Become, WorkerState
  <1>10. Knows(Idle)'
    BY DEF Knows, Idle
  <1>. QED
    BY <1>3, <1>7, <1>8, <1>9, <1>10, WorkerWrites

\* The guarded release keeps IInv: owners that are still the merchant
\* mean an empty ledger.
LEMMA CommitReleaseInv ==
  ASSUME IInv, NEW w \in Workers, CommitRelease(w)
  PROVE  IInv'
  <1>. USE Parts
  <1>. DEFINE o == worker[w].op
  <1>1. worker[w] \in WorkerState /\ worker[w].at = "release"
        /\ Knows(worker[w])
    BY DEF CommitRelease, ControlOK, WorkerInv
  <1>2. /\ o \in Ops /\ status[o] # None /\ reserved[o] # {}
        /\ receiver[o] \in Customers
    BY <1>1 DEF WorkerState, Idle, Knows, RowInv
  <1>3. UNCHANGED <<aged, chain, pc, faults>> /\ Sticky /\ faults' \in Nat
    BY StickyIfSame DEF CommitRelease, ControlOK
  <1>11. hasty' \subseteq Ops /\ shared' \subseteq Ops
    BY <1>2 DEF CommitRelease, ControlOK
  <1>4. (ReleaseClaims(o) /\ StillReserved(o)) \/ NoWrite
    BY DEF CommitRelease
  <1>5. StillReserved(o) => \A c \in Codes : rows[o][c] = 0
    BY <1>2, NothingHandedOver
  <1>6. DataInv' /\ Kept
    BY <1>2, <1>3, <1>4, <1>5, ReleaseClaimsData, NoWriteData
  <1>7. /\ UNCHANGED <<reserved, receiver, hash>>
        /\ \A p \in Ops : status[p] = None => status'[p] = None
    BY <1>2, <1>4 DEF ReleaseClaims, NoWrite, tables, DataInv, TablesOK
  <1>8. worker' = [worker EXCEPT ![w] = Idle] /\ Idle \in WorkerState
    BY DEF CommitRelease, Become, WorkerState
  <1>9. Knows(Idle)'
    BY DEF Knows, Idle
  <1>. QED
    BY <1>3, <1>6, <1>7, <1>8, <1>9, <1>11, WorkerWrites

\* A worker that stops keeps IInv.
LEMMA AbandonInv ==
  ASSUME IInv, NEW w \in Workers, Abandon(w)
  PROVE  IInv'
  <1>1. UNCHANGED <<tables, aged, chain, pc>> /\ Become(w, Idle)
    BY DEF Abandon
  <1>2. faults' \in Nat /\ hasty' \subseteq Ops /\ shared' \subseteq Ops
    BY Parts DEF Abandon, Raise, ControlOK, history
  <1>3. Idle \in WorkerState /\ Knows(Idle)
    BY DEF WorkerState, Knows, Idle
  <1>. QED
    BY <1>1, <1>2, <1>3, WorkerLearns

\* All tables but the marketplace column.
Unwritten ==
  UNCHANGED <<owner, claim, status, hash, reserved, receiver, rows>>

\* A listing changes a column no part of IInv but its type looks at.
LEMMA ActivateInv ==
  ASSUME IInv, NEW c \in Codes, Activate(c)
  PROVE  IInv'
  <1>. USE Parts
  <1>1. Unwritten /\ UNCHANGED <<aged, chain, pc, worker, faults, history>>
    BY DEF Activate, Unwritten
  <1>2. Sticky /\ ControlOK'
    BY <1>1, StickyIfSame DEF ControlOK, history
  <1>3. DataInv' /\ Kept
    BY <1>1 DEF Activate, Unwritten, DataInv, TablesOK, ClaimInv, LedgerInv,
           OwnerInv, UniformInv, Delivered, Recorded, Kept
  <1>4. WorkerInv'
    BY <1>1, <1>2, <1>3, WorkersKept
  <1>5. RowInv' /\ ChainInv'
    BY <1>1 DEF Unwritten, RowInv, ChainInv
  <1>6. \A p \in Ops : pc'[p] = "done" => Recorded(p)'
    BY <1>1 DEF Unwritten, Recorded
  <1>. QED
    BY <1>2, <1>3, <1>4, <1>5, <1>6, Assemble

\* IInv is inductive: one case per kind of step.
LEMMA NextInv == IInv /\ [Next]_vars => IInv'
  <1>. SUFFICES ASSUME IInv, [Next]_vars
                PROVE  IInv'
    OBVIOUS
  <1>1. ASSUME NEW o \in Ops, RequestStep(o)
        PROVE  IInv'
    BY <1>1, PrepareInv, RequestMoves, MarkInv, LedgerStepInv, CatchInv
       DEF RequestStep
  <1>2. ASSUME NEW o \in Ops, Crash(o) \/ Mine(o) \/ Replace(o) \/ Age(o)
        PROVE  IInv'
    BY <1>2, RequestMoves
  <1>3. ASSUME NEW w \in Workers, WorkerStep(w)
        PROVE  IInv'
    BY <1>3, InspectInv, ReadInv, ConcludeInv, ActInv, CommitReleaseInv
       DEF WorkerStep
  <1>4. ASSUME NEW w \in Workers, Abandon(w)
        PROVE  IInv'
    BY <1>4, AbandonInv
  <1>5. ASSUME NEW w \in Workers, NEW o \in Ops,
               CheckRelease(w, o) \/ \E dry \in BOOLEAN : Select(w, o, dry)
        PROVE  IInv'
    BY <1>5, SelectInv
  <1>7. ASSUME NEW c \in Codes, Activate(c)
        PROVE  IInv'
    BY <1>7, ActivateInv
  <1>6. CASE UNCHANGED vars
    BY <1>6 DEF vars, IInv, TypeOK, RowInv, ChainInv, ClaimInv, LedgerInv,
                OwnerInv, UniformInv, ConfirmedInv, Recorded, WorkerInv,
                Knows, Delivered, Uncertain
  <1>. QED
    BY <1>1, <1>2, <1>3, <1>4, <1>5, <1>6, <1>7 DEF Next

-----------------------------------------------------------------------------
(* 3. The theorems.                                                        *)

\* IInv holds in every reachable state of a direct transfer.
THEOREM Inductive == Spec => []IInv
  BY InitInv, NextInv, PTL DEF Spec

\* Every variable keeps its type.
THEOREM TypeCorrect == Spec => []TypeOK
  BY Inductive, PTL DEF IInv

\* The ledger never runs ahead of the chain.
THEOREM LedgerIsBacked == Spec => []LedgerBacked
  <1>1. IInv => LedgerBacked
    BY DEF IInv, LedgerInv, LedgerBacked
  <1>. QED
    BY <1>1, Inductive, PTL

\* No code reaches a second receiver: a code with two ledgers would be
\* claimed by two operations at once.
THEOREM NoSecondReceiver == Spec => []OneReceiverPerCode
  <1>1. ASSUME IInv
        PROVE  OneReceiverPerCode
    <2>. SUFFICES ASSUME NEW c \in Codes, owner[c] # Merchant
                  PROVE  \E o \in Ops : /\ rows[o][c] > 0
                                        /\ owner[c] = receiver[o]
                                        /\ \A p \in Ops \ {o} : rows[p][c] = 0
      BY DEF OneReceiverPerCode
    <2>1. PICK o \in Ops : rows[o][c] > 0
      BY <1>1 DEF IInv, OwnerInv
    <2>2. owner[c] = receiver[o] /\ claim[c] = o
      BY <1>1, <2>1 DEF IInv, LedgerInv, Delivered
    <2>3. \A p \in Ops \ {o} : rows[p][c] = 0
      BY <1>1, <2>2 DEF IInv, TypeOK, LedgerInv, Delivered
    <2>. QED
      BY <2>1, <2>2, <2>3
  <1>. QED
    BY <1>1, Inductive, PTL

\* A transfer is delivered whole or not at all.
THEOREM WholeOrNothing == Spec => []WholeDelivery
  <1>1. ASSUME IInv, NEW o \in Ops, NEW c \in reserved[o], NEW d \in reserved[o]
        PROVE  rows[o][c] = rows[o][d] /\ (rows[o][c] > 0 => Delivered(o, d))
    <2>1. c \in Codes /\ d \in Codes
      BY <1>1 DEF IInv, TypeOK
    <2>2. rows[o][c] = rows[o][d]
      BY <1>1 DEF IInv, UniformInv
    <2>. QED
      BY <1>1, <2>1, <2>2 DEF IInv, LedgerInv
  <1>2. IInv => WholeDelivery
    BY <1>1 DEF WholeDelivery
  <1>. QED
    BY <1>2, Inductive, PTL

\* CONFIRMED and a successful answer to the caller mean delivered.
THEOREM ConfirmedMeansDelivered == Spec => []ConfirmedIsDelivered
  <1>1. ASSUME IInv
        PROVE  ConfirmedIsDelivered
    <2>1. \A o \in Ops : reserved[o] \subseteq Codes
      BY <1>1 DEF IInv, TypeOK
    <2>. QED
      BY <1>1, <2>1
         DEF IInv, ConfirmedInv, Recorded, LedgerInv, ConfirmedIsDelivered
  <1>. QED
    BY <1>1, Inductive, PTL
-----------------------------------------------------------------------------
(* 4. What a step may write, and the action properties.                    *)

Fresh(o) == /\ status[o] = None
            /\ \E k \in Customers, S \in SUBSET WalletPool : ClaimCodes(o, k, S)

Touches(o) ==
  \/ Fresh(o) \/ MarkSubmitted(o) \/ MarkConfirmed(o)
  \/ WriteLedger(o) /\ chain[o] = "success"
  \/ ReleaseClaims(o) /\ \A c \in Codes : rows[o][c] = 0
  \/ \E s \in Statuses \ Final : SetStatus(o, s)

\* Moves of the chain: a transfer is sent, mined or displaced.
ChainMoves(o) ==
  \/ chain[o] = "none" /\ chain' = [chain EXCEPT ![o] = "pending"]
  \/ /\ chain[o] = "pending"
     /\ \E fate \in {"success", "reverted", "dropped"} :
          chain' = [chain EXCEPT ![o] = fate]

\* A step writes for one operation, or moves the chain, or does neither;
\* an activation may list a code.
LEMMA StepWrites ==
  ASSUME IInv, [Next]_vars
  PROVE  \/ Unwritten /\ chain' = chain
         \/ Unwritten /\ \E o \in Ops : ChainMoves(o)
         \/ chain' = chain /\ \E o \in Ops : Touches(o) /\ status[o] # None
         \/ chain' = chain /\ \E o \in Ops : Fresh(o)
  <1>. USE Parts
  <1>0. {"DB_FAILED", "MANUAL_REVIEW"} \subseteq Statuses \ Final
    BY DEF Statuses, Final
  <1>1. ASSUME NEW o \in Ops, Prepare(o)
        PROVE  chain' = chain /\ (NoWrite \/ Fresh(o))
    <2>1. status[o] = None /\ chain' = chain
      BY <1>1 DEF Prepare, RowInv
    <2>. QED
      BY <1>1, <2>1 DEF Prepare, Fresh, Raise
  <1>2. ASSUME NEW o \in Ops, Submit(o) \/ SubmitError(o) \/ Mine(o) \/ Replace(o)
        PROVE  NoWrite /\ (chain' = chain \/ ChainMoves(o))
    BY <1>2 DEF Submit, SubmitError, Mine, Replace, NoWrite, ChainMoves, ChainInv
  <1>3. ASSUME NEW o \in Ops,
               PrepareInsufficient(o) \/ Wait(o) \/ Crash(o) \/ Age(o)
        PROVE  NoWrite /\ chain' = chain
    BY <1>3 DEF PrepareInsufficient, Wait, Crash, Age, NoWrite
  <1>4. ASSUME NEW o \in Ops, Mark(o) \/ Ledger(o) \/ Catch(o)
        PROVE  chain' = chain /\ (NoWrite \/ (Touches(o) /\ status[o] # None))
    <2>1. status[o] # None /\ chain' = chain
      BY <1>4 DEF Mark, Ledger, Catch, RowInv
    <2>2. pc[o] = "ledger" => chain[o] = "success"
      BY DEF ChainInv
    <2>3. pc[o] = "release" => \A c \in Codes : rows[o][c] = 0
      BY NothingYet DEF ChainInv
    <2>4. CASE Mark(o)
      BY <2>1, <2>4 DEF Mark, Raise, Touches
    <2>5. CASE Ledger(o)
      BY <2>1, <2>2, <2>5 DEF Ledger, Raise, Touches, NoWrite
    <2>6. CASE Catch(o)
      BY <1>0, <2>1, <2>3, <2>6 DEF Catch, Raise, RecordFailure, Touches
    <2>. QED
      BY <1>4, <2>4, <2>5, <2>6
  <1>5. ASSUME NEW w \in Workers, Act(w) \/ CommitRelease(w)
        PROVE  /\ chain' = chain
               /\ NoWrite \/ \E o \in Ops : Touches(o) /\ status[o] # None
    <2>. DEFINE o == worker[w].op
    <2>1. /\ worker[w] \in WorkerState /\ worker[w].at \in {"act", "release"}
          /\ Knows(worker[w]) /\ chain' = chain
      BY <1>5 DEF Act, CommitRelease, ControlOK, WorkerInv
    <2>2. o \in Ops /\ status[o] # None /\ receiver[o] \in Customers
      BY <2>1 DEF WorkerState, Idle, Knows, RowInv
    <2>3. CASE Act(w)
      <3>1. \/ WriteLedger(o) /\ chain[o] = "success"
            \/ MarkConfirmed(o)
            \/ ReleaseClaims(o) /\ chain[o] = "reverted"
            \/ SetStatus(o, "MANUAL_REVIEW")
            \/ NoWrite
        BY <2>1, <2>3 DEF Act, Knows
      <3>2. chain[o] = "reverted" => \A c \in Codes : rows[o][c] = 0
        BY <2>2, NothingYet
      <3>. QED
        BY <1>0, <2>1, <2>2, <3>1, <3>2 DEF Touches
    <2>4. CASE CommitRelease(w)
      <3>1. (ReleaseClaims(o) /\ StillReserved(o)) \/ NoWrite
        BY <2>4 DEF CommitRelease
      <3>2. StillReserved(o) => \A c \in Codes : rows[o][c] = 0
        BY <2>2, NothingHandedOver
      <3>. QED
        BY <2>1, <2>2, <3>1, <3>2 DEF Touches
    <2>. QED
      BY <1>5, <2>3, <2>4
  <1>6. ASSUME NEW w \in Workers,
               \/ Inspect(w) \/ ReadRows(w) \/ ReadCodes(w) \/ Conclude(w)
               \/ Abandon(w)
               \/ \E o \in Ops : \/ CheckRelease(w, o)
                                 \/ \E dry \in BOOLEAN : Select(w, o, dry)
        PROVE  NoWrite /\ chain' = chain
    BY <1>6 DEF Inspect, ReadRows, ReadCodes, Conclude, Abandon, CheckRelease,
                Select, NoWrite
  <1>10. NoWrite => Unwritten
    BY DEF NoWrite, tables, Unwritten
  <1>11. CASE \E c \in Codes : Activate(c)
    BY <1>11 DEF Activate, Unwritten
  <1>7. CASE UNCHANGED vars
    BY <1>7 DEF vars, Unwritten
  <1>8. CASE \E o \in Ops : RequestStep(o) \/ Crash(o)
                             \/ Mine(o) \/ Replace(o) \/ Age(o)
    BY <1>8, <1>1, <1>2, <1>3, <1>4, <1>10 DEF RequestStep
  <1>9. CASE \E w \in Workers :
               \/ WorkerStep(w) \/ Abandon(w)
               \/ \E o \in Ops : \/ CheckRelease(w, o)
                                 \/ \E dry \in BOOLEAN : Select(w, o, dry)
    BY <1>9, <1>5, <1>6, <1>10 DEF WorkerStep
  <1>. QED
    BY <1>7, <1>8, <1>9, <1>11 DEF Next

\* No step takes a row out of a ledger or changes its receiver.
LEMMA LedgerGrows ==
  ASSUME IInv, [Next]_vars, NEW o \in Ops, NEW c \in Codes, rows[o][c] > 0
  PROVE  rows'[o][c] >= rows[o][c] /\ receiver'[o] = receiver[o]
  <1>. USE Parts
  <1>1. rows[o][c] \in Nat
    BY DEF DataInv, TablesOK
  <1>2. status[o] # None
    BY DEF DataInv, LedgerInv, RowInv
  <1>3. CASE Unwritten
    BY <1>1, <1>3 DEF Unwritten
  <1>4. ASSUME NEW p \in Ops, Touches(p), ~Fresh(p)
        PROVE  rows'[o][c] >= rows[o][c] /\ receiver'[o] = receiver[o]
    <2>1. CASE UNCHANGED <<rows, receiver>>
      BY <1>1, <2>1
    <2>2. CASE WriteLedger(p)
      BY <1>1, <2>2 DEF WriteLedger, DataInv, TablesOK
    <2>. QED
      BY <1>4, <2>1, <2>2 DEF Touches, MarkSubmitted, MarkConfirmed,
                              ReleaseClaims, SetStatus
  <1>5. ASSUME NEW p \in Ops, Fresh(p)
        PROVE  rows'[o][c] >= rows[o][c] /\ receiver'[o] = receiver[o]
    BY <1>1, <1>2, <1>5 DEF Fresh, ClaimCodes, DataInv, TablesOK
  <1>. QED
    BY <1>3, <1>4, <1>5, StepWrites

\* Delivered codes stay delivered, in every step of every behaviour.
THEOREM DeliveryIsFinal == Spec => DeliveredIsFinal
  <1>1. ASSUME IInv, IInv', [Next]_vars
        PROVE  [\A o \in Ops, c \in Codes : rows[o][c] > 0 =>
                  /\ rows'[o][c] >= rows[o][c]
                  /\ owner'[c] = owner[c] /\ claim'[c] = o
                  /\ status'[o] # "CHAIN_FAILED"]_vars
    <2>. SUFFICES ASSUME NEW o \in Ops, NEW c \in Codes, rows[o][c] > 0
                  PROVE  /\ rows'[o][c] >= rows[o][c]
                         /\ owner'[c] = owner[c] /\ claim'[c] = o
                         /\ status'[o] # "CHAIN_FAILED"
      OBVIOUS
    <2>1. rows'[o][c] >= rows[o][c] /\ receiver'[o] = receiver[o]
      BY <1>1, LedgerGrows
    <2>2. rows'[o][c] > 0
      BY <1>1, <2>1 DEF IInv, TypeOK
    <2>3. owner'[c] = receiver'[o] /\ claim'[c] = o /\ owner[c] = receiver[o]
      BY <1>1, <2>2 DEF IInv, LedgerInv, Delivered
    <2>4. status'[o] # "CHAIN_FAILED"
      BY <1>1, <2>3 DEF IInv, ClaimInv
    <2>. QED
      BY <2>1, <2>3, <2>4
  <1>. QED
    BY <1>1, Inductive, PTL DEF Spec, DeliveredIsFinal

(***************************************************************************)
(* 5. Direct transfer implements VoucherDelivery, for any number of codes, *)
(* requests and workers: a step settles one operation's coupons, delivers  *)
(* one operation's codes, or changes nothing the abstraction sees.         *)
(***************************************************************************)
Settled   == {o \in Ops : chain[o] = "success"}
Handed(o) == {c \in Codes : rows[o][c] > 0}
HandedAll == [o \in Ops |-> Handed(o)]

\* Initially nothing is settled and nothing handed over.
LEMMA StartsEmpty == Init => Delivery!DInit
  BY DEF Init, Delivery!DInit

\* Writing no ledger is a stuttering step as far as codes are concerned.
LEMMA SameLedger ==
  ASSUME UNCHANGED <<owner, rows>>
  PROVE  UNCHANGED <<owner, HandedAll>>
  BY DEF HandedAll, Handed

\* What is claimed by an operation with an empty ledger is the merchant's.
LEMMA UndeliveredIsMerchants ==
  ASSUME IInv, NEW o \in Ops, Handed(o) = {}, LedgerWritable(o)
  PROVE  \A c \in reserved[o] : owner[c] = Merchant
  <1>. SUFFICES ASSUME NEW c \in reserved[o], owner[c] # Merchant
                PROVE  FALSE
    OBVIOUS
  <1>1. c \in Codes /\ claim[c] = o
    BY DEF IInv, TypeOK, LedgerWritable
  <1>2. PICK p \in Ops : rows[p][c] > 0
    BY <1>1 DEF IInv, OwnerInv
  <1>3. p = o
    BY <1>1, <1>2 DEF IInv, LedgerInv, Delivered
  <1>. QED
    BY <1>1, <1>2, <1>3 DEF Handed

\* A delivery to any customer is a step of the abstraction.
LEMMA DeliverIsStep ==
  ASSUME NEW o \in Ops, NEW k \in Customers, NEW S \in SUBSET Codes,
         Delivery!Deliver(o, k, S)
  PROVE  Delivery!DNext
  BY DEF Delivery!DNext

\* The first ledger of an operation delivers it; a later one repeats it.
LEMMA LedgerDelivers ==
  ASSUME IInv, NEW o \in Ops, WriteLedger(o), chain[o] = "success",
         chain' = chain, status[o] # None
  PROVE  [Delivery!DNext]_(Delivery!dvars)
  <1>1. /\ reserved[o] \subseteq Codes /\ reserved[o] # {}
        /\ receiver[o] \in Customers /\ rows \in [Ops -> [Codes -> Nat]]
        /\ owner \in [Codes -> Customers \cup {Merchant}]
    BY DEF IInv, TypeOK, RowInv
  <1>2. Settled' = Settled /\ o \in Settled
    BY DEF Settled
  <1>3. owner' = [c \in Codes |->
                    IF c \in reserved[o] THEN receiver[o] ELSE owner[c]]
    BY DEF WriteLedger
  <1>4. HandedAll' = [HandedAll EXCEPT ![o] = Handed(o) \cup reserved[o]]
    <2>1. ASSUME NEW p \in Ops
          PROVE  Handed(p)' = IF p = o THEN Handed(o) \cup reserved[o]
                                       ELSE Handed(p)
      BY <1>1 DEF WriteLedger, Handed
    <2>. QED
      BY <2>1 DEF HandedAll
  <1>5. CASE Handed(o) = {}
    <2>1. \A c \in reserved[o] : owner[c] = Merchant
      BY <1>5, UndeliveredIsMerchants DEF WriteLedger
    <2>2. PICK k \in Customers, S \in SUBSET Codes :
            k = receiver[o] /\ S = reserved[o]
      BY <1>1
    <2>3. Delivery!Deliver(o, k, S)
      BY <1>1, <1>2, <1>3, <1>4, <1>5, <2>1, <2>2
         DEF Delivery!Deliver, Settled, HandedAll, Handed
    <2>. QED
      BY <2>3, DeliverIsStep
  <1>6. CASE Handed(o) # {}
    <2>1. Handed(o) = reserved[o]
      BY <1>1, <1>6 DEF Handed, IInv, LedgerInv, UniformInv
    <2>2. HandedAll' = HandedAll
      BY <1>4, <2>1 DEF HandedAll
    <2>3. \A c \in reserved[o] : owner[c] = receiver[o]
      BY <1>1, <2>1 DEF Handed, IInv, LedgerInv, Delivered
    <2>4. owner' = owner
      BY <1>1, <1>3, <2>3
    <2>. QED
      BY <1>2, <2>2, <2>4 DEF Delivery!dvars, Settled, HandedAll, Handed
  <1>. QED
    BY <1>5, <1>6

\* Every step settles one transfer, delivers one, or stutters.
LEMMA StepImplements ==
  ASSUME IInv, [Next]_vars
  PROVE  [Delivery!DNext]_(Delivery!dvars)
  <1>. USE Parts
  <1>1. CASE Unwritten /\ chain' = chain
    BY <1>1 DEF Unwritten, Delivery!dvars
  <1>2. ASSUME Unwritten, NEW o \in Ops, ChainMoves(o)
        PROVE  [Delivery!DNext]_(Delivery!dvars)
    <2>1. UNCHANGED <<owner, HandedAll>>
      BY <1>2, SameLedger DEF Unwritten
    <2>2. Settled' = Settled \/ (o \notin Settled /\ Settled' = Settled \cup {o})
      BY <1>2 DEF ChainMoves, Settled, ControlOK
    <2>3. CASE Settled' = Settled
      BY <2>1, <2>3 DEF Delivery!dvars, Settled, HandedAll, Handed
    <2>4. CASE o \notin Settled /\ Settled' = Settled \cup {o}
      BY <2>1, <2>4
         DEF Delivery!DNext, Delivery!Settle, Settled, HandedAll, Handed
    <2>. QED
      BY <2>2, <2>3, <2>4
  <1>3. ASSUME chain' = chain, NEW o \in Ops, Touches(o), status[o] # None
        PROVE  [Delivery!DNext]_(Delivery!dvars)
    <2>1. CASE WriteLedger(o) /\ chain[o] = "success"
      BY <1>3, <2>1, LedgerDelivers
    <2>2. CASE UNCHANGED <<owner, rows>>
      BY <1>3, <2>2, SameLedger
         DEF Delivery!dvars, Settled, HandedAll, Handed
    <2>. QED
      BY <1>3, <2>1, <2>2 DEF Touches, Fresh, ClaimCodes, MarkSubmitted,
           MarkConfirmed, ReleaseClaims, SetStatus
  <1>4. ASSUME chain' = chain, NEW o \in Ops, Fresh(o)
        PROVE  [Delivery!DNext]_(Delivery!dvars)
    <2>1. UNCHANGED <<owner, rows>>
      BY <1>4 DEF Fresh, ClaimCodes
    <2>. QED
      BY <1>4, <2>1, SameLedger DEF Delivery!dvars, Settled, HandedAll, Handed
  <1>. QED
    BY <1>1, <1>2, <1>3, <1>4, StepWrites

\* Requests, crashes and recoveries, interleaved in any way, look like
\* coupons that settle and codes that follow them once and whole.
THEOREM Refinement == Spec => ImplementsDelivery
  <1>1. IInv /\ [Next]_vars => [Delivery!DNext]_(Delivery!dvars)
    BY StepImplements
  <1>. QED
    BY <1>1, StartsEmpty, Inductive, PTL
       DEF Spec, ImplementsDelivery, Delivery!DSpec

-----------------------------------------------------------------------------
(* 6. Codes of a transfer that was sent stay reserved unless they were     *)
(* given back too early, and no ledger is written twice unless a worker    *)
(* took up an operation somebody else was at.                              *)

\* How a worker goes on: it forgets, or it learns about the same operation.
GoesOn(r, q) ==
  /\ q.op = r.op /\ q.at \in {"read", "act"}
  /\ q.rows \in {r.rows, RowsSeen(r.op)}
  /\ q.at = "act" /\ q.advice = "FINALIZE_DB" => q.rows = "none"

\* What a step of a worker may turn it into.
LEMMA WorkerBecomes ==
  ASSUME IInv, NEW v \in Workers, WorkerStep(v) \/ Abandon(v)
  PROVE  /\ worker[v].at # "idle"
         /\ \/ Become(v, Idle)
            \/ /\ \E q \in WorkerState : Become(v, q) /\ GoesOn(worker[v], q)
               /\ UNCHANGED rows
  <1>. USE Parts
  <1>. DEFINE r == worker[v]
  <1>1. r \in WorkerState
    BY DEF ControlOK
  <1>2. r.at # "idle"
    BY DEF WorkerStep, Inspect, ReadRows, ReadCodes, Conclude, Act,
           CommitRelease, Abandon
  <1>3. CASE Act(v) \/ CommitRelease(v) \/ Abandon(v)
    BY <1>2, <1>3 DEF Act, CommitRelease, Abandon
  <1>4. ASSUME NEW a \in Advice, Advise(v, a), a # "FINALIZE_DB" \/ r.rows = "none"
        PROVE  \E q \in WorkerState : Become(v, q) /\ GoesOn(r, q)
    <2>1. Advised(r, a) \in WorkerState /\ Become(v, Advised(r, a))
      BY <1>1, <1>2, <1>4, AdvisedState
    <2>2. GoesOn(r, Advised(r, a))
      BY <1>4 DEF GoesOn, Advised
    <2>. QED
      BY <2>1, <2>2
  <1>5. ASSUME NEW q, Become(v, q), q \in WorkerState, q.op = r.op,
               q.at = "read", q.rows \in {r.rows, RowsSeen(r.op)}
        PROVE  \E p \in WorkerState : Become(v, p) /\ GoesOn(r, p)
    <2>1. GoesOn(r, q)
      BY <1>5 DEF GoesOn
    <2>. QED
      BY <1>5, <2>1
  <1>6. CASE Inspect(v)
    <2>1. rows' = rows
      BY <1>6 DEF Inspect, tables
    <2>2. \/ \E a \in {"NO_ACTION", "MANUAL_REVIEW", "WAIT", "RELEASE_CLAIM"} :
               Advise(v, a)
          \/ Become(v, [r EXCEPT !.at = "read"])
      BY <1>6 DEF Inspect
    <2>3. CASE Become(v, [r EXCEPT !.at = "read"])
      <3>. DEFINE q == [r EXCEPT !.at = "read"]
      <3>1. q \in WorkerState /\ q.op = r.op /\ q.at = "read" /\ q.rows = r.rows
        BY <1>1, <1>2 DEF WorkerState, Idle, Acting
      <3>2. Become(v, q)
        BY <2>3
      <3>. HIDE DEF q
      <3>. QED
        BY <1>2, <1>5, <2>1, <3>1, <3>2
    <2>4. CASE \E a \in {"NO_ACTION", "MANUAL_REVIEW", "WAIT", "RELEASE_CLAIM"} :
                 Advise(v, a)
      BY <1>2, <1>4, <2>1, <2>4 DEF Advice
    <2>. QED
      BY <2>2, <2>3, <2>4
  <1>7. CASE ReadRows(v)
    <2>. DEFINE q == [r EXCEPT !.rows = RowsSeen(r.op)]
    <2>1. Become(v, q) /\ r.at = "read" /\ rows' = rows
      BY <1>7 DEF ReadRows, tables
    <2>2. RowsSeen(r.op) \in {"none", "exact", "other"}
      BY DEF RowsSeen
    <2>3. q \in WorkerState /\ q.op = r.op /\ q.at = "read"
          /\ q.rows = RowsSeen(r.op)
      BY <1>1, <2>1, <2>2 DEF WorkerState, Idle
    <2>. HIDE DEF q
    <2>. QED
      BY <1>2, <1>5, <2>1, <2>3
  <1>8. CASE ReadCodes(v)
    <2>. DEFINE q == [r EXCEPT !.codes = CodesSeen(r.op)]
    <2>1. Become(v, q) /\ r.at = "read" /\ rows' = rows
      BY <1>8 DEF ReadCodes, tables
    <2>2. CodesSeen(r.op) \in {"none", "all", "some"}
      BY DEF CodesSeen
    <2>3. q \in WorkerState /\ q.op = r.op /\ q.at = "read" /\ q.rows = r.rows
      BY <1>1, <2>1, <2>2 DEF WorkerState, Idle
    <2>. HIDE DEF q
    <2>. QED
      BY <1>2, <1>5, <2>1, <2>3
  <1>9. CASE Conclude(v)
    <2>1. rows' = rows
      BY <1>9 DEF Conclude, tables
    <2>2. \E a \in Advice : Advise(v, a) /\ (a # "FINALIZE_DB" \/ r.rows = "none")
      BY <1>9 DEF Conclude, Complete, Partial, Advice
    <2>. QED
      BY <1>2, <1>4, <2>1, <2>2
  <1>. QED
    BY <1>3, <1>6, <1>7, <1>8, <1>9 DEF WorkerStep

\* SentInv for one operation.
Holding(o) ==
  (\/ chain[o] \in {"pending", "success"}
   \/ chain[o] = "none" /\ pc[o] \in Running)
  => \A c \in reserved[o] : claim[c] = o

\* A request's own steps keep its codes unless the chain refused them.
LEMMA RequestHolds ==
  ASSUME IInv, SentInv, NEW o \in Ops,
         \/ PrepareInsufficient(o) \/ Submit(o) \/ SubmitError(o) \/ Mark(o)
         \/ Wait(o) \/ Ledger(o) \/ Catch(o) \/ Crash(o) \/ Mine(o)
         \/ Replace(o) \/ Age(o)
  PROVE  SentInv'
  <1>. USE Parts
  <1>1. UNCHANGED <<reserved, hasty>>
    BY DEF history, PrepareInsufficient, Submit, SubmitError, Mark, Wait, Ledger, Catch,
           Crash, Mine, Replace, Age, tables, Raise, NoWrite, MarkSubmitted,
           WriteLedger, RecordFailure, ReleaseClaims, SetStatus
  <1>2. \/ claim' = claim
        \/ /\ pc[o] = "release" /\ UNCHANGED chain
           /\ \A c \in Codes : claim[c] # o => claim'[c] = claim[c]
    <2>1. CASE Catch(o)
      BY <2>1 DEF Catch, Raise, NoWrite, tables, RecordFailure, ReleaseClaims,
                  SetStatus, DataInv, TablesOK
    <2>2. CASE ~Catch(o)
      BY <2>2 DEF PrepareInsufficient, Submit, SubmitError, Mark, Wait, Ledger,
           Crash, Mine, Replace, Age, tables, Raise, NoWrite, MarkSubmitted,
           WriteLedger
    <2>. QED
      BY <2>1, <2>2
  <1>3. pc[o] = "release" => chain[o] = "reverted"
    BY DEF ChainInv
  <1>4. \A p \in Ops \ {o} : pc'[p] = pc[p] /\ chain'[p] = chain[p]
    BY DEF PrepareInsufficient, Submit, SubmitError, Mark, Wait, Ledger, Catch,
           Crash, Mine, Replace, Age, Goto, ControlOK
  <1>5. chain'[o] \in {"pending", "success"} =>
          chain[o] \in {"pending", "success"} \/ pc[o] = "submit"
    BY DEF PrepareInsufficient, Submit, SubmitError, Mark, Wait, Ledger, Catch,
           Crash, Mine, Replace, Age, ControlOK
  <1>6. chain'[o] = "none" /\ pc'[o] \in Running =>
          chain[o] = "none" /\ pc[o] \in Running
    BY DEF PrepareInsufficient, Submit, SubmitError, Mark, Wait, Ledger, Catch,
           Crash, Mine, Replace, Age, ControlOK, Goto, Running, Fates
  <1>7. pc[o] = "submit" => chain[o] = "none" /\ pc[o] \in Running
    BY DEF ChainInv, Running
  <1>8. \A p \in Ops : reserved[p] \subseteq Codes
    BY DEF DataInv, TablesOK
  <1>9. \A p \in Ops \ hasty : Holding(p)
    BY DEF SentInv, Holding
  <1>10. ASSUME NEW p \in Ops \ hasty
         PROVE  Holding(p)'
    <2>1. CASE p = o
      BY <1>1, <1>2, <1>3, <1>5, <1>6, <1>7, <1>8, <1>9, <2>1 DEF Holding
    <2>2. CASE p # o
      BY <1>1, <1>2, <1>4, <1>8, <1>9, <2>2 DEF Holding
    <2>. QED
      BY <2>1, <2>2
  <1>. QED
    BY <1>1, <1>10 DEF SentInv, Holding

\* A new reservation takes no code from another operation.
LEMMA PrepareHolds ==
  ASSUME IInv, SentInv, NEW o \in Ops, Prepare(o)
  PROVE  SentInv'
  <1>. USE Parts
  <1>1. /\ status[o] = None /\ chain[o] = "none" /\ UNCHANGED <<chain, hasty>>
        /\ \A p \in Ops \ {o} : pc'[p] = pc[p]
    BY DEF Prepare, RowInv, Goto, ControlOK, history
  <1>2. reserved[o] = {}
    BY <1>1 DEF RowInv
  <1>3. /\ \A p \in Ops \ hasty : Holding(p)
        /\ \A p \in Ops : reserved[p] \subseteq Codes
    BY DEF SentInv, Holding, DataInv, TablesOK
  <1>4. CASE NoWrite
    BY <1>1, <1>2, <1>3, <1>4 DEF NoWrite, tables, SentInv, Holding
  <1>5. ASSUME NEW k \in Customers, NEW S \in SUBSET WalletPool,
               ClaimCodes(o, k, S)
        PROVE  SentInv'
    <2>1. S \subseteq Codes /\ \A c \in S : claim[c] = None
      BY DEF WalletPool
    <2>2. \A p \in Ops : reserved'[p] = IF p = o THEN S ELSE reserved[p]
      BY <1>5 DEF ClaimCodes, DataInv, TablesOK
    <2>3. \A c \in Codes : claim'[c] = IF c \in S THEN o ELSE claim[c]
      BY <1>5 DEF ClaimCodes
    <2>. QED
      BY <1>1, <1>3, <2>1, <2>2, <2>3, NoneIsNull DEF SentInv, Holding
  <1>. QED
    BY <1>4, <1>5 DEF Prepare, Raise

\* A worker frees the codes of a transfer that was refused or not sent, or
\* of one that is put down as hasty.
LEMMA WorkerHolds ==
  ASSUME IInv, SentInv, NEW w \in Workers,
         UNCHANGED <<chain, pc, reserved>>, hasty \subseteq hasty',
         \/ claim' = claim
         \/ /\ worker[w].op \in Ops /\ ReleaseClaims(worker[w].op)
            /\ \/ chain[worker[w].op] = "reverted" \/ Over(worker[w].op)
               \/ worker[w].op \in hasty'
  PROVE  SentInv'
  <1>. DEFINE o == worker[w].op
  <1>1. \A p \in Ops : reserved[p] \subseteq Codes
    BY Parts DEF DataInv, TablesOK
  <1>2. CASE claim' = claim
    BY <1>2 DEF SentInv
  <1>3. CASE /\ o \in Ops /\ ReleaseClaims(o)
             /\ chain[o] = "reverted" \/ Over(o) \/ o \in hasty'
    <2>. SUFFICES ASSUME NEW p \in Ops \ hasty', Holding(p)
                  PROVE  Holding(p)'
      BY DEF SentInv, Holding
    <2>1. \A c \in Codes : claim[c] # o => claim'[c] = claim[c]
      BY <1>3 DEF ReleaseClaims
    <2>2. p = o => /\ ~(chain[o] \in {"pending", "success"})
                   /\ ~(chain[o] = "none" /\ pc[o] \in Running)
      BY <1>3 DEF Over, Running, Ended
    <2>. QED
      BY <1>1, <2>1, <2>2 DEF Holding
  <1>. QED
    BY <1>2, <1>3

\* SentInv is inductive under IInv.
LEMMA SentStep ==
  ASSUME IInv, SentInv, [Next]_vars
  PROVE  SentInv'
  <1>. USE Parts
  <1>2. ASSUME NEW o \in Ops, Prepare(o)
        PROVE  SentInv'
    BY <1>2, PrepareHolds
  <1>3. ASSUME NEW o \in Ops,
               \/ PrepareInsufficient(o) \/ Submit(o) \/ SubmitError(o)
               \/ Mark(o) \/ Wait(o) \/ Ledger(o) \/ Catch(o) \/ Crash(o)
               \/ Mine(o) \/ Replace(o) \/ Age(o)
        PROVE  SentInv'
    BY <1>3, RequestHolds
  <1>4. ASSUME NEW w \in Workers,
               \/ WorkerStep(w) \/ Abandon(w)
               \/ \E o \in Ops : \/ CheckRelease(w, o)
                                 \/ \E dry \in BOOLEAN : Select(w, o, dry)
        PROVE  SentInv'
    <2>. DEFINE o == worker[w].op
    <2>1. CASE Act(w)
      <3>1. worker[w] \in WorkerState /\ worker[w].at = "act" /\ Knows(worker[w])
        BY <2>1 DEF Act, ControlOK, WorkerInv
      <3>2. o \in Ops
        BY <3>1 DEF WorkerState, Idle
      <3>3. UNCHANGED <<chain, pc, reserved, hasty>>
        BY <2>1 DEF Act, NoWrite, tables, WriteLedger, MarkConfirmed,
             ReleaseClaims, SetStatus, history
      <3>4. \/ claim' = claim
            \/ ReleaseClaims(o) /\ chain[o] = "reverted"
        BY <2>1, <3>1 DEF Act, Knows, NoWrite, tables, WriteLedger,
             MarkConfirmed, SetStatus
      <3>. QED
        BY <3>2, <3>3, <3>4, WorkerHolds
    <2>2. CASE CommitRelease(w)
      <3>1. /\ worker[w] \in WorkerState /\ worker[w].at = "release"
        BY <2>2 DEF CommitRelease, ControlOK
      <3>2. o \in Ops
        BY <3>1 DEF WorkerState, Idle
      <3>3. UNCHANGED <<chain, pc, reserved>>
        BY <2>2 DEF CommitRelease, NoWrite, tables, ReleaseClaims
      <3>4. /\ hasty \subseteq hasty'
            /\ \/ claim' = claim
               \/ ReleaseClaims(o) /\ (Over(o) \/ o \in hasty')
        BY <2>2 DEF CommitRelease, NoWrite, tables
      <3>. QED
        BY <3>1, <3>2, <3>3, <3>4, WorkerHolds
    <2>3. CASE ~Act(w) /\ ~CommitRelease(w)
      <3>1. UNCHANGED <<chain, pc, reserved, claim, hasty>>
        BY <1>4, <2>3 DEF WorkerStep, Inspect, ReadRows, ReadCodes, Conclude,
             Abandon, CheckRelease, Select, tables, history
      <3>. QED
        BY <3>1, WorkerHolds
    <2>. QED
      BY <2>1, <2>2, <2>3
  <1>5. CASE \/ UNCHANGED vars
             \/ \E c \in Codes : Activate(c)
    <2>1. UNCHANGED <<chain, pc, reserved, claim, hasty>>
      BY <1>5 DEF vars, Activate, history
    <2>. QED
      BY <2>1 DEF SentInv
  <1>. QED
    BY <1>2, <1>3, <1>4, <1>5 DEF Next, RequestStep

\* The codes of a transfer that is or may get on chain stay with their
\* operation, in every interleaving, unless an administrator gave them back
\* before the request had ended or after it had sent something.
THEOREM SentStaysHeld == Spec => []SentCodesHeld
  <1>1. Init => SentInv
    BY DEF Init, SentInv, Running
  <1>2. IInv /\ SentInv /\ [Next]_vars => SentInv'
    BY SentStep
  <1>3. SentInv => SentCodesHeld
    BY DEF SentInv, SentCodesHeld
  <1>. QED
    BY <1>1, <1>2, <1>3, Inductive, PTL DEF Spec

-----------------------------------------------------------------------------
(* Operations that are not shared.                                         *)

\* Such an operation has one actor: a request that runs, or one worker.
OneActor == \A w \in Workers, o \in Ops \ shared : Busy(w, o) =>
              pc[o] \in Ended /\ \A v \in Workers : Busy(v, o) => v = w

EmptyBefore == \A o \in Ops \ shared : pc[o] \notin Ended \cup {"dbFailed"} =>
                 \A c \in Codes : rows[o][c] = 0

EmptyIfSeen ==
  \A w \in Workers :
    worker[w].at # "idle" /\ worker[w].op \notin shared
      /\ worker[w].rows = "none"
      => \A c \in Codes : rows[worker[w].op][c] = 0

SeenIfFinalized ==
  \A w \in Workers : worker[w].at = "act" /\ worker[w].advice = "FINALIZE_DB"
    => worker[w].rows = "none"

\* QuietInv as the conjunction of its named parts.
LEMMA QuietParts ==
  QuietInv <=> /\ OneActor /\ EmptyBefore /\ EmptyIfSeen /\ SeenIfFinalized
               /\ NoDuplicateRows
  BY DEF QuietInv, OneActor, EmptyBefore, EmptyIfSeen, SeenIfFinalized

\* The same for the next state.
LEMMA QuietPartsNext ==
  ASSUME OneActor', EmptyBefore', EmptyIfSeen', SeenIfFinalized',
         NoDuplicateRows'
  PROVE  QuietInv'
  BY DEF QuietInv, OneActor, EmptyBefore, EmptyIfSeen, SeenIfFinalized

\* A request writes its ledger while it is the only actor and has none.
LEMMA RequestQuiet ==
  ASSUME IInv, QuietInv, NEW o \in Ops,
         RequestStep(o) \/ Crash(o) \/ Mine(o) \/ Replace(o) \/ Age(o)
  PROVE  QuietInv'
  <1>. USE Parts, QuietParts
  <1>1. /\ UNCHANGED <<worker, shared>>
        /\ \A p \in Ops \ {o} : pc'[p] = pc[p]
    BY DEF history, RequestStep, Prepare, PrepareInsufficient, Submit, SubmitError, Mark,
           Wait, Ledger, Catch, Crash, Mine, Replace, Age, Goto, ControlOK
  <1>2. /\ pc[o] \in Ended => pc'[o] \in Ended
        /\ pc'[o] \notin Ended \cup {"dbFailed"} =>
             pc[o] \notin Ended \cup {"dbFailed"}
    BY DEF RequestStep, Prepare, PrepareInsufficient, Submit, SubmitError, Mark,
           Wait, Ledger, Catch, Crash, Mine, Replace, Age, Goto, ControlOK,
           Ended, Running
  <1>3. \/ rows' = rows
        \/ WriteLedger(o) /\ pc[o] = "ledger" /\ pc'[o] \in {"done", "dbFailed"}
    <2>1. CASE Prepare(o)
      BY <2>1 DEF Prepare, Raise, ClaimCodes, NoWrite, tables
    <2>2. CASE Ledger(o)
      BY <2>2 DEF Ledger, Raise, NoWrite, tables, Goto, ControlOK
    <2>3. CASE Catch(o)
      BY <2>3 DEF Catch, Raise, RecordFailure, ReleaseClaims, SetStatus,
                  NoWrite, tables
    <2>4. CASE Mark(o)
      BY <2>4 DEF Mark, Raise, MarkSubmitted, NoWrite, tables
    <2>5. CASE ~(Prepare(o) \/ Ledger(o) \/ Catch(o) \/ Mark(o))
      BY <2>5 DEF RequestStep, PrepareInsufficient, Submit, SubmitError, Wait,
                  Crash, Mine, Replace, Age, tables
    <2>. QED
      BY <2>1, <2>2, <2>3, <2>4, <2>5
  <1>4. pc[o] = "ledger" => pc[o] \notin Ended \cup {"dbFailed"}
    BY DEF Ended
  <1>5. \/ rows' = rows
        \/ /\ \A p \in Ops \ {o} : rows'[p] = rows[p]
           /\ o \notin shared => \A c \in Codes : rows'[o][c] \in {0, 1}
           /\ pc[o] = "ledger" /\ pc'[o] \in {"done", "dbFailed"}
    BY <1>3, <1>4 DEF WriteLedger, EmptyBefore, DataInv, TablesOK
  <1>6. OneActor'
    BY <1>1, <1>2 DEF OneActor, Busy
  <1>7. EmptyBefore'
    BY <1>1, <1>2, <1>5 DEF EmptyBefore, Ended
  <1>8. EmptyIfSeen'
    <2>. SUFFICES ASSUME NEW w \in Workers, worker[w].at # "idle",
                         worker[w].op \notin shared, worker[w].rows = "none"
                  PROVE  \A c \in Codes : rows'[worker[w].op][c] = 0
      BY <1>1 DEF EmptyIfSeen
    <2>1. worker[w].op \in Ops
      BY DEF ControlOK, WorkerState, Idle
    <2>2. worker[w].op = o => pc[o] \in Ended
      BY DEF OneActor, Busy
    <2>. QED
      BY <1>4, <1>5, <2>1, <2>2 DEF EmptyIfSeen
  <1>9. SeenIfFinalized' /\ NoDuplicateRows'
    BY <1>1, <1>5 DEF SeenIfFinalized, NoDuplicateRows
  <1>. QED
    BY <1>6, <1>7, <1>8, <1>9, QuietPartsNext

\* A worker finalises an operation it alone works on and has found empty.
LEMMA WorkerQuiet ==
  ASSUME IInv, QuietInv, NEW v \in Workers, WorkerStep(v) \/ Abandon(v)
  PROVE  QuietInv'
  <1>. USE Parts, QuietParts
  <1>. DEFINE o == worker[v].op
  <1>1. /\ worker[v] \in WorkerState /\ worker[v].at # "idle" /\ o \in Ops
        /\ UNCHANGED <<pc, shared>>
    <2>1. worker[v] \in WorkerState /\ worker[v].at # "idle"
      BY WorkerBecomes DEF ControlOK
    <2>2. UNCHANGED <<pc, shared>>
      BY DEF history, WorkerStep, Inspect, ReadRows, ReadCodes, Conclude, Act,
             CommitRelease, Abandon
    <2>. QED
      BY <2>1, <2>2 DEF WorkerState, Idle
  <1>2. Busy(v, o) /\ (o \notin shared => pc[o] \in Ended)
    BY <1>1 DEF Busy, OneActor
  <1>3. PICK q \in WorkerState :
          /\ worker' = [worker EXCEPT ![v] = q]
          /\ q = Idle \/ (GoesOn(worker[v], q) /\ UNCHANGED rows)
    <2>1. CASE Become(v, Idle)
      <3>1. Idle \in WorkerState
        BY DEF WorkerState
      <3>2. worker' = [worker EXCEPT ![v] = Idle]
        BY <2>1 DEF Become
      <3>. QED
        BY <3>1, <3>2
    <2>2. CASE /\ \E q \in WorkerState : Become(v, q) /\ GoesOn(worker[v], q)
               /\ UNCHANGED rows
      BY <2>2 DEF Become
    <2>. QED
      BY <2>1, <2>2, WorkerBecomes
  <1>4. \/ rows' = rows
        \/ /\ q = Idle
           /\ \A p \in Ops \ {o} : rows'[p] = rows[p]
           /\ o \notin shared => \A c \in Codes : rows'[o][c] \in {0, 1}
    <2>1. CASE rows' # rows
      <3>1. Act(v) /\ WriteLedger(o) /\ worker[v].advice = "FINALIZE_DB"
        BY <2>1 DEF WorkerStep, Inspect, ReadRows, ReadCodes, Conclude, Act,
             CommitRelease, Abandon, tables, NoWrite, MarkConfirmed,
             ReleaseClaims, SetStatus
      <3>2. o \notin shared => \A c \in Codes : rows[o][c] = 0
        BY <1>1, <3>1 DEF Act, SeenIfFinalized, EmptyIfSeen
      <3>3. o \in Ops /\ rows \in [Ops -> [Codes -> Nat]]
        BY <1>1 DEF DataInv, TablesOK
      <3>4. rows' = [rows EXCEPT ![o] = [c \in Codes |->
                       IF c \in reserved[o] THEN rows[o][c] + 1 ELSE rows[o][c]]]
        BY <3>1 DEF WriteLedger
      <3>5. \A p \in Ops \ {o} : rows'[p] = rows[p]
        BY <3>3, <3>4
      <3>6. o \notin shared => \A c \in Codes : rows'[o][c] \in {0, 1}
        BY <3>2, <3>3, <3>4
      <3>7. q = Idle
        BY <1>3, <2>1
      <3>. QED
        BY <3>5, <3>6, <3>7
    <2>. QED
      BY <2>1
  <1>5. \A w \in Workers : worker'[w] = IF w = v THEN q ELSE worker[w]
    BY <1>3 DEF ControlOK
  <1>6. OneActor'
    BY <1>1, <1>2, <1>3, <1>5 DEF OneActor, Busy, GoesOn, Idle
  <1>7. EmptyBefore'
    BY <1>1, <1>2, <1>4 DEF EmptyBefore
  <1>8. EmptyIfSeen'
    <2>. SUFFICES ASSUME NEW w \in Workers, worker'[w].at # "idle",
                         worker'[w].op \notin shared, worker'[w].rows = "none"
                  PROVE  \A c \in Codes : rows'[worker'[w].op][c] = 0
      BY <1>1 DEF EmptyIfSeen
    <2>1. CASE w = v
      <3>1. /\ GoesOn(worker[v], q) /\ rows' = rows /\ q.op = o
            /\ q.rows = "none" /\ worker'[w] = q
        BY <1>3, <1>5, <2>1 DEF Idle, GoesOn
      <3>2. worker[v].rows = "none" \/ RowsSeen(o) = "none"
        BY <3>1 DEF GoesOn
      <3>3. RowsSeen(o) = "none" => \A c \in Codes : rows[o][c] = 0
        BY DEF RowsSeen
      <3>. QED
        BY <1>1, <3>1, <3>2, <3>3 DEF EmptyIfSeen
    <2>2. CASE w # v
      <3>1. worker'[w] = worker[w] /\ worker[w].op \in Ops
        BY <1>5, <2>2 DEF ControlOK, WorkerState, Idle
      <3>2. worker[w].op # o
        BY <1>1, <1>2, <2>2, <3>1 DEF OneActor, Busy
      <3>. QED
        BY <1>4, <3>1, <3>2 DEF EmptyIfSeen
    <2>. QED
      BY <2>1, <2>2
  <1>9. SeenIfFinalized'
    BY <1>3, <1>5 DEF SeenIfFinalized, GoesOn, Idle
  <1>10. NoDuplicateRows'
    BY <1>1, <1>4 DEF NoDuplicateRows
  <1>. QED
    BY <1>6, <1>7, <1>8, <1>9, <1>10, QuietPartsNext

\* Recovery starts on an operation without an actor, or makes it shared.
LEMMA SelectQuiet ==
  ASSUME IInv, QuietInv, NEW v \in Workers, NEW o \in Ops,
         CheckRelease(v, o) \/ \E dry \in BOOLEAN : Select(v, o, dry)
  PROVE  QuietInv'
  <1>. USE Parts, QuietParts
  <1>1. PICK place \in {"inspect", "release"}, dry \in BOOLEAN :
          worker' = [worker EXCEPT ![v] = Snapshot(o, place, dry)]
    BY DEF CheckRelease, Select, Become
  <1>. DEFINE q == Snapshot(o, place, dry)
  <1>2. /\ UNCHANGED <<rows, pc>> /\ worker[v].at = "idle"
        /\ shared \subseteq shared' /\ (Undisturbed(v, o) \/ o \in shared')
    BY DEF CheckRelease, Select, TakeUp, tables
  <1>3. q.op = o /\ q.at = place /\ q.rows = "unread"
    BY DEF Snapshot
  <1>. HIDE DEF q
  <1>4. \A w \in Workers : worker'[w] = IF w = v THEN q ELSE worker[w]
    BY <1>1 DEF ControlOK, q
  <1>5. OneActor'
    BY <1>2, <1>3, <1>4 DEF OneActor, Busy, Undisturbed
  <1>6. EmptyBefore' /\ NoDuplicateRows'
    BY <1>2 DEF EmptyBefore, NoDuplicateRows
  <1>7. EmptyIfSeen' /\ SeenIfFinalized'
    BY <1>2, <1>3, <1>4 DEF EmptyIfSeen, SeenIfFinalized
  <1>. QED
    BY <1>5, <1>6, <1>7, QuietPartsNext

\* QuietInv is inductive under IInv.
LEMMA QuietStep ==
  ASSUME IInv, QuietInv, [Next]_vars
  PROVE  QuietInv'
  <1>1. ASSUME NEW o \in Ops,
               RequestStep(o) \/ Crash(o) \/ Mine(o) \/ Replace(o) \/ Age(o)
        PROVE  QuietInv'
    BY <1>1, RequestQuiet
  <1>2. ASSUME NEW w \in Workers, WorkerStep(w) \/ Abandon(w)
        PROVE  QuietInv'
    BY <1>2, WorkerQuiet
  <1>3. ASSUME NEW w \in Workers, NEW o \in Ops,
               CheckRelease(w, o) \/ \E dry \in BOOLEAN : Select(w, o, dry)
        PROVE  QuietInv'
    BY <1>3, SelectQuiet
  <1>4. CASE \/ UNCHANGED vars
             \/ \E c \in Codes : Activate(c)
    <2>1. UNCHANGED <<pc, worker, rows, shared>>
      BY <1>4 DEF vars, Activate, history
    <2>. QED
      BY <2>1 DEF QuietInv, Busy, NoDuplicateRows
  <1>. QED
    BY <1>1, <1>2, <1>3, <1>4 DEF Next

\* No code is written to a ledger twice, in every interleaving, unless a
\* worker took the operation up while the request or another was at it.
THEOREM QuietLedger == Spec => []NoDuplicateRows
  <1>1. Init => QuietInv
    BY DEF Init, QuietInv, Busy, Idle, NoDuplicateRows, Ended
  <1>2. IInv /\ QuietInv /\ [Next]_vars => QuietInv'
    BY QuietStep
  <1>3. QuietInv => NoDuplicateRows
    BY DEF QuietInv
  <1>. QED
    BY <1>1, <1>2, <1>3, Inductive, PTL DEF Spec
=============================================================================
