----------------------- MODULE TriggerOrderBridgeProofs -----------------------
(***************************************************************************)
(* The safety of the fire -> order bridge for every set of processes, keys  *)
(* and decisions.  BridgeInv is inductive: StoreInv speaks of the two       *)
(* databases and ProcInv of the processes between two durable steps.  Every *)
(* action is a journal update (the Mark lemmas) with a move of one process  *)
(* (the Return, Goto and Settled lemmas); RowsKept is what the processes    *)
(* that do not move rely on.                                                *)
(***************************************************************************)
EXTENDS TriggerOrderBridge, TLAPS

Unsent == {"RESERVED", "ABORTED"}
Sent   == {"DISPATCHING", "COMMITTED", "UNCERTAIN"}

(* A journal update that moves no row between "never sent" and "sent" and   *)
(* reopens none.                                                            *)
RowsKept ==
    \A k \in Key :
        /\ jstate[k] \in Unsent => jstate'[k] \in Unsent
        /\ jstate[k] \in Sent => jstate'[k] \in Sent
        /\ jstate[k] \in Terminal => jstate'[k] \in Terminal

(* The same, but for the row a process is dispatching itself.               *)
RowsKeptBut(k0) ==
    \A k \in Key :
        /\ k # k0 => /\ jstate[k] \in Unsent => jstate'[k] \in Unsent
                     /\ jstate[k] \in Sent => jstate'[k] \in Sent
        /\ jstate[k] \in Terminal => jstate'[k] \in Terminal

(* An order result, once durable, is never rewritten.                       *)
LedgerKept == \A d \in Decision : ledger[d] # "NONE" => ledger'[d] = ledger[d]

USE DEF Terminal, NonTerminal, JournalState, OrderStatus, Durable, OrderId, Unsent, Sent

-----------------------------------------------------------------------------
(* Journal updates keep what holds of the databases.                        *)

LEMMA MarkAbortedKeeps ==
    ASSUME StoreInv, NEW k \in Key, MarkAborted(k), UNCHANGED <<ledger, calls>>
    PROVE  StoreInv' /\ RowsKept /\ jstate'[k] \in Terminal
BY Zenon DEF StoreInv, StoreTypeOK, OrderIdOwnership, AbortMeansNotSent, CommittedMatchesLedger,
   MarkAborted, RowsKept

LEMMA MarkCommittedKeeps ==
    ASSUME StoreInv, NEW k \in Key, MarkCommitted(k, ledger[OrderId(k)]),
           ledger[OrderId(k)] # "NONE", UNCHANGED <<ledger, calls>>
    PROVE  StoreInv' /\ RowsKept /\ jstate'[k] \in Terminal
BY BridgeConstants, Zenon DEF StoreInv, StoreTypeOK, OrderIdOwnership, AbortMeansNotSent,
   CommittedMatchesLedger, MarkCommitted, RowsKept

LEMMA MarkUncertainKeeps ==
    ASSUME StoreInv, NEW k \in Key, MarkUncertain(k), UNCHANGED <<ledger, calls>>
    PROVE  StoreInv' /\ RowsKept /\ jstate'[k] \in Terminal
BY Zenon DEF StoreInv, StoreTypeOK, OrderIdOwnership, AbortMeansNotSent, CommittedMatchesLedger,
   MarkUncertain, RowsKept

LEMMA JournalUnchangedKeeps ==
    ASSUME StoreInv, UNCHANGED <<journalVars, ledger, calls>>
    PROVE  StoreInv' /\ RowsKept
BY Zenon DEF StoreInv, StoreTypeOK, OrderIdOwnership, AbortMeansNotSent, CommittedMatchesLedger,
   journalVars, RowsKept

-----------------------------------------------------------------------------
(* Moves of one process keep what holds of all of them.                     *)

LEMMA ReturnKeeps ==
    ASSUME ProcInv, RowsKept, NEW p \in Proc, NEW o \in Outcome, Return(p, o),
           UNCHANGED <<ledger, calls>>
    PROVE  ProcInv'
<1>1. ProcTypeOK'
    BY Zenon DEF ProcInv, ProcTypeOK, Return
<1>2. RecoverSettlesListed'
    BY Zenon DEF ProcInv, ProcTypeOK, RecoverSettlesListed, Return, RowsKept
<1>3. ASSUME NEW q \in Proc PROVE HoldsRow(q)'
    BY Zenon DEF ProcInv, ProcTypeOK, HoldsRow, Return, RowsKept, DispatchPc, RecoverPc
<1>4. DistinctKeys'
    BY Zenon DEF ProcInv, ProcTypeOK, DistinctKeys, Return, DispatchPc
<1> QED
    BY <1>1, <1>2, <1>3, <1>4, Zenon DEF ProcInv

(* A process that moves on inside dispatch must hold its row at the new     *)
(* line; the others are as they were.                                       *)
LEMMA DispatchMoveKeeps ==
    ASSUME ProcInv, LedgerKept, NEW p \in Proc, RowsKeptBut(cur[p]),
           pc[p] \in DispatchPc, NEW l \in DispatchPc, Goto(p, l),
           durable' \in [Proc -> Durable],
           \A q \in Proc \ {p} : durable'[q] = durable[q],
           \A k \in Key \ {cur[p]} : calls'[k] = calls[k],
           HoldsRow(p)'
    PROVE  ProcInv'
<1>1. ProcTypeOK'
    BY Zenon DEF ProcInv, ProcTypeOK, Goto
<1>2. RecoverSettlesListed'
    BY Zenon DEF ProcInv, ProcTypeOK, RecoverSettlesListed, Goto, RowsKeptBut
<1>3. ASSUME NEW q \in Proc, q # p PROVE HoldsRow(q)'
  <2>1. HoldsRow(q) /\ pc'[q] = pc[q] /\ cur'[q] = cur[q] /\ durable'[q] = durable[q]
    BY <1>3, Zenon DEF ProcInv, ProcTypeOK, Goto
  <2>2. pc[q] \in DispatchPc => cur[q] \in Key \ {cur[p]}
    BY <1>3, <2>1, Zenon DEF ProcInv, DistinctKeys, HoldsRow
  <2>3. durable[q] # "NONE" => ledger'[OrderId(cur[q])] = ledger[OrderId(cur[q])]
    <3> SUFFICES ASSUME durable[q] # "NONE" PROVE ledger'[OrderId(cur[q])] = ledger[OrderId(cur[q])]
      OBVIOUS
    <3>1. cur[q] \in Key /\ durable[q] = ledger[OrderId(cur[q])]
      BY <2>1, Zenon DEF HoldsRow
    <3> QED
      BY <3>1, BridgeConstants, Zenon DEF LedgerKept
  <2> QED
    BY <2>1, <2>2, <2>3 DEF HoldsRow, RowsKeptBut, DispatchPc
<1>4. DistinctKeys'
    BY Zenon DEF ProcInv, ProcTypeOK, DistinctKeys, Goto
<1> QED
    BY <1>1, <1>2, <1>3, <1>4, Zenon DEF ProcInv

(* reconcile_all goes past a row once that row is settled.                  *)
LEMMA SettledKeeps ==
    ASSUME ProcInv, RowsKept, NEW p \in Proc, NEW k \in Key, Settled(p, k),
           jstate'[k] \in Terminal, UNCHANGED <<ledger, calls>>
    PROVE  ProcInv'
<1>1. ProcTypeOK'
    BY Zenon DEF ProcInv, ProcTypeOK, Settled, RecoverPc
<1>2. RecoverSettlesListed'
    BY Zenon DEF ProcInv, ProcTypeOK, RecoverSettlesListed, Settled, RowsKept
<1>3. ASSUME NEW q \in Proc PROVE HoldsRow(q)'
    BY BridgeConstants DEF ProcInv, ProcTypeOK, HoldsRow, Settled, RowsKept, DispatchPc, RecoverPc
<1>4. DistinctKeys'
    BY Zenon DEF ProcInv, ProcTypeOK, DistinctKeys, Settled, DispatchPc
<1> QED
    BY <1>1, <1>2, <1>3, <1>4, Zenon DEF ProcInv

LEMMA RaiseKeeps ==
    ASSUME BridgeInv, NEW p \in Proc, Raise(p), UNCHANGED <<ledger, calls>>
    PROVE  BridgeInv'
BY JournalUnchangedKeeps, ReturnKeeps, Zenon DEF BridgeInv, Raise, Outcome

LEMMA AbortAndReturnKeeps ==
    ASSUME BridgeInv, NEW p \in Proc, cur[p] \in Key, NEW o \in Outcome,
           AbortAndReturn(p, o), UNCHANGED <<ledger, calls>>
    PROVE  BridgeInv'
BY MarkAbortedKeeps, ReturnKeeps, RaiseKeeps, Zenon DEF BridgeInv, AbortAndReturn

-----------------------------------------------------------------------------
(* One lemma per group of actions.                                          *)

LEMMA ReserveKeeps ==
    ASSUME BridgeInv, NEW p \in Proc, NEW k \in Key, Reserve(p, k)
    PROVE  BridgeInv'
<1>1. CASE ReserveExisting(p, k)
    BY <1>1, JournalUnchangedKeeps, ReturnKeeps, Zenon DEF BridgeInv, ReserveExisting, Outcome
<1>2. CASE ReserveNew(p, k)
  <2>1. StoreInv'
    BY <1>2, BridgeConstants, Zenon DEF BridgeInv, StoreInv, StoreTypeOK, OrderIdOwnership,
       AbortMeansNotSent, CommittedMatchesLedger, ReserveNew
  <2>2. ProcTypeOK'
    BY <1>2, Zenon DEF BridgeInv, ProcInv, ProcTypeOK, ReserveNew, DispatchPc
  <2>3. RecoverSettlesListed'
    BY <1>2, Zenon DEF BridgeInv, ProcInv, ProcTypeOK, StoreInv, StoreTypeOK, RecoverSettlesListed,
       ReserveNew
  <2>4. ASSUME NEW q \in Proc PROVE HoldsRow(q)'
    BY <1>2, BridgeConstants DEF BridgeInv, ProcInv, ProcTypeOK, StoreInv, StoreTypeOK,
       HoldsRow, ReserveNew, DispatchPc
  <2>5. ASSUME NEW q \in Proc, pc[q] \in DispatchPc PROVE cur[q] # k
    BY <1>2, <2>5, Zenon DEF BridgeInv, ProcInv, HoldsRow, ReserveNew, DispatchPc
  <2>6. DistinctKeys'
    BY <1>2, <2>5, Zenon DEF BridgeInv, ProcInv, ProcTypeOK, DistinctKeys, ReserveNew
  <2> QED
    BY <2>1, <2>2, <2>3, <2>4, <2>6, Zenon DEF BridgeInv, ProcInv
<1> QED
    BY <1>1, <1>2, Zenon DEF Reserve

(* Steps 2-5 of dispatch, before the row owns its order id.                 *)
LEMMA PrepareKeeps ==
    ASSUME BridgeInv, NEW p \in Proc, Prepare(p)
    PROVE  BridgeInv'
<1>1. cur[p] \in Key
    BY Zenon DEF BridgeInv, ProcInv, HoldsRow, Prepare, DispatchPc
<1>2. CASE AbortAndReturn(p, "ABORTED") \/ AbortAndReturn(p, "RAISED")
    BY <1>1, <1>2, AbortAndReturnKeeps, Zenon DEF Prepare, Outcome
<1>3. CASE Goto(p, "preflight") /\ UNCHANGED <<durable, journalVars>>
  <2>1. StoreInv' /\ RowsKept
    BY <1>3, JournalUnchangedKeeps, Zenon DEF BridgeInv, Prepare
  <2>2. HoldsRow(p)'
    BY <1>3, <1>1, Zenon DEF BridgeInv, ProcInv, ProcTypeOK, HoldsRow, Prepare, Goto, journalVars, DispatchPc
  <2> QED
    BY <1>3, <2>1, <2>2, DispatchMoveKeeps, Zenon
       DEF BridgeInv, ProcInv, ProcTypeOK, Prepare, RowsKept, RowsKeptBut, LedgerKept, DispatchPc
<1> QED
    BY <1>2, <1>3, Zenon DEF Prepare

LEMMA LedgerPreflightKeeps ==
    ASSUME BridgeInv, NEW p \in Proc, LedgerPreflight(p)
    PROVE  BridgeInv'
<1>1. cur[p] \in Key
    BY Zenon DEF BridgeInv, ProcInv, HoldsRow, LedgerPreflight, DispatchPc
<1>2. CASE AbortAndReturn(p, "RAISED")
    BY <1>1, <1>2, AbortAndReturnKeeps, Zenon DEF LedgerPreflight, Outcome
<1>3. CASE /\ Goto(p, "mark") /\ UNCHANGED journalVars
           /\ durable' = [durable EXCEPT ![p] = ledger[OrderId(cur[p])]]
  <2>1. StoreInv' /\ RowsKept
    BY <1>3, JournalUnchangedKeeps, Zenon DEF BridgeInv, LedgerPreflight
  <2>2. ledger[OrderId(cur[p])] \in Durable
    BY <1>1, BridgeConstants, Zenon DEF BridgeInv, StoreInv, StoreTypeOK
  <2>3. HoldsRow(p)'
    BY <1>1, <1>3, <2>2, Zenon DEF BridgeInv, ProcInv, ProcTypeOK, HoldsRow, LedgerPreflight, Goto,
       journalVars, DispatchPc
  <2> QED
    BY <1>3, <2>1, <2>2, <2>3, DispatchMoveKeeps, Zenon
       DEF BridgeInv, ProcInv, ProcTypeOK, LedgerPreflight, RowsKept, RowsKeptBut, LedgerKept,
       DispatchPc
<1> QED
    BY <1>2, <1>3, Zenon DEF LedgerPreflight

(* The row takes its order id: no other row and no other process has it.    *)
LEMMA DispatchingKeeps ==
    ASSUME BridgeInv, NEW p \in Proc, Dispatching(p)
    PROVE  BridgeInv'
<1>1. cur[p] \in Key
    BY Zenon DEF BridgeInv, ProcInv, HoldsRow, Dispatching, DispatchPc
<1>2. CASE Raise(p)
    BY <1>2, RaiseKeeps, Zenon DEF Dispatching
<1>3. CASE /\ MarkDispatching(cur[p]) /\ UNCHANGED durable
           /\ Goto(p, IF durable[p] = "NONE" THEN "submit" ELSE "finalize")
  <2>1. StoreInv'
    BY <1>1, <1>3, BridgeConstants, Zenon DEF BridgeInv, StoreInv, StoreTypeOK, OrderIdOwnership,
       AbortMeansNotSent, CommittedMatchesLedger, Dispatching, MarkDispatching, OrderIdInUse
  <2>2. RowsKeptBut(cur[p])
    BY <1>1, <1>3, Zenon DEF BridgeInv, StoreInv, StoreTypeOK, MarkDispatching, RowsKeptBut
  <2>3. HoldsRow(p)'
    BY <1>1, <1>3, Zenon DEF BridgeInv, ProcInv, ProcTypeOK, StoreInv, StoreTypeOK, HoldsRow,
       AbortMeansNotSent, Dispatching, MarkDispatching, Goto, DispatchPc
  <2> QED
    BY <1>3, <2>1, <2>2, <2>3, DispatchMoveKeeps, Zenon
       DEF BridgeInv, ProcInv, ProcTypeOK, Dispatching, LedgerKept, DispatchPc
<1> QED
    BY <1>2, <1>3, Zenon DEF Dispatching

(* The one broker call of a row; a ledger row is only ever added.           *)
LEMMA SubmitOrderKeeps ==
    ASSUME BridgeInv, NEW p \in Proc, SubmitOrder(p)
    PROVE  BridgeInv'
<1>1. cur[p] \in Key /\ calls[cur[p]] = 0 /\ jstate[cur[p]] \in Sent
    BY Zenon DEF BridgeInv, ProcInv, HoldsRow, SubmitOrder, DispatchPc
<1>2. /\ LedgerKept
      /\ ledger' \in [Decision -> Durable]
  <2>1. CASE UNCHANGED ledger
    BY <2>1, Zenon DEF BridgeInv, StoreInv, StoreTypeOK, LedgerKept
  <2>2. ASSUME NEW r \in OrderStatus, ledger[OrderId(cur[p])] = "NONE",
               ledger' = [ledger EXCEPT ![OrderId(cur[p])] = r]
        PROVE  LedgerKept /\ ledger' \in [Decision -> Durable]
    BY <2>2, <1>1, BridgeConstants, Zenon DEF BridgeInv, StoreInv, StoreTypeOK, LedgerKept
  <2> QED
    BY <2>1, <2>2, Zenon DEF SubmitOrder
<1>3. PICK l \in {"postflight", "exception"} : Goto(p, l)
    BY Zenon DEF SubmitOrder
<1>4. /\ UNCHANGED <<jstate, jorder, jresult, durable>>
      /\ calls' = [calls EXCEPT ![cur[p]] = calls[cur[p]] + 1]
    BY Zenon DEF SubmitOrder, journalVars
<1>5. StoreInv'
  <2>1. StoreTypeOK' /\ \A k \in Key : calls'[k] <= 1
    BY <1>1, <1>2, <1>4 DEF BridgeInv, StoreInv, StoreTypeOK
  <2>2. OrderIdOwnership'
    BY <1>4, Zenon DEF BridgeInv, StoreInv, OrderIdOwnership
  <2>3. AbortMeansNotSent'
    BY <1>1, <1>4, Zenon DEF BridgeInv, StoreInv, StoreTypeOK, AbortMeansNotSent
  <2>4. CommittedMatchesLedger'
    BY <1>2, <1>4, BridgeConstants, Zenon DEF BridgeInv, StoreInv, CommittedMatchesLedger, LedgerKept
  <2> QED
    BY <2>1, <2>2, <2>3, <2>4, Zenon DEF StoreInv
<1>6. HoldsRow(p)'
    BY <1>1, <1>2, <1>3, <1>4, BridgeConstants DEF BridgeInv, ProcInv, ProcTypeOK, HoldsRow,
       Goto, LedgerKept, DispatchPc
<1> QED
    BY <1>1, <1>2, <1>3, <1>4, <1>5, <1>6, DispatchMoveKeeps
       DEF BridgeInv, ProcInv, ProcTypeOK, StoreInv, StoreTypeOK, SubmitOrder, RowsKeptBut,
       DispatchPc

LEMMA ReconcileAfterBrokerExceptionKeeps ==
    ASSUME BridgeInv, NEW p \in Proc, ReconcileAfterBrokerException(p)
    PROVE  BridgeInv'
<1>1. cur[p] \in Key
    BY Zenon DEF BridgeInv, ProcInv, HoldsRow, ReconcileAfterBrokerException, DispatchPc
<1>2. PICK r \in {"NONE", ledger[OrderId(cur[p])]} : durable' = [durable EXCEPT ![p] = r]
    BY Zenon DEF ReconcileAfterBrokerException
<1>3. r \in Durable
    BY <1>1, BridgeConstants, Zenon DEF BridgeInv, StoreInv, StoreTypeOK
<1>4. StoreInv' /\ RowsKept
    BY JournalUnchangedKeeps, Zenon DEF BridgeInv, ReconcileAfterBrokerException
<1>5. HoldsRow(p)'
    BY <1>1, <1>2, <1>3, Zenon DEF BridgeInv, ProcInv, ProcTypeOK, HoldsRow,
       ReconcileAfterBrokerException, Goto, journalVars, DispatchPc
<1> QED
    BY <1>2, <1>3, <1>4, <1>5, DispatchMoveKeeps, Zenon
       DEF BridgeInv, ProcInv, ProcTypeOK, ReconcileAfterBrokerException, RowsKept,
       RowsKeptBut, LedgerKept, DispatchPc

LEMMA LedgerPostflightKeeps ==
    ASSUME BridgeInv, NEW p \in Proc, LedgerPostflight(p)
    PROVE  BridgeInv'
<1>1. cur[p] \in Key
    BY Zenon DEF BridgeInv, ProcInv, HoldsRow, LedgerPostflight, DispatchPc
<1>2. CASE Raise(p)
    BY <1>2, RaiseKeeps, Zenon DEF LedgerPostflight
<1>3. CASE MarkUncertain(cur[p]) /\ Return(p, "UNCERTAIN")
    BY <1>1, <1>3, MarkUncertainKeeps, ReturnKeeps, Zenon DEF BridgeInv, LedgerPostflight, Outcome
<1>4. CASE /\ Goto(p, "finalize") /\ UNCHANGED journalVars
           /\ durable' = [durable EXCEPT ![p] = ledger[OrderId(cur[p])]]
  <2>1. StoreInv' /\ RowsKept
    BY <1>4, JournalUnchangedKeeps, Zenon DEF BridgeInv, LedgerPostflight
  <2>2. ledger[OrderId(cur[p])] \in Durable
    BY <1>1, BridgeConstants, Zenon DEF BridgeInv, StoreInv, StoreTypeOK
  <2>3. HoldsRow(p)'
    BY <1>1, <1>4, <2>2, Zenon DEF BridgeInv, ProcInv, ProcTypeOK, HoldsRow, LedgerPostflight, Goto,
       journalVars, DispatchPc
  <2> QED
    BY <1>4, <2>1, <2>2, <2>3, DispatchMoveKeeps, Zenon
       DEF BridgeInv, ProcInv, ProcTypeOK, LedgerPostflight, RowsKept, RowsKeptBut, LedgerKept,
       DispatchPc
<1> QED
    BY <1>2, <1>3, <1>4, Zenon DEF LedgerPostflight

LEMMA FinalizeKeeps ==
    ASSUME BridgeInv, NEW p \in Proc, Finalize(p)
    PROVE  BridgeInv'
<1>1. cur[p] \in Key
    BY Zenon DEF BridgeInv, ProcInv, HoldsRow, Finalize, DispatchPc
<1>2. CASE Raise(p)
    BY <1>2, RaiseKeeps, Zenon DEF Finalize, FinalizeFromDurable
<1>3. CASE MarkUncertain(cur[p]) /\ Return(p, "UNCERTAIN")
    BY <1>1, <1>3, MarkUncertainKeeps, ReturnKeeps, Zenon
       DEF BridgeInv, Finalize, FinalizeFromDurable, Outcome
<1>4. CASE durable[p] # "NONE" /\ MarkCommitted(cur[p], durable[p]) /\ Return(p, "COMMITTED")
  <2>1. durable[p] = ledger[OrderId(cur[p])]
    BY <1>4, Zenon DEF BridgeInv, ProcInv, HoldsRow
  <2> QED
    BY <1>1, <1>4, <2>1, MarkCommittedKeeps, ReturnKeeps, Zenon
       DEF BridgeInv, Finalize, FinalizeFromDurable, Outcome
<1> QED
    BY <1>2, <1>3, <1>4, Zenon DEF Finalize, FinalizeFromDurable

-----------------------------------------------------------------------------
(* reconcile_all, crashes and the paper loop.                               *)

LEMMA StartRecoverKeeps ==
    ASSUME BridgeInv, NEW p \in Proc, StartRecover(p)
    PROVE  BridgeInv'
<1>1. StoreInv'
    BY JournalUnchangedKeeps, Zenon DEF BridgeInv, StartRecover
<1>2. ProcTypeOK'
    BY Zenon DEF BridgeInv, ProcInv, ProcTypeOK, StartRecover, RecoverPc
<1>3. RecoverSettlesListed'
    BY Zenon DEF BridgeInv, ProcInv, ProcTypeOK, RecoverSettlesListed, StartRecover, journalVars
<1>4. ASSUME NEW q \in Proc PROVE HoldsRow(q)'
    BY Zenon DEF BridgeInv, ProcInv, ProcTypeOK, HoldsRow, StartRecover, journalVars, DispatchPc
<1>5. DistinctKeys'
    BY Zenon DEF BridgeInv, ProcInv, ProcTypeOK, DistinctKeys, StartRecover, DispatchPc
<1> QED
    BY <1>1, <1>2, <1>3, <1>4, <1>5, Zenon DEF BridgeInv, ProcInv

LEMMA RecoverStepKeeps ==
    ASSUME BridgeInv, NEW p \in Proc, RecoverStep(p)
    PROVE  BridgeInv'
<1>1. ASSUME NEW k \in Key, RecoverReserved(p, k) PROVE BridgeInv'
    BY <1>1, MarkAbortedKeeps, SettledKeeps, RaiseKeeps, Zenon DEF BridgeInv, RecoverReserved
<1>2. ASSUME NEW k \in Key, RecoverRead(p, k) PROVE BridgeInv'
  <2>1. CASE Raise(p)
    BY <1>2, <2>1, RaiseKeeps, Zenon DEF RecoverRead
  <2>2. CASE /\ pc' = [pc EXCEPT ![p] = "recoverMark"]
             /\ cur' = [cur EXCEPT ![p] = k]
             /\ durable' = [durable EXCEPT ![p] = ledger[OrderId(k)]]
             /\ UNCHANGED <<seen, todo, outcome, journalVars>>
    <3>1. StoreInv' /\ RowsKept
      BY <1>2, <2>2, JournalUnchangedKeeps, Zenon DEF BridgeInv, RecoverRead
    <3>2. ProcTypeOK'
      BY <2>2, BridgeConstants, ZenonT(40) DEF BridgeInv, ProcInv, ProcTypeOK, StoreInv, StoreTypeOK, RecoverPc
    <3>3. RecoverSettlesListed'
      BY <2>2, Zenon DEF BridgeInv, ProcInv, RecoverSettlesListed, journalVars
    <3>4. ASSUME NEW q \in Proc PROVE HoldsRow(q)'
      BY <1>2, <2>2, Zenon DEF BridgeInv, ProcInv, ProcTypeOK, HoldsRow, RecoverRead, journalVars,
         DispatchPc
    <3>5. DistinctKeys'
      BY <2>2, Zenon DEF BridgeInv, ProcInv, ProcTypeOK, DistinctKeys, DispatchPc
    <3> QED
      BY <3>1, <3>2, <3>3, <3>4, <3>5, Zenon DEF BridgeInv, ProcInv
  <2> QED
    BY <1>2, <2>1, <2>2, Zenon DEF RecoverRead
<1>3. CASE RecoverMark(p)
  <2>1. cur[p] \in Key /\ (durable[p] # "NONE" => durable[p] = ledger[OrderId(cur[p])])
    BY <1>3, Zenon DEF BridgeInv, ProcInv, HoldsRow, RecoverMark
  <2> QED
    BY <1>3, <2>1, MarkCommittedKeeps, MarkUncertainKeeps, SettledKeeps, RaiseKeeps, Zenon
       DEF BridgeInv, RecoverMark
<1>4. CASE EndRecover(p)
    BY <1>4, JournalUnchangedKeeps, ReturnKeeps, Zenon DEF BridgeInv, EndRecover, Outcome
<1> QED
    BY <1>1, <1>2, <1>3, <1>4, Zenon DEF RecoverStep

LEMMA PaperLoopSubmitKeeps ==
    ASSUME BridgeInv, NEW d \in Decision, PaperLoopSubmit(d)
    PROVE  BridgeInv'
<1>1. StoreInv'
    BY BridgeConstants DEF BridgeInv, StoreInv, StoreTypeOK, OrderIdOwnership,
       AbortMeansNotSent, CommittedMatchesLedger, PaperLoopSubmit, journalVars
<1>2. ProcTypeOK' /\ RecoverSettlesListed' /\ DistinctKeys'
    BY Zenon DEF BridgeInv, ProcInv, ProcTypeOK, RecoverSettlesListed, DistinctKeys,
       PaperLoopSubmit, procVars, journalVars
<1>3. ASSUME NEW q \in Proc PROVE HoldsRow(q)'
    BY BridgeConstants DEF BridgeInv, ProcInv, ProcTypeOK, StoreInv, StoreTypeOK, HoldsRow,
       PaperLoopSubmit, procVars, journalVars
<1> QED
    BY <1>1, <1>2, <1>3, Zenon DEF BridgeInv, ProcInv

LEMMA InitBridgeInv == Init => BridgeInv
BY BridgeConstants DEF Init, BridgeInv, StoreInv, StoreTypeOK, OrderIdOwnership,
   AbortMeansNotSent, CommittedMatchesLedger, ProcInv, ProcTypeOK, RecoverSettlesListed,
   HoldsRow, DistinctKeys, Outcome, DispatchPc

LEMMA NextBridgeInv == BridgeInv /\ [Next]_vars => BridgeInv'
<1> SUFFICES ASSUME BridgeInv, [Next]_vars PROVE BridgeInv'
    OBVIOUS
<1>1. ASSUME NEW p \in Proc, DispatchStep(p) PROVE BridgeInv'
    BY <1>1, PrepareKeeps, LedgerPreflightKeeps, DispatchingKeeps, SubmitOrderKeeps,
       LedgerPostflightKeeps, FinalizeKeeps, ReconcileAfterBrokerExceptionKeeps, Zenon
       DEF DispatchStep
<1>2. ASSUME NEW p \in Proc, Crash(p) PROVE BridgeInv'
    BY <1>2, JournalUnchangedKeeps, ReturnKeeps, Zenon DEF BridgeInv, Crash, Outcome
<1>3. CASE UNCHANGED vars
    BY <1>3 DEF vars, journalVars, procVars, BridgeInv, StoreInv, StoreTypeOK,
       OrderIdOwnership, AbortMeansNotSent, CommittedMatchesLedger, ProcInv, ProcTypeOK,
       RecoverSettlesListed, HoldsRow, DistinctKeys
<1> QED
    BY <1>1, <1>2, <1>3, ReserveKeeps, StartRecoverKeeps, RecoverStepKeeps,
       PaperLoopSubmitKeeps, Zenon DEF Next

-----------------------------------------------------------------------------
(* The inductive invariant holds of every behaviour of the bridge: any      *)
(* number of dispatching and recovering processes, crashes anywhere.        *)
THEOREM BridgeInvariant == Spec => []BridgeInv
BY InitBridgeInv, NextBridgeInv, PTL DEF Spec

(* The broker is called at most once per decision, however often the        *)
(* decision fires and whatever crashes in between                           *)
(* (TriggerOrderBridge.dispatch steps 5-7).                                 *)
THEOREM BrokerCalledOnce == Spec => []AtMostOneSubmit
<1>1. BridgeInv => AtMostOneSubmit
    BY BridgeConstants DEF BridgeInv, StoreInv, StoreTypeOK, OrderIdOwnership,
       AbortMeansNotSent, AtMostOneSubmit
<1> QED
    BY <1>1, BridgeInvariant, PTL

(* A row the journal shows as never sent was never sent, and a committed    *)
(* row shows the ledger's result: what reconcile_record and the operator    *)
(* rely on when they read the journal.                                      *)
THEOREM JournalTellsTheTruth == Spec => [](AbortMeansNotSent /\ CommittedMatchesLedger)
<1>1. BridgeInv => AbortMeansNotSent /\ CommittedMatchesLedger
    BY Zenon DEF BridgeInv, StoreInv
<1> QED
    BY <1>1, BridgeInvariant, PTL

-----------------------------------------------------------------------------
(* The bridge implements FireProtocol.  Each journal update and the broker  *)
(* call is one step of the protocol; every other step leaves it alone.      *)

LEMMA AbortConcludes ==
    ASSUME StoreInv, NEW k \in Key, MarkAborted(k), UNCHANGED calls
    PROVE  Protocol!ProtocolNext
<1>1. k \notin OrderOwners
    BY BridgeConstants, Zenon DEF StoreInv, OrderIdOwnership, MarkAborted, OrderOwners
<1>2. Protocol!Conclude(k, "ABORTED")
    BY <1>1, Zenon DEF StoreInv, StoreTypeOK, MarkAborted, Protocol!Conclude, OrderOwners, Submitted, Verdict
<1> QED
    BY <1>2, Zenon DEF Protocol!ProtocolNext

LEMMA CommitConcludes ==
    ASSUME StoreInv, NEW k \in Key, NEW r, MarkCommitted(k, r), UNCHANGED calls
    PROVE  Protocol!ProtocolNext
<1>1. k \in OrderOwners
    BY BridgeConstants, Zenon DEF StoreInv, OrderIdOwnership, MarkCommitted, OrderOwners
<1>2. Protocol!Conclude(k, "COMMITTED")
    BY <1>1, Zenon DEF StoreInv, StoreTypeOK, MarkCommitted, Protocol!Conclude, OrderOwners, Submitted, Verdict
<1> QED
    BY <1>2, Zenon DEF Protocol!ProtocolNext

LEMMA UncertainConcludes ==
    ASSUME StoreInv, NEW k \in Key, MarkUncertain(k), UNCHANGED calls
    PROVE  Protocol!ProtocolNext
<1>1. k \in OrderOwners
    BY BridgeConstants, Zenon DEF StoreInv, OrderIdOwnership, MarkUncertain, OrderOwners
<1>2. Protocol!Conclude(k, "UNCERTAIN")
    BY <1>1, Zenon DEF StoreInv, StoreTypeOK, MarkUncertain, Protocol!Conclude, OrderOwners, Submitted, Verdict
<1> QED
    BY <1>2, Zenon DEF Protocol!ProtocolNext

LEMMA MarkDispatchingClaims ==
    ASSUME StoreInv, NEW k \in Key, MarkDispatching(k), UNCHANGED calls
    PROVE  Protocol!ProtocolNext
<1>1. \A j \in OrderOwners : DecisionOf[j] # DecisionOf[k]
    BY BridgeConstants, Zenon DEF StoreInv, OrderIdOwnership, MarkDispatching, OrderIdInUse, OrderOwners
<1>2. OrderOwners' = OrderOwners \cup {k}
  <2>1. DecisionOf[k] # NoOrder
    BY BridgeConstants, Zenon
  <2>2. \A j \in Key : jorder'[j] = IF j = k THEN DecisionOf[k] ELSE jorder[j]
    BY Zenon DEF StoreInv, StoreTypeOK, MarkDispatching
  <2> QED
    BY <2>1, <2>2, Zenon DEF OrderOwners
<1>3. Protocol!Claim(k)
    BY <1>1, <1>2, Zenon DEF StoreInv, StoreTypeOK, MarkDispatching, Protocol!Claim, Submitted, Verdict
<1> QED
    BY <1>3, Zenon DEF Protocol!ProtocolNext

LEMMA SubmitSends ==
    ASSUME BridgeInv, NEW p \in Proc, SubmitOrder(p)
    PROVE  Protocol!ProtocolNext
<1>1. cur[p] \in Key /\ calls[cur[p]] = 0 /\ jstate[cur[p]] \in Sent
    BY Zenon DEF BridgeInv, ProcInv, HoldsRow, SubmitOrder, DispatchPc
<1>2. cur[p] \in OrderOwners \ Submitted
    BY <1>1, BridgeConstants DEF BridgeInv, StoreInv, OrderIdOwnership, OrderOwners, Submitted
<1>3. Submitted' = Submitted \cup {cur[p]}
    BY <1>1 DEF BridgeInv, StoreInv, StoreTypeOK, SubmitOrder, Submitted
<1>4. Protocol!Send(cur[p])
    BY <1>2, <1>3, Zenon DEF SubmitOrder, journalVars, Protocol!Send, OrderOwners, Verdict
<1> QED
    BY <1>1, <1>4, Zenon DEF Protocol!ProtocolNext

LEMMA NothingConcluded ==
    ASSUME UNCHANGED <<journalVars, calls>>
    PROVE  UNCHANGED Protocol!protocolVars
BY Zenon DEF journalVars, Protocol!protocolVars, OrderOwners, Submitted, Verdict

LEMMA AbortAndReturnImplements ==
    ASSUME BridgeInv, NEW p \in Proc, cur[p] \in Key, NEW o, AbortAndReturn(p, o), UNCHANGED calls
    PROVE  [Protocol!ProtocolNext]_(Protocol!protocolVars)
BY AbortConcludes, NothingConcluded, Zenon DEF BridgeInv, AbortAndReturn, Raise

LEMMA DispatchStepImplements ==
    ASSUME BridgeInv, NEW p \in Proc, DispatchStep(p)
    PROVE  [Protocol!ProtocolNext]_(Protocol!protocolVars)
<1>1. cur[p] \in Key
    BY Zenon DEF BridgeInv, ProcInv, HoldsRow, DispatchStep, DispatchPc, Prepare, LedgerPreflight,
       Dispatching, SubmitOrder, LedgerPostflight, Finalize, ReconcileAfterBrokerException
<1>2. CASE Prepare(p)
    BY <1>1, <1>2, AbortAndReturnImplements, NothingConcluded, Zenon DEF Prepare
<1>3. CASE LedgerPreflight(p)
    BY <1>1, <1>3, AbortAndReturnImplements, NothingConcluded, Zenon DEF LedgerPreflight
<1>4. CASE Dispatching(p)
    BY <1>1, <1>4, MarkDispatchingClaims, NothingConcluded, Zenon DEF BridgeInv, Dispatching, Raise
<1>5. CASE SubmitOrder(p)
    BY <1>5, SubmitSends, Zenon
<1>6. CASE LedgerPostflight(p)
    BY <1>1, <1>6, UncertainConcludes, NothingConcluded, Zenon DEF BridgeInv, LedgerPostflight, Raise
<1>7. CASE Finalize(p)
    BY <1>1, <1>7, UncertainConcludes, CommitConcludes, NothingConcluded, Zenon
       DEF BridgeInv, Finalize, FinalizeFromDurable, Raise
<1>8. CASE ReconcileAfterBrokerException(p)
    BY <1>8, NothingConcluded, Zenon DEF ReconcileAfterBrokerException
<1> QED
    BY <1>2, <1>3, <1>4, <1>5, <1>6, <1>7, <1>8, Zenon DEF DispatchStep

LEMMA RecoverStepImplements ==
    ASSUME BridgeInv, NEW p \in Proc, RecoverStep(p)
    PROVE  [Protocol!ProtocolNext]_(Protocol!protocolVars)
<1>1. ASSUME NEW k \in Key, RecoverReserved(p, k)
      PROVE  [Protocol!ProtocolNext]_(Protocol!protocolVars)
    BY <1>1, AbortConcludes, NothingConcluded, Zenon DEF BridgeInv, RecoverReserved, Raise
<1>2. ASSUME NEW k \in Key, RecoverRead(p, k)
      PROVE  [Protocol!ProtocolNext]_(Protocol!protocolVars)
    BY <1>2, NothingConcluded, Zenon DEF RecoverRead, Raise
<1>3. CASE RecoverMark(p)
  <2>1. cur[p] \in Key
    BY <1>3, Zenon DEF BridgeInv, ProcInv, HoldsRow, RecoverMark
  <2> QED
    BY <1>3, <2>1, CommitConcludes, UncertainConcludes, NothingConcluded, Zenon
       DEF BridgeInv, RecoverMark, Raise
<1>4. CASE EndRecover(p)
    BY <1>4, NothingConcluded, Zenon DEF EndRecover
<1> QED
    BY <1>1, <1>2, <1>3, <1>4, Zenon DEF RecoverStep

LEMMA NextImplements == BridgeInv /\ [Next]_vars => [Protocol!ProtocolNext]_(Protocol!protocolVars)
<1> SUFFICES ASSUME BridgeInv, [Next]_vars PROVE [Protocol!ProtocolNext]_(Protocol!protocolVars)
    OBVIOUS
<1>1. ASSUME NEW p \in Proc, NEW k \in Key, Reserve(p, k)
      PROVE  UNCHANGED Protocol!protocolVars
  <2>1. CASE ReserveExisting(p, k)
    BY <2>1, NothingConcluded, Zenon DEF ReserveExisting
  <2>2. CASE ReserveNew(p, k)
    <3>1. UNCHANGED <<OrderOwners, Submitted>>
      BY <2>2, Zenon DEF ReserveNew, OrderOwners, Submitted
    <3>2. UNCHANGED Verdict
      BY <2>2, Zenon DEF BridgeInv, StoreInv, StoreTypeOK, ReserveNew, Verdict
    <3> QED
      BY <3>1, <3>2, Zenon DEF Protocol!protocolVars
  <2> QED
    BY <1>1, <2>1, <2>2, Zenon DEF Reserve
<1>2. ASSUME NEW p \in Proc, StartRecover(p) \/ Crash(p) PROVE UNCHANGED Protocol!protocolVars
    BY <1>2, NothingConcluded, Zenon DEF StartRecover, Crash
<1>3. ASSUME NEW d \in Decision, PaperLoopSubmit(d) PROVE UNCHANGED Protocol!protocolVars
    BY <1>3, NothingConcluded, Zenon DEF PaperLoopSubmit
<1>4. CASE UNCHANGED vars
    BY <1>4, NothingConcluded, Zenon DEF vars
<1> QED
    BY <1>1, <1>2, <1>3, <1>4, DispatchStepImplements, RecoverStepImplements, Zenon DEF Next

-----------------------------------------------------------------------------
(* No step reopens a row, and a dispatch settles the row it reserved.       *)

LEMMA NextRowForward == BridgeInv /\ [Next]_vars => RowForward
<1> SUFFICES ASSUME BridgeInv, [Next]_vars PROVE RowForward
    OBVIOUS
<1> USE DEF RowForward, BridgeInv, StoreInv, StoreTypeOK
<1>1. ASSUME UNCHANGED journalVars PROVE RowForward
    BY <1>1, Zenon DEF journalVars
<1>2. ASSUME NEW k \in Key, MarkAborted(k) PROVE RowForward
    BY <1>2, Zenon DEF MarkAborted
<1>3. ASSUME NEW k \in Key, MarkUncertain(k) PROVE RowForward
    BY <1>3, Zenon DEF MarkUncertain
<1>4. ASSUME NEW k \in Key, NEW r, MarkCommitted(k, r) PROVE RowForward
    BY <1>4, Zenon DEF MarkCommitted
<1>5. ASSUME NEW k \in Key, MarkDispatching(k) PROVE RowForward
    BY <1>5, Zenon DEF MarkDispatching
<1>6. ASSUME NEW p \in Proc, NEW k \in Key, Reserve(p, k) PROVE RowForward
    BY <1>6, <1>1, Zenon DEF Reserve, ReserveNew, ReserveExisting
<1> HIDE DEF RowForward, BridgeInv, StoreInv, StoreTypeOK
<1>7. ASSUME NEW p \in Proc, DispatchStep(p) PROVE RowForward
  <2>1. cur[p] \in Key
    BY <1>7, Zenon DEF BridgeInv, ProcInv, HoldsRow, DispatchStep, DispatchPc, Prepare, LedgerPreflight,
       Dispatching, SubmitOrder, LedgerPostflight, Finalize, ReconcileAfterBrokerException
  <2> QED
    BY <1>7, <1>1, <1>2, <1>3, <1>4, <1>5, <2>1, Zenon DEF DispatchStep, Prepare, LedgerPreflight,
       Dispatching, SubmitOrder, LedgerPostflight, Finalize, ReconcileAfterBrokerException,
       AbortAndReturn, FinalizeFromDurable, Raise
<1>8. ASSUME NEW p \in Proc, RecoverStep(p) PROVE RowForward
  <2>1. pc[p] = "recoverMark" => cur[p] \in Key
    BY Zenon DEF BridgeInv, ProcInv, HoldsRow
  <2> QED
    BY <1>8, <1>1, <1>2, <1>3, <1>4, <2>1, Zenon DEF RecoverStep, RecoverReserved, RecoverRead,
       RecoverMark, EndRecover, Raise
<1>9. ASSUME NEW p \in Proc, StartRecover(p) \/ Crash(p) PROVE RowForward
    BY <1>9, <1>1, Zenon DEF StartRecover, Crash
<1>10. ASSUME NEW d \in Decision, PaperLoopSubmit(d) PROVE RowForward
    BY <1>10, <1>1, Zenon DEF PaperLoopSubmit
<1> QED
    BY <1>1, <1>6, <1>7, <1>8, <1>9, <1>10, Zenon DEF Next, vars

(* Only the step of p itself takes p out of dispatch.                       *)
LEMMA NextSettlesRow == BridgeInv /\ [Next]_vars => DispatchSettlesRow
<1> SUFFICES ASSUME BridgeInv, [Next]_vars, NEW p \in Proc, pc[p] \in DispatchPc, pc'[p] = "idle",
                    outcome'[p] # "CRASHED"
             PROVE  \/ jstate'[cur[p]] \in Terminal
                    \/ \E k \in Key \ {cur[p]} : jorder[k] = OrderId(cur[p])
    BY Zenon DEF DispatchSettlesRow
<1>1. /\ pc \in [Proc -> {"idle"} \cup DispatchPc \cup RecoverPc]
      /\ outcome \in [Proc -> Outcome] /\ jstate \in [Key -> JournalState]
      /\ cur[p] \in Key /\ pc[p] # "idle" /\ pc[p] \notin RecoverPc
    BY Zenon DEF BridgeInv, ProcInv, ProcTypeOK, StoreInv, StoreTypeOK, HoldsRow, DispatchPc, RecoverPc
<1>2. ASSUME NEW q \in Proc, q # p, pc' = [pc EXCEPT ![q] = pc'[q]] PROVE FALSE
    BY <1>1, <1>2, Zenon
<1>3. DispatchStep(p)
  <2>1. ASSUME NEW q \in Proc, NEW k \in Key, Reserve(q, k) PROVE FALSE
    BY <1>1, <2>1, Zenon DEF Reserve, ReserveNew, ReserveExisting, Return
  <2>2. ASSUME NEW q \in Proc, q # p, DispatchStep(q) PROVE FALSE
    BY <1>1, <2>2, Zenon DEF DispatchStep, Prepare, LedgerPreflight, Dispatching, SubmitOrder,
       LedgerPostflight, Finalize, ReconcileAfterBrokerException, AbortAndReturn,
       FinalizeFromDurable, Raise, Return, Goto
  <2>3. ASSUME NEW q \in Proc, StartRecover(q) \/ Crash(q) PROVE FALSE
    BY <1>1, <2>3, Zenon DEF StartRecover, Crash, Return
  <2>4. ASSUME NEW q \in Proc, RecoverStep(q) PROVE FALSE
    BY <1>1, <2>4, Zenon DEF RecoverStep, RecoverReserved, RecoverRead, RecoverMark, EndRecover,
       Settled, Raise, Return, RecoverPc
  <2>5. ASSUME NEW d \in Decision, PaperLoopSubmit(d) PROVE FALSE
    BY <1>1, <2>5, Zenon DEF PaperLoopSubmit, procVars
  <2>6. ASSUME UNCHANGED vars PROVE FALSE
    BY <1>1, <2>6, Zenon DEF vars, procVars
  <2> QED
    BY <2>1, <2>2, <2>3, <2>4, <2>5, <2>6, Zenon DEF Next
<1>4. /\ ~ SubmitOrder(p) /\ ~ ReconcileAfterBrokerException(p)
      /\ \A l \in DispatchPc : ~ Goto(p, l)
    BY <1>1, Zenon DEF SubmitOrder, ReconcileAfterBrokerException, Goto, DispatchPc
<1>5. CASE Prepare(p) \/ LedgerPreflight(p)
  <2>1. jstate[cur[p]] \in {"RESERVED", "ABORTED"}
    BY <1>5, Zenon DEF BridgeInv, ProcInv, HoldsRow, Prepare, LedgerPreflight
  <2>2. PICK o \in Outcome : AbortAndReturn(p, o)
    BY <1>4, <1>5, Zenon DEF Prepare, LedgerPreflight, DispatchPc, Outcome
  <2> QED
    BY <1>1, <2>1, <2>2, Zenon DEF AbortAndReturn, MarkAborted, Raise, journalVars
<1>6. CASE Dispatching(p)
  <2>1. jstate[cur[p]] \in {"RESERVED", "ABORTED"}
    BY <1>6, Zenon DEF BridgeInv, ProcInv, HoldsRow, Dispatching
  <2>2. /\ jstate[cur[p]] # "RESERVED" \/ OrderIdInUse(OrderId(cur[p]))
        /\ Raise(p)
    BY <1>4, <1>6, Zenon DEF Dispatching, DispatchPc
  <2>3. CASE jstate[cur[p]] # "RESERVED"
    BY <1>1, <2>1, <2>2, <2>3, Zenon DEF Raise, journalVars
  <2>4. CASE jstate[cur[p]] = "RESERVED"
    <3>1. jorder[cur[p]] = NoOrder
      BY <1>1, <2>4, Zenon DEF BridgeInv, StoreInv, OrderIdOwnership
    <3> QED
      BY <1>1, <2>2, <2>4, <3>1, BridgeConstants, Zenon DEF OrderIdInUse
  <2> QED
    BY <2>3, <2>4, Zenon
<1>7. CASE LedgerPostflight(p) \/ Finalize(p)
  <2>1. jstate[cur[p]] \in {"DISPATCHING", "COMMITTED", "UNCERTAIN"}
    BY <1>7, Zenon DEF BridgeInv, ProcInv, HoldsRow, LedgerPostflight, Finalize
  <2>2. \/ MarkUncertain(cur[p])
        \/ MarkCommitted(cur[p], durable[p])
        \/ jstate[cur[p]] # "DISPATCHING" /\ Raise(p)
    BY <1>4, <1>7, Zenon DEF LedgerPostflight, Finalize, FinalizeFromDurable, DispatchPc
  <2> QED
    BY <1>1, <2>1, <2>2, Zenon DEF MarkUncertain, MarkCommitted, Raise, journalVars
<1> QED
    BY <1>3, <1>4, <1>5, <1>6, <1>7, Zenon DEF DispatchStep

(* The bridge implements the fire protocol, no step reopens a row, and a    *)
(* dispatch that comes back leaves its row settled or owned by another fire *)
(* (TriggerOrderBridge.dispatch, reconcile_all, the journal's updates).     *)
THEOREM BridgeImplementsProtocol == Spec => RowsSettleForward
<1>1. Init => Protocol!ProtocolInit
    BY DEF Init, Protocol!ProtocolInit, OrderOwners, Submitted, Verdict
<1> QED
    BY <1>1, BridgeInvariant, NextImplements, NextRowForward, NextSettlesRow, PTL
       DEF Spec, RowsSettleForward, Protocol!ProtocolSpec

-----------------------------------------------------------------------------
(* What the caller of dispatch and reconcile_all may rely on: a dispatch    *)
(* touches no row but its own, comes back with its row settled or by an     *)
(* exception, and calls the broker in one place.                            *)
LEMMA DispatchStepFrame ==
    ASSUME BridgeInv, NEW p \in Proc, DispatchStep(p)
    PROVE  /\ pc[p] \in DispatchPc /\ cur[p] \in Key
           /\ \A k \in Key \ {cur[p]} : jstate'[k] = jstate[k]
           /\ \/ pc'[p] \in DispatchPc /\ cur'[p] = cur[p]
              \/ /\ pc'[p] = "idle"
                 /\ outcome'[p] = "RAISED" \/ jstate'[cur[p]] \in Terminal
           /\ pc[p] # "submit" => calls' = calls
<1>1. pc[p] \in DispatchPc
    BY Zenon DEF DispatchStep, Prepare, LedgerPreflight, Dispatching, SubmitOrder,
       LedgerPostflight, Finalize, ReconcileAfterBrokerException, DispatchPc
<1>2. /\ pc \in [Proc -> {"idle"} \cup DispatchPc \cup RecoverPc]
      /\ cur \in [Proc -> Key \cup {NoKey}] /\ outcome \in [Proc -> Outcome]
      /\ jstate \in [Key -> JournalState] /\ cur[p] \in Key
    BY <1>1, Zenon DEF BridgeInv, ProcInv, ProcTypeOK, StoreInv, StoreTypeOK, HoldsRow
<1>3. ASSUME NEW l, Goto(p, l) PROVE pc'[p] = l /\ cur'[p] = cur[p]
    BY <1>2, <1>3, Zenon DEF Goto
<1>4. ASSUME NEW o, Return(p, o) PROVE pc'[p] = "idle" /\ outcome'[p] = o
    BY <1>2, <1>4, Zenon DEF Return
<1>5. ASSUME NEW o, AbortAndReturn(p, o)
      PROVE  /\ \A k \in Key \ {cur[p]} : jstate'[k] = jstate[k]
             /\ pc'[p] = "idle"
             /\ outcome'[p] = "RAISED" \/ jstate'[cur[p]] \in Terminal
    BY <1>2, <1>4, <1>5, Zenon DEF AbortAndReturn, MarkAborted, Raise, journalVars
<1>6. CASE Prepare(p) \/ LedgerPreflight(p)
    BY <1>1, <1>2, <1>3, <1>5, <1>6, Zenon DEF Prepare, LedgerPreflight, journalVars, DispatchPc
<1>7. CASE Dispatching(p)
    BY <1>1, <1>2, <1>3, <1>4, <1>7, Zenon DEF Dispatching, MarkDispatching, Raise, journalVars, DispatchPc
<1>8. CASE SubmitOrder(p) \/ ReconcileAfterBrokerException(p)
    BY <1>1, <1>2, <1>3, <1>8, Zenon DEF SubmitOrder, ReconcileAfterBrokerException, journalVars, DispatchPc
<1>9. CASE LedgerPostflight(p) \/ Finalize(p)
    BY <1>1, <1>2, <1>3, <1>4, <1>9, Zenon DEF LedgerPostflight, Finalize, FinalizeFromDurable,
       MarkUncertain, MarkCommitted, Raise, journalVars, DispatchPc
<1> QED
    BY <1>6, <1>7, <1>8, <1>9, Zenon DEF DispatchStep

LEMMA RecoverStepFrame ==
    ASSUME BridgeInv, NEW p \in Proc, RecoverStep(p)
    PROVE  pc'[p] \in RecoverPc \cup {"idle"} /\ calls' = calls
<1>1. pc \in [Proc -> {"idle"} \cup DispatchPc \cup RecoverPc]
    BY Zenon DEF BridgeInv, ProcInv, ProcTypeOK
<1> QED
    BY <1>1, Zenon DEF RecoverStep, RecoverReserved, RecoverRead, RecoverMark, EndRecover,
       Settled, Raise, Return, RecoverPc
=============================================================================
