-------------------------- MODULE TriggerOrderBridge --------------------------
(***************************************************************************)
(* The fire -> order boundary (src/execution/trigger_order_bridge.py): one  *)
(* fired trigger signal becomes at most one broker order.  The bridge runs  *)
(*   reserve -> generate -> resolve -> ledger preflight -> mark_dispatching *)
(*           -> broker.submit_order -> ledger postflight -> finalize        *)
(* over two durable stores that share no transaction: the fire journal      *)
(* (src/execution/sqlite_trigger_journal.py) and the ledger the paper       *)
(* broker writes (src/broker/paper_broker.py, src/ledger/sqlite_ledger.py). *)
(* A process may die between any two steps; reconcile_all settles what it   *)
(* left behind.  Several processes may share the two databases.             *)
(*                                                                          *)
(* A key is a signal's idempotency_key; it determines the decision.  An     *)
(* order id is the injective string "order-" + decision id, so the decision *)
(* stands for it.  `now` is the caller's clock, one value per call; the     *)
(* journal's timestamp columns are not kept.                                *)
(***************************************************************************)
EXTENDS Naturals

CONSTANTS
    Proc,         \* processes (or threads) that share the two databases
    Key,          \* idempotency keys a TriggerEngine can produce
    Decision,     \* decision ids, standing for the order ids made of them
    DecisionOf,   \* the decision a key was hashed from
    NoKey, NoOrder

ASSUME BridgeConstants ==
    /\ DecisionOf \in [Key -> Decision]
    /\ NoKey \notin Key
    /\ NoOrder \notin Decision

VARIABLES
    jstate,    \* journal row state per key; "NONE" when there is no row
    jorder,    \* journal order_id column (UNIQUE); NoOrder is NULL
    jresult,   \* journal result_status column
    ledger,    \* order_results.status per order id; "NONE" when there is no row
    pc,        \* where each process stands
    cur,       \* the key a process is dispatching or reconciling
    durable,   \* the order result a process last read from the ledger
    seen,      \* the rows list_nonterminal returned to a process
    todo,      \* those it has not settled yet
    outcome,   \* what the last dispatch or reconcile_all of a process returned
    calls      \* history: broker.submit_order calls made under a key

journalVars == <<jstate, jorder, jresult>>
procVars    == <<pc, cur, durable, seen, todo, outcome>>
vars        == <<journalVars, ledger, procVars, calls>>

Terminal    == {"COMMITTED", "ABORTED", "UNCERTAIN"}
NonTerminal == {"RESERVED", "DISPATCHING"}
JournalState == {"NONE"} \cup NonTerminal \cup Terminal

OrderStatus == {"FILLED", "REJECTED"}       \* _TERMINAL_RESULT_MAP
Durable     == {"NONE"} \cup OrderStatus

DispatchPc == {"prepare", "preflight", "mark", "submit", "exception",
               "postflight", "finalize"}
RecoverPc  == {"recover", "recoverMark"}
Outcome    == {"none", "COMMITTED", "ABORTED", "UNCERTAIN", "SKIPPED_TERMINAL",
               "RECONCILE_REQUIRED", "RECOVERED", "RAISED", "CRASHED"}

StoreTypeOK ==
    /\ jstate \in [Key -> JournalState]
    /\ jorder \in [Key -> Decision \cup {NoOrder}]
    /\ jresult \in [Key -> Durable]
    /\ ledger \in [Decision -> Durable]
    /\ calls \in [Key -> Nat]

ProcTypeOK ==
    /\ pc \in [Proc -> {"idle"} \cup DispatchPc \cup RecoverPc]
    /\ cur \in [Proc -> Key \cup {NoKey}]
    /\ durable \in [Proc -> Durable]
    /\ seen \in [Proc -> [Key -> {"NONE"} \cup NonTerminal]]
    /\ todo \in [Proc -> SUBSET Key]
    /\ outcome \in [Proc -> Outcome]

(* The journal, the ledger and the locals of every process are well typed.  *)
TypeOK == StoreTypeOK /\ ProcTypeOK

OrderId(k) == DecisionOf[k]

Init ==
    /\ jstate = [k \in Key |-> "NONE"]
    /\ jorder = [k \in Key |-> NoOrder]
    /\ jresult = [k \in Key |-> "NONE"]
    /\ ledger = [d \in Decision |-> "NONE"]
    /\ pc = [p \in Proc |-> "idle"]
    /\ cur = [p \in Proc |-> NoKey]
    /\ durable = [p \in Proc |-> "NONE"]
    /\ seen = [p \in Proc |-> [k \in Key |-> "NONE"]]
    /\ todo = [p \in Proc |-> {}]
    /\ outcome = [p \in Proc |-> "none"]
    /\ calls = [k \in Key |-> 0]

-----------------------------------------------------------------------------
(* Journal updates.  Each is one compare-and-set transaction.               *)

MarkAborted(k) ==
    /\ jstate[k] = "RESERVED"
    /\ jstate' = [jstate EXCEPT ![k] = "ABORTED"]
    /\ UNCHANGED <<jorder, jresult>>

(* Mutant: an unguarded UPDATE.                                             *)
MarkCommittedUnguarded(k, r) ==
    /\ jstate[k] # "NONE"
    /\ jstate' = [jstate EXCEPT ![k] = "COMMITTED"]
    /\ jresult' = [jresult EXCEPT ![k] = r]
    /\ UNCHANGED jorder

MarkCommitted(k, r) ==
    /\ jstate[k] = "DISPATCHING"
    /\ jstate' = [jstate EXCEPT ![k] = "COMMITTED"]
    /\ jresult' = [jresult EXCEPT ![k] = r]
    /\ UNCHANGED jorder

MarkUncertain(k) ==
    /\ jstate[k] = "DISPATCHING"
    /\ jstate' = [jstate EXCEPT ![k] = "UNCERTAIN"]
    /\ UNCHANGED <<jorder, jresult>>

OrderIdInUse(o) == \E k \in Key : jorder[k] = o

(* Mutants: no UNIQUE constraint; no check of the row's state.              *)
MarkDispatchingShared(k) ==
    /\ jstate[k] = "RESERVED"
    /\ jstate' = [jstate EXCEPT ![k] = "DISPATCHING"]
    /\ jorder' = [jorder EXCEPT ![k] = OrderId(k)]
    /\ UNCHANGED jresult

MarkDispatchingUnguarded(k) ==
    /\ ~OrderIdInUse(OrderId(k))
    /\ jstate' = [jstate EXCEPT ![k] = "DISPATCHING"]
    /\ jorder' = [jorder EXCEPT ![k] = OrderId(k)]
    /\ UNCHANGED jresult

MarkDispatching(k) ==
    /\ jstate[k] = "RESERVED"
    /\ ~OrderIdInUse(OrderId(k))
    /\ jstate' = [jstate EXCEPT ![k] = "DISPATCHING"]
    /\ jorder' = [jorder EXCEPT ![k] = OrderId(k)]
    /\ UNCHANGED jresult

(* A process leaves dispatch or reconcile_all with result o.                *)
Return(p, o) ==
    /\ pc' = [pc EXCEPT ![p] = "idle"]
    /\ cur' = [cur EXCEPT ![p] = NoKey]
    /\ durable' = [durable EXCEPT ![p] = "NONE"]
    /\ seen' = [seen EXCEPT ![p] = [k \in Key |-> "NONE"]]
    /\ todo' = [todo EXCEPT ![p] = {}]
    /\ outcome' = [outcome EXCEPT ![p] = o]

(* Advance p to the next line of dispatch, keeping its locals.              *)
Goto(p, l) ==
    /\ pc' = [pc EXCEPT ![p] = l]
    /\ UNCHANGED <<cur, seen, todo, outcome>>

(* An exception leaves the bridge without touching either store.            *)
Raise(p) == Return(p, "RAISED") /\ UNCHANGED journalVars

(* mark_aborted then return or raise (o); the CAS itself may be refused.    *)
AbortAndReturn(p, o) ==
    \/ MarkAborted(cur[p]) /\ Return(p, o)
    \/ jstate[cur[p]] # "RESERVED" /\ Raise(p)

-----------------------------------------------------------------------------
(* dispatch                                                                 *)

(* 1) reserve: INSERT, or the outcome of the row already there.             *)
ReserveNew(p, k) ==
    /\ pc[p] = "idle"
    /\ jstate[k] = "NONE"
    /\ jstate' = [jstate EXCEPT ![k] = "RESERVED"]
    /\ cur' = [cur EXCEPT ![p] = k]
    /\ pc' = [pc EXCEPT ![p] = "prepare"]
    /\ UNCHANGED <<jorder, jresult, ledger, durable, seen, todo, outcome, calls>>

ReserveExisting(p, k) ==
    /\ pc[p] = "idle"
    /\ \/ jstate[k] \in Terminal /\ Return(p, "SKIPPED_TERMINAL")
       \/ jstate[k] \in NonTerminal /\ Return(p, "RECONCILE_REQUIRED")
    /\ UNCHANGED <<journalVars, ledger, calls>>

Reserve(p, k) == ReserveNew(p, k) \/ ReserveExisting(p, k)

(* 2-4) generate, resolve and the coherence check of the executable intent. *)
(* They read no journal or ledger row; they succeed, decline the order      *)
(* (BLOCKED, NOOP, FAILED) or raise.                                        *)
Prepare(p) ==
    /\ pc[p] = "prepare"
    /\ \/ Goto(p, "preflight") /\ UNCHANGED <<durable, journalVars>>
       \/ AbortAndReturn(p, "ABORTED")
       \/ AbortAndReturn(p, "RAISED")
    /\ UNCHANGED <<ledger, calls>>

(* 5) ledger preflight.                                                     *)
LedgerPreflight(p) ==
    /\ pc[p] = "preflight"
    /\ \/ /\ Goto(p, "mark")
          /\ durable' = [durable EXCEPT ![p] = ledger[OrderId(cur[p])]]
          /\ UNCHANGED journalVars
       \/ AbortAndReturn(p, "RAISED")
    /\ UNCHANGED <<ledger, calls>>

(* 5-6) mark_dispatching, then the broker, or straight to finalize when the *)
(* preflight found a durable result.  IllegalTransitionError and            *)
(* OrderIdConflictError both leave dispatch unhandled.                      *)
Dispatching(p) ==
    /\ pc[p] = "mark"
    /\ \/ /\ MarkDispatching(cur[p])
          /\ Goto(p, IF durable[p] = "NONE" THEN "submit" ELSE "finalize")
          /\ UNCHANGED durable
       \/ /\ jstate[cur[p]] # "RESERVED" \/ OrderIdInUse(OrderId(cur[p]))
          /\ Raise(p)
    /\ UNCHANGED <<ledger, calls>>

(* 7) broker.submit_order.  An order id the ledger already holds is answered *)
(* from memory; otherwise the result (and, for FILLED, the fill, cash and    *)
(* position) is one ledger transaction.  The call may raise before or after  *)
(* that commit.                                                              *)
SubmitOrder(p) ==
    LET d == OrderId(cur[p]) IN
    /\ pc[p] = "submit"
    /\ calls' = [calls EXCEPT ![cur[p]] = @ + 1]
    /\ \/ ledger[d] # "NONE" /\ UNCHANGED ledger /\ Goto(p, "postflight")
       \/ /\ ledger[d] = "NONE"
          /\ \E r \in OrderStatus : ledger' = [ledger EXCEPT ![d] = r]
          /\ Goto(p, "postflight") \/ Goto(p, "exception")
       \/ UNCHANGED ledger /\ Goto(p, "exception")
    /\ UNCHANGED <<journalVars, durable>>

(* 8) ledger postflight.                                                    *)
LedgerPostflight(p) ==
    /\ pc[p] = "postflight"
    /\ \/ /\ Goto(p, "finalize")
          /\ durable' = [durable EXCEPT ![p] = ledger[OrderId(cur[p])]]
          /\ UNCHANGED journalVars
       \/ MarkUncertain(cur[p]) /\ Return(p, "UNCERTAIN")
       \/ jstate[cur[p]] # "DISPATCHING" /\ Raise(p)
    /\ UNCHANGED <<ledger, calls>>

(* _finalize_from_durable on the value read, which another process may have *)
(* made stale.                                                              *)
FinalizeFromDurable(p) ==
    /\ \/ durable[p] = "NONE" /\ MarkUncertain(cur[p]) /\ Return(p, "UNCERTAIN")
       \/ /\ durable[p] # "NONE"
          /\ MarkCommitted(cur[p], durable[p])
          /\ Return(p, "COMMITTED")
       \/ jstate[cur[p]] # "DISPATCHING" /\ Raise(p)
    /\ UNCHANGED <<ledger, calls>>

Finalize(p) == pc[p] = "finalize" /\ FinalizeFromDurable(p)

(* Mutant: wait for the order to show up in the ledger.                     *)
ReconcileByWaiting(p) ==
    /\ pc[p] = "exception"
    /\ ledger[OrderId(cur[p])] # "NONE"
    /\ Goto(p, "finalize")
    /\ durable' = [durable EXCEPT ![p] = ledger[OrderId(cur[p])]]
    /\ UNCHANGED <<journalVars, ledger, calls>>

(* _reconcile_after_broker_exception: re-read the ledger (a failed re-read  *)
(* counts as no result) and settle the row by what it says.                 *)
ReconcileAfterBrokerException(p) ==
    /\ pc[p] = "exception"
    /\ Goto(p, "finalize")
    /\ \E r \in {"NONE", ledger[OrderId(cur[p])]} :
          durable' = [durable EXCEPT ![p] = r]
    /\ UNCHANGED <<journalVars, ledger, calls>>

-----------------------------------------------------------------------------
(* recover: reconcile_all                                                   *)

(* list_nonterminal is read once; the rows are settled one by one after.    *)
StartRecover(p) ==
    /\ pc[p] = "idle"
    /\ pc' = [pc EXCEPT ![p] = "recover"]
    /\ seen' = [seen EXCEPT ![p] =
                  [k \in Key |-> IF jstate[k] \in NonTerminal THEN jstate[k] ELSE "NONE"]]
    /\ todo' = [todo EXCEPT ![p] = {k \in Key : jstate[k] \in NonTerminal}]
    /\ UNCHANGED <<journalVars, ledger, cur, durable, outcome, calls>>

Settled(p, k) ==
    /\ pc' = [pc EXCEPT ![p] = "recover"]
    /\ cur' = [cur EXCEPT ![p] = NoKey]
    /\ durable' = [durable EXCEPT ![p] = "NONE"]
    /\ todo' = [todo EXCEPT ![p] = @ \ {k}]
    /\ UNCHANGED <<seen, outcome>>

(* A row listed as RESERVED: its order was never sent, so abort it.         *)
RecoverReserved(p, k) ==
    /\ pc[p] = "recover"
    /\ k \in todo[p]
    /\ seen[p][k] = "RESERVED"
    /\ \/ MarkAborted(k) /\ Settled(p, k)
       \/ jstate[k] # "RESERVED" /\ Raise(p)
    /\ UNCHANGED <<ledger, calls>>

(* A row listed as DISPATCHING: read the ledger, or fail doing so ...       *)
RecoverRead(p, k) ==
    /\ pc[p] = "recover"
    /\ k \in todo[p]
    /\ seen[p][k] = "DISPATCHING"
    /\ \/ /\ pc' = [pc EXCEPT ![p] = "recoverMark"]
          /\ cur' = [cur EXCEPT ![p] = k]
          /\ durable' = [durable EXCEPT ![p] = ledger[OrderId(k)]]
          /\ UNCHANGED <<seen, todo, outcome, journalVars>>
       \/ Raise(p)
    /\ UNCHANGED <<ledger, calls>>

(* ... and commit a durable result, or stop the row as UNCERTAIN.           *)
RecoverMark(p) ==
    /\ pc[p] = "recoverMark"
    /\ \/ durable[p] # "NONE" /\ MarkCommitted(cur[p], durable[p]) /\ Settled(p, cur[p])
       \/ durable[p] = "NONE" /\ MarkUncertain(cur[p]) /\ Settled(p, cur[p])
       \/ jstate[cur[p]] # "DISPATCHING" /\ Raise(p)
    /\ UNCHANGED <<ledger, calls>>

EndRecover(p) ==
    /\ pc[p] = "recover"
    /\ todo[p] = {}
    /\ Return(p, "RECOVERED")
    /\ UNCHANGED <<journalVars, ledger, calls>>

-----------------------------------------------------------------------------
(* The process dies, or a journal write itself fails: locals are lost, both *)
(* databases stay as they are.                                              *)
Crash(p) ==
    /\ pc[p] # "idle"
    /\ Return(p, "CRASHED")
    /\ UNCHANGED <<journalVars, ledger, calls>>

(* The one-shot paper loop (src/paper_loop/runner.py) submits the same      *)
(* "order-<decision>" id to a broker over the same ledger, with no journal. *)
PaperLoopSubmit(d) ==
    /\ ledger[d] = "NONE"
    /\ \E r \in OrderStatus : ledger' = [ledger EXCEPT ![d] = r]
    /\ UNCHANGED <<journalVars, procVars, calls>>

DispatchStep(p) ==
    \/ Prepare(p) \/ LedgerPreflight(p) \/ Dispatching(p) \/ SubmitOrder(p)
    \/ LedgerPostflight(p) \/ Finalize(p) \/ ReconcileAfterBrokerException(p)

RecoverStep(p) ==
    \/ \E k \in Key : RecoverReserved(p, k) \/ RecoverRead(p, k)
    \/ RecoverMark(p) \/ EndRecover(p)

Next ==
    \/ \E p \in Proc :
          \/ \E k \in Key : Reserve(p, k)
          \/ DispatchStep(p)
          \/ StartRecover(p)
          \/ RecoverStep(p)
          \/ Crash(p)
    \/ \E d \in Decision : PaperLoopSubmit(d)

Spec == Init /\ [][Next]_vars

(* dispatch and reconcile_all are straight-line synchronous code: once      *)
(* called, a process that does not die keeps executing them.                *)
FairSpec == Spec /\ \A p \in Proc : WF_vars(DispatchStep(p) \/ RecoverStep(p))

-----------------------------------------------------------------------------
(* An order id belongs to at most one journal row, and exactly the rows that *)
(* passed mark_dispatching own one (the UNIQUE column, trigger_order_bridge  *)
(* steps 5-6).                                                               *)
OrderIdOwnership ==
    /\ \A k \in Key : jorder[k] = IF jstate[k] \in {"DISPATCHING", "COMMITTED", "UNCERTAIN"}
                                  THEN OrderId(k) ELSE NoOrder
    /\ \A k1, k2 \in Key : jorder[k1] = jorder[k2] /\ jorder[k1] # NoOrder => k1 = k2

(* Across all processes, keys, crashes and recoveries the bridge calls the  *)
(* broker at most once per decision: a retry of a fire never re-submits.    *)
AtMostOneSubmit ==
    \A k1, k2 \in Key :
        calls[k1] > 0 /\ calls[k2] > 0 /\ OrderId(k1) = OrderId(k2)
            => k1 = k2 /\ calls[k1] = 1

(* A row that reads as "order never sent" (RESERVED or ABORTED) really sent *)
(* none: reconcile_record may abort RESERVED rows without asking the ledger.*)
AbortMeansNotSent ==
    \A k \in Key : jstate[k] \in {"NONE", "RESERVED", "ABORTED"} => calls[k] = 0

(* A COMMITTED row carries the ledger's durable result, never the broker's  *)
(* return value: the journal does not claim a fill the ledger lacks.        *)
CommittedMatchesLedger ==
    \A k \in Key : jstate[k] = "COMMITTED" =>
        jresult[k] # "NONE" /\ jresult[k] = ledger[OrderId(k)]

(* Every row reconcile_all listed and has gone past is settled, even when   *)
(* dispatchers run beside it: the list it works from may be stale.          *)
RecoverSettlesListed ==
    \A p \in Proc, k \in Key :
        seen[p][k] # "NONE" /\ k \notin todo[p] => jstate[k] \in Terminal

(* A process inside dispatch works on a row it reserved itself and nobody   *)
(* else dispatches; a result it read from the ledger is still what the      *)
(* ledger says.                                                             *)
HoldsRow(p) ==
    /\ pc[p] \in {"idle", "recover"} => cur[p] = NoKey
    /\ pc[p] \in DispatchPc \cup {"recoverMark"} => cur[p] \in Key
    /\ pc[p] \in {"prepare", "preflight", "mark"} =>
          jstate[cur[p]] \in {"RESERVED", "ABORTED"}
    /\ pc[p] \in {"submit", "exception", "postflight", "finalize"} =>
          jstate[cur[p]] \in {"DISPATCHING", "COMMITTED", "UNCERTAIN"}
    /\ pc[p] = "submit" => calls[cur[p]] = 0
    /\ durable[p] # "NONE" => cur[p] \in Key /\ durable[p] = ledger[OrderId(cur[p])]

DistinctKeys ==
    \A p, q \in Proc :
        pc[p] \in DispatchPc /\ pc[q] \in DispatchPc /\ cur[p] = cur[q] => p = q

(* The inductive invariant: what holds of the two databases, and what the   *)
(* processes hold while they are between two durable steps.                 *)
StoreInv ==
    /\ StoreTypeOK
    /\ OrderIdOwnership
    /\ AbortMeansNotSent
    /\ CommittedMatchesLedger
    /\ \A k \in Key : calls[k] <= 1

ProcInv ==
    /\ ProcTypeOK
    /\ RecoverSettlesListed
    /\ \A p \in Proc : HoldsRow(p)
    /\ DistinctKeys

BridgeInv == StoreInv /\ ProcInv

(* A journal row never leaves a terminal state and never moves backwards:   *)
(* no interleaving of dispatchers and recoveries reopens a settled fire.    *)
RowForward ==
    \A k \in Key :
        /\ jstate[k] \in Terminal => jstate'[k] = jstate[k] /\ jresult'[k] = jresult[k]
        /\ jstate[k] = "DISPATCHING" => jstate'[k] \in {"DISPATCHING", "COMMITTED", "UNCERTAIN"}
        /\ jstate[k] = "RESERVED" => jstate'[k] # "NONE"

(* A dispatch that returns or raises leaves its row settled, except when    *)
(* another row already owns the order id (OrderIdConflictError).            *)
DispatchSettlesRow ==
    \A p \in Proc :
        pc[p] \in DispatchPc /\ pc'[p] = "idle" /\ outcome'[p] # "CRASHED"
            => \/ jstate'[cur[p]] \in Terminal
               \/ \E k \in Key \ {cur[p]} : jorder[k] = OrderId(cur[p])

(* The bridge as its promise: a row that has its order id owns the order, a  *)
(* broker call sends it, a terminal state is the verdict.                    *)
OrderOwners == {k \in Key : jorder[k] # NoOrder}
Submitted == {k \in Key : calls[k] > 0}
Verdict == [k \in Key |-> IF jstate[k] \in Terminal THEN jstate[k] ELSE "OPEN"]

Protocol == INSTANCE FireProtocol WITH
        owners <- OrderOwners, sent <- Submitted, verdict <- Verdict

(* The bridge implements the fire protocol: crashes, stale reads and         *)
(* concurrent recoveries never make a second fire of a decision the owner,   *)
(* send an order twice or change a verdict.  No row moves backwards, and a   *)
(* dispatch that comes back leaves its row settled or owned by another fire  *)
(* (the journal's compare-and-set updates, dispatch).                        *)
RowsSettleForward == Protocol!ProtocolSpec /\ [][RowForward /\ DispatchSettlesRow]_vars

(* Every call comes back: no process waits on another inside dispatch or    *)
(* reconcile_all.                                                           *)
CallReturns == \A p \in Proc : pc[p] # "idle" ~> pc[p] = "idle"
=============================================================================
