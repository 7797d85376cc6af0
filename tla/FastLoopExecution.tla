-------------------------- MODULE FastLoopExecution --------------------------
(***************************************************************************)
(* One fast-loop process for one symbol: the orchestrator                   *)
(* (src/orchestration/fast_loop_execution.py) hands every applied market    *)
(* update, with the active decision it reads from the decision store, to    *)
(* the coordinator (src/execution/paper_execution_coordinator.py), which    *)
(* drives the trigger engine and, when it fires, the bridge.  The engine    *)
(* and the orchestrator's stop flags live in memory and are lost with the   *)
(* process; the decision store, the journal and the ledger survive it.      *)
(***************************************************************************)
EXTENDS Naturals, TLAPS

CONSTANTS
    Decision, PlanId,
    Bundles,        \* bundles the slow loop may publish
    MaxEpoch,       \* bound on activation epochs in one life
    StartupCheck,   \* the attended paper day refuses to start over open rows
    p,              \* the process
    NoBundle, NoPlan, NoTime, NoKey, NoOrder

VARIABLES
    mode,        \* "down", "up" or "recovering"
    pointer,     \* the bundle ActiveDecisionStore.read_active returns
    engine,      \* TriggerEngine
    terminal,    \* _global_terminal
    halted,      \* the symbol is in _halted_symbols
    doubt,       \* history: a row became UNCERTAIN in this life
    jstate, jorder, jresult, ledger, pc, cur, durable, seen, todo, outcome, calls

E == INSTANCE TriggerEngine

FireKey == Decision \X PlanId \X (1..MaxEpoch)

B == INSTANCE TriggerOrderBridgeProofs WITH
        Proc <- {p}, Key <- FireKey, DecisionOf <- [k \in FireKey |-> k[1]]

bridgeVars == <<jstate, jorder, jresult, ledger, pc, cur, durable, seen, todo,
                outcome, calls>>
memory == <<engine, terminal, halted, doubt>>
vars == <<mode, pointer, memory, bridgeVars>>

(* The flags and the pointer are well typed, the engine is consistent, and   *)
(* the bridge's invariant survives being driven by an engine that forgets.   *)
FastLoopInv ==
    /\ mode \in {"down", "up", "recovering"}
    /\ pointer \in Bundles \cup {NoBundle}
    /\ E!Consistent(engine) /\ engine.epoch <= MaxEpoch
    /\ terminal \in BOOLEAN /\ halted \in BOOLEAN /\ doubt \in BOOLEAN
    /\ B!BridgeInv

Init ==
    /\ mode = "down"
    /\ pointer = NoBundle
    /\ engine = E!NewEngine
    /\ terminal = FALSE /\ halted = FALSE /\ doubt = FALSE
    /\ B!Init

-----------------------------------------------------------------------------
(* Mutant: an older decision may take the pointer back.                     *)
PublishAny(b) ==
    /\ pointer' = b
    /\ UNCHANGED <<mode, memory, bridgeVars>>

(* The slow loop publishes: only a strictly newer decision moves the        *)
(* pointer.                                                                 *)
Publish(b) ==
    /\ pointer # NoBundle => b.createdAt > pointer.createdAt
    /\ pointer' = b
    /\ UNCHANGED <<mode, memory, bridgeVars>>

(* The process starts with an empty memory.                                 *)
OpenRows == {k \in FireKey : jstate[k] \in B!NonTerminal}

Start ==
    /\ mode = "down"
    /\ StartupCheck => OpenRows = {}
    /\ mode' = "up"
    /\ UNCHANGED <<pointer, memory, bridgeVars>>

-----------------------------------------------------------------------------
Ready == mode = "up" /\ pc[p] = "idle" /\ ~terminal

(* _emit_and_return: the evidence sink may raise, which is terminal.        *)
EmitAndReturn(t) == terminal' \in {t, TRUE}

(* What the orchestrator does with the result of a dispatch.                *)
React ==
    /\ EmitAndReturn(outcome'[p] = "RAISED")
    /\ halted' = (halted \/ outcome'[p] \in {"UNCERTAIN", "RECONCILE_REQUIRED"})
    /\ doubt' = (doubt \/ outcome'[p] = "UNCERTAIN")

(* An update that stops before the coordinator has no effect, unless the    *)
(* active decision is corrupt or the evidence sink fails.                   *)
FailClosed ==
    /\ Ready
    /\ terminal' = TRUE
    /\ UNCHANGED <<mode, pointer, engine, halted, doubt, bridgeVars>>

(* The coordinator syncs the engine with the bundle read and evaluates the  *)
(* tick; the context it needs was built before, so a failure there consumed *)
(* no fire.                                                                 *)
Synced == E!ReplaceBundle(engine, pointer)

Evaluation(now, tick) == E!Evaluate(Synced, now, tick)

Evaluable(now) ==
    /\ Ready /\ ~halted
    /\ pointer # NoBundle
    /\ pointer.plan # NoPlan => E!InValidity(pointer, now)
    /\ E!ReplaceStatus(engine, pointer) \in {"REPLACED", "UNCHANGED"}

(* No fire, or a fire whose risk input cannot be rebuilt.                   *)
NoDispatch(now, tick) ==
    LET r == Evaluation(now, tick) IN
    /\ Evaluable(now)
    /\ r.engine.epoch <= MaxEpoch
    /\ engine' = r.engine
    /\ EmitAndReturn(FALSE)
    /\ UNCHANGED <<mode, pointer, halted, doubt, bridgeVars>>

(* A fire reaches the bridge, whose preflight demands max_fires = 1.        *)
PreflightError(now, tick) ==
    LET r == Evaluation(now, tick) IN
    /\ Evaluable(now)
    /\ r.engine.epoch <= MaxEpoch
    /\ r.status = "TRIGGERED"
    /\ pointer.plan.maxFires # 1
    /\ engine' = r.engine
    /\ terminal' = TRUE
    /\ UNCHANGED <<mode, pointer, halted, doubt, bridgeVars>>

Dispatch(now, tick) ==
    LET r == Evaluation(now, tick) IN
    /\ Evaluable(now)
    /\ r.engine.epoch <= MaxEpoch
    /\ r.status = "TRIGGERED"
    /\ pointer.plan.maxFires = 1
    /\ engine' = r.engine
    /\ \/ B!ReserveNew(p, r.signal) /\ UNCHANGED <<terminal, halted, doubt>>
       \/ B!ReserveExisting(p, r.signal) /\ React
    /\ UNCHANGED <<mode, pointer>>

BridgeStep ==
    /\ mode = "up"
    /\ B!DispatchStep(p)
    /\ IF pc'[p] = "idle" THEN React ELSE UNCHANGED <<terminal, halted, doubt>>
    /\ UNCHANGED <<mode, pointer, engine>>

-----------------------------------------------------------------------------
(* The process ends, in the middle of a dispatch or between two updates.    *)
Stop ==
    /\ mode # "down"
    /\ IF pc[p] = "idle" THEN UNCHANGED bridgeVars ELSE B!Crash(p)
    /\ mode' = "down"
    /\ engine' = E!NewEngine
    /\ terminal' = FALSE /\ halted' = FALSE /\ doubt' = FALSE
    /\ UNCHANGED pointer

(* coordinator.recover is called explicitly, before a start.                *)
Recover ==
    /\ mode = "down"
    /\ B!StartRecover(p)
    /\ mode' = "recovering"
    /\ UNCHANGED <<pointer, memory>>

RecoverStep ==
    /\ mode = "recovering"
    /\ B!RecoverStep(p)
    /\ mode' = IF pc'[p] = "idle" THEN "down" ELSE mode
    /\ UNCHANGED <<pointer, memory>>

Now == 0..1

Next ==
    \/ \E b \in Bundles : Publish(b)
    \/ Start
    \/ FailClosed
    \/ \E now \in Now, tick \in E!Tick :
          NoDispatch(now, tick) \/ PreflightError(now, tick) \/ Dispatch(now, tick)
    \/ BridgeStep
    \/ Stop
    \/ Recover
    \/ RecoverStep

Spec == Init /\ [][Next]_vars

-----------------------------------------------------------------------------
(* The engine forgets its fires with every restart and counts epochs anew;   *)
(* still the broker is called at most once per decision.                     *)
OneOrderPerDecision == B!AtMostOneSubmit

(* A process that takes updates and is not inside a dispatch runs over a     *)
(* settled journal: an open row means it stopped, or was not let start.      *)
RunningMeansSettled ==
    StartupCheck /\ Ready /\ ~halted => OpenRows = {}

(* Once an order of this life is UNCERTAIN the symbol places no other order  *)
(* until the process is restarted.                                           *)
NoOrderAfterDoubt == doubt /\ mode' = "up" => calls' = calls

(* The engine never holds a decision newer than the published one, so        *)
(* replace_bundle never refuses what read_active returned.                   *)
EngineFollowsStore ==
    engine.active # NoBundle =>
        /\ pointer # NoBundle
        /\ engine.active = pointer \/ engine.active.createdAt < pointer.createdAt

(* The bridge's own account of step 5 (trigger_order_bridge.py:292-293): a   *)
(* dispatch that finds its order's result in the ledger settles its row from *)
(* that result.                                                              *)
DurableResultSettles ==
    pc[p] \in B!DispatchPc /\ durable[p] # "NONE" /\ pc'[p] = "idle" /\ mode' = "up"
        => jstate'[cur[p]] \in B!Terminal

-----------------------------------------------------------------------------
(* The bundles are well formed and no key or order is mistaken for none.    *)
LoopConstants ==
    /\ E!EngineConstants
    /\ Bundles \subseteq E!Bundle
    /\ MaxEpoch \in Nat
    /\ NoKey \notin FireKey
    /\ NoOrder \notin Decision

LEMMA BridgeAssumption ==
    ASSUME LoopConstants
    PROVE  B!BridgeConstants
  BY Zenon DEF LoopConstants, B!BridgeConstants, FireKey

(* The inductive invariant: beside FastLoopInv, the memory of a process that *)
(* is down is empty, a process dispatches only while nothing has stopped it, *)
(* and while it dispatches no other row is open.                             *)
ModeInv ==
    /\ mode # "up" => ~terminal /\ ~halted /\ ~doubt /\ engine = E!NewEngine
    /\ mode = "down" => pc[p] = "idle"
    /\ mode = "up" => pc[p] \in {"idle"} \cup B!DispatchPc
    /\ mode = "recovering" => pc[p] \in B!RecoverPc
    /\ pc[p] \in B!DispatchPc => ~terminal /\ ~halted
    /\ doubt => halted

SettledBut ==
    StartupCheck /\ mode = "up" /\ ~terminal /\ ~halted =>
        \A k \in FireKey : jstate[k] \in B!NonTerminal => pc[p] # "idle" /\ k = cur[p]

LoopInv == FastLoopInv /\ ModeInv /\ SettledBut /\ EngineFollowsStore

-----------------------------------------------------------------------------
LEMMA FireKeys ==
    ASSUME NEW d \in Decision, NEW i \in PlanId, NEW n \in 1..MaxEpoch
    PROVE  <<d, i, n>> \in FireKey
  BY Zenon DEF FireKey

(* The engine the coordinator evaluates holds the bundle it read, and a fire *)
(* of it carries one of the keys.                                            *)
LEMMA EvaluationFacts ==
    ASSUME LoopConstants, FastLoopInv, NEW now \in Now, NEW tick, Evaluable(now)
    PROVE  LET r == Evaluation(now, tick) IN
           /\ pointer \in E!Bundle
           /\ E!Consistent(r.engine) /\ r.engine.active = pointer
           /\ r.status = "TRIGGERED" /\ r.engine.epoch <= MaxEpoch => r.signal \in FireKey
  <1> DEFINE r == Evaluation(now, tick)
  <1>1. E!EngineConstants /\ E!Consistent(engine) /\ pointer \in E!Bundle /\ now \in Nat
    BY DEF LoopConstants, FastLoopInv, Evaluable, Now
  <1>2. E!Consistent(Synced) /\ Synced.active = pointer
    <2>1. CASE E!ReplaceStatus(engine, pointer) = "REPLACED"
      BY <1>1, <2>1, E!ReplaceKeepsConsistent, Zenon DEF Synced
    <2>2. CASE E!ReplaceStatus(engine, pointer) = "UNCHANGED"
      <3>1. engine.active = pointer
        BY <2>2, Zenon DEF E!ReplaceStatus
      <3>2. Synced = engine
        BY <2>2, Zenon DEF Synced, E!ReplaceBundle
      <3> QED
        BY <1>1, <3>1, <3>2, Zenon
    <2> QED
      BY <2>1, <2>2, Zenon DEF Evaluable
  <1> HIDE DEF r
  <1>3. /\ E!Consistent(r.engine) /\ r.engine.active = pointer
        /\ r.status = "TRIGGERED" =>
              /\ E!HasPlan(Synced)
              /\ r.signal = <<pointer.decision, pointer.plan.id, r.engine.epoch>>
    <2>1. r = E!Evaluate(Synced, now, tick)
      BY Zenon DEF r, Evaluation
    <2> QED
      BY <1>1, <1>2, <2>1, E!EvaluateKeepsConsistent
  <1>4. ASSUME r.status = "TRIGGERED", r.engine.epoch <= MaxEpoch
        PROVE  r.signal \in FireKey
    <2>1. pointer # NoBundle /\ pointer.plan # NoPlan
      BY <1>2, <1>3, <1>4, Zenon DEF E!HasPlan
    <2>2. pointer.decision \in Decision /\ pointer.plan \in E!Plan
      BY <1>1, <2>1, Zenon DEF E!Bundle
    <2>3. pointer.plan.id \in PlanId
      BY <2>2, Zenon DEF E!Plan
    <2>4. r.engine.epoch \in Nat /\ r.engine.epoch # 0
      <3>1. r.engine \in E!Engine /\ r.engine.epoch # 0
        BY <1>3, <2>1, Zenon DEF E!Consistent
      <3> QED
        BY <3>1, Zenon DEF E!Engine
    <2>5. r.engine.epoch \in 1..MaxEpoch
      BY <1>4, <2>4 DEF LoopConstants
    <2> QED
      BY <1>3, <1>4, <2>2, <2>3, <2>5, FireKeys, Zenon
  <1> QED
    BY <1>1, <1>3, <1>4, Zenon DEF r

(* Every step of the loop is a step of the bridge or leaves it alone.        *)
LEMMA StepIsBridgeStep ==
    ASSUME LoopConstants, LoopInv, [Next]_vars
    PROVE  [B!Next]_(B!vars)
  <1>1. ASSUME UNCHANGED bridgeVars PROVE UNCHANGED B!vars
    BY <1>1, Zenon DEF bridgeVars, B!vars, B!journalVars, B!procVars
  <1>2. CASE UNCHANGED vars
    BY <1>1, <1>2, Zenon DEF vars
  <1>3. CASE \/ \E b \in Bundles : Publish(b)
             \/ Start \/ FailClosed
    BY <1>1, <1>3, Zenon DEF Publish, Start, FailClosed
  <1>4. ASSUME NEW now \in Now, NEW tick \in E!Tick,
               NoDispatch(now, tick) \/ PreflightError(now, tick)
        PROVE  UNCHANGED B!vars
    BY <1>1, <1>4, Zenon DEF NoDispatch, PreflightError
  <1>5. ASSUME NEW now \in Now, NEW tick \in E!Tick, Dispatch(now, tick)
        PROVE  B!Next
    <2> DEFINE k == Evaluation(now, tick).signal
    <2>1. k \in FireKey
      BY <1>5, EvaluationFacts, Zenon DEF Dispatch, LoopInv
    <2>2. B!Reserve(p, k)
      BY <1>5, Zenon DEF Dispatch, B!Reserve
    <2> HIDE DEF k
    <2> QED
      BY <2>1, <2>2, Zenon DEF B!Next
  <1>6. CASE BridgeStep
    BY <1>6, Zenon DEF BridgeStep, B!Next
  <1>7. CASE Stop
    BY <1>1, <1>7, Zenon DEF Stop, B!Next
  <1>8. CASE Recover
    BY <1>8, Zenon DEF Recover, B!Next
  <1>9. CASE RecoverStep
    BY <1>9, Zenon DEF RecoverStep, B!Next
  <1> QED
    BY <1>2, <1>3, <1>4, <1>5, <1>6, <1>7, <1>8, <1>9, Zenon DEF Next

LEMMA BridgeInvKept ==
    ASSUME LoopConstants, LoopInv, [Next]_vars
    PROVE  B!BridgeInv'
  BY StepIsBridgeStep, B!NextBridgeInv, BridgeAssumption, Zenon DEF LoopInv, FastLoopInv

(* What one step owes: the invariant, apart from the bridge's, and no order  *)
(* in doubt.                                                                 *)
FlagsTyped ==
    /\ mode \in {"down", "up", "recovering"}
    /\ terminal \in BOOLEAN /\ halted \in BOOLEAN /\ doubt \in BOOLEAN

EngineTyped ==
    /\ pointer \in Bundles \cup {NoBundle}
    /\ E!Consistent(engine) /\ engine.epoch <= MaxEpoch

LoopKept ==
    FlagsTyped' /\ EngineTyped' /\ ModeInv' /\ SettledBut' /\ EngineFollowsStore' /\ NoOrderAfterDoubt

LEMMA LoopInvFacts ==
    ASSUME LoopInv
    PROVE  /\ FlagsTyped /\ EngineTyped /\ ModeInv /\ SettledBut /\ EngineFollowsStore
           /\ B!BridgeInv
           /\ pc \in [{p} -> {"idle"} \cup B!DispatchPc \cup B!RecoverPc]
           /\ cur \in [{p} -> FireKey \cup {NoKey}]
           /\ jstate \in [FireKey -> B!JournalState]
           /\ outcome \in [{p} -> B!Outcome]
  BY Zenon DEF LoopInv, FastLoopInv, FlagsTyped, EngineTyped, B!BridgeInv, B!ProcInv, B!ProcTypeOK,
         B!StoreInv, B!StoreTypeOK

(* The slow loop publishes while the process does anything.                  *)
LEMMA PublishKeeps ==
    ASSUME LoopConstants, LoopInv, NEW b \in Bundles, Publish(b)
    PROVE  LoopKept
  <1>1. /\ mode' = mode /\ engine' = engine /\ terminal' = terminal /\ halted' = halted
        /\ doubt' = doubt /\ pointer' = b /\ jstate' = jstate /\ pc' = pc /\ cur' = cur
        /\ calls' = calls
    BY Zenon DEF Publish, memory, bridgeVars
  <1>2. FlagsTyped' /\ EngineTyped' /\ ModeInv' /\ SettledBut' /\ NoOrderAfterDoubt
    BY <1>1, LoopInvFacts, Zenon DEF FlagsTyped, EngineTyped, ModeInv, SettledBut, NoOrderAfterDoubt
  <1>3. EngineFollowsStore'
    <2> SUFFICES ASSUME engine.active # NoBundle
                 PROVE  b # NoBundle /\ (engine.active = b \/ engine.active.createdAt < b.createdAt)
      BY <1>1, Zenon DEF EngineFollowsStore
    <2>1. /\ pointer # NoBundle
          /\ engine.active = pointer \/ engine.active.createdAt < pointer.createdAt
      BY LoopInvFacts, Zenon DEF EngineFollowsStore
    <2>2. b \in E!Bundle /\ pointer \in E!Bundle /\ engine \in E!Engine /\ NoBundle \notin E!Bundle
      BY <2>1, LoopInvFacts, Zenon DEF LoopConstants, EngineTyped, E!Consistent, E!EngineConstants
    <2>3. engine.active \in E!Bundle
      BY <2>2, Zenon DEF E!Engine
    <2>4. b.createdAt \in Nat /\ pointer.createdAt \in Nat /\ engine.active.createdAt \in Nat
      BY <2>2, <2>3, Zenon DEF E!Bundle
    <2>5. b.createdAt > pointer.createdAt
      BY <2>1, Zenon DEF Publish
    <2> QED
      BY <2>1, <2>2, <2>4, <2>5
  <1> QED
    BY <1>2, <1>3, Zenon DEF LoopKept

LEMMA StartKeeps ==
    ASSUME LoopConstants, LoopInv, Start
    PROVE  LoopKept
  <1>1. /\ mode = "down" /\ mode' = "up" /\ engine' = engine /\ terminal' = terminal
        /\ halted' = halted /\ doubt' = doubt /\ pointer' = pointer /\ jstate' = jstate
        /\ pc' = pc /\ cur' = cur /\ calls' = calls
    BY Zenon DEF Start, memory, bridgeVars
  <1>2. StartupCheck => \A k \in FireKey : jstate[k] \notin B!NonTerminal
    BY Zenon DEF Start, OpenRows
  <1> QED
    BY <1>1, <1>2, LoopInvFacts, Zenon DEF LoopKept, FlagsTyped, EngineTyped, ModeInv, SettledBut,
       EngineFollowsStore, NoOrderAfterDoubt, B!DispatchPc

(* An update that ends in the orchestrator, with or without an evaluation.   *)
LEMMA UpdateKeeps ==
    ASSUME LoopConstants, LoopInv, Ready, terminal' \in BOOLEAN, EngineTyped',
           EngineFollowsStore', UNCHANGED mode, UNCHANGED halted, UNCHANGED doubt,
           UNCHANGED bridgeVars
    PROVE  LoopKept
  <1>1. jstate' = jstate /\ pc' = pc /\ cur' = cur /\ calls' = calls
    BY Zenon DEF bridgeVars
  <1>2. mode = "up" /\ pc[p] = "idle" /\ ~terminal
    BY Zenon DEF Ready
  <1>3. pc[p] \notin B!DispatchPc
    BY <1>2, Zenon DEF B!DispatchPc
  <1>4. SettledBut'
    BY <1>1, <1>2, LoopInvFacts, Zenon DEF SettledBut
  <1> QED
    BY <1>1, <1>2, <1>3, <1>4, LoopInvFacts, Zenon DEF LoopKept, FlagsTyped, ModeInv, NoOrderAfterDoubt

LEMMA EvaluationKeeps ==
    ASSUME LoopConstants, LoopInv, NEW now \in Now, NEW tick, Evaluable(now),
           engine' = Evaluation(now, tick).engine, engine'.epoch <= MaxEpoch,
           UNCHANGED pointer
    PROVE  EngineTyped' /\ EngineFollowsStore'
  <1>1. E!Consistent(engine') /\ engine'.active = pointer /\ pointer # NoBundle
    BY EvaluationFacts, Zenon DEF LoopInv, Evaluable
  <1> QED
    BY <1>1, LoopInvFacts, Zenon DEF EngineTyped, EngineFollowsStore

LEMMA NoDispatchKeeps ==
    ASSUME LoopConstants, LoopInv, NEW now \in Now, NEW tick,
           NoDispatch(now, tick) \/ PreflightError(now, tick)
    PROVE  LoopKept
  <1>1. /\ Evaluable(now) /\ engine' = Evaluation(now, tick).engine /\ engine'.epoch <= MaxEpoch
        /\ pointer' = pointer /\ mode' = mode /\ halted' = halted /\ doubt' = doubt
        /\ UNCHANGED bridgeVars
    BY Zenon DEF NoDispatch, PreflightError
  <1>2. terminal' \in BOOLEAN
    BY Zenon DEF NoDispatch, PreflightError, EmitAndReturn
  <1>3. Ready
    BY <1>1, Zenon DEF Evaluable
  <1> QED
    BY <1>1, <1>2, <1>3, EvaluationKeeps, UpdateKeeps, Zenon

LEMMA FailClosedKeeps ==
    ASSUME LoopConstants, LoopInv, FailClosed
    PROVE  LoopKept
  <1>1. EngineTyped' /\ EngineFollowsStore'
    BY LoopInvFacts, Zenon DEF FailClosed, EngineTyped, EngineFollowsStore
  <1>2. terminal' \in BOOLEAN
    BY Zenon DEF FailClosed
  <1> QED
    BY <1>1, <1>2, UpdateKeeps, Zenon DEF FailClosed

(* A fire reserves its row; nothing else is open.                            *)
LEMMA ReserveNewKeeps ==
    ASSUME LoopConstants, LoopInv, Ready, ~halted, EngineTyped', EngineFollowsStore',
           NEW k \in FireKey, B!ReserveNew(p, k),
           UNCHANGED mode, UNCHANGED terminal, UNCHANGED halted, UNCHANGED doubt
    PROVE  LoopKept
  <1>1. /\ mode = "up" /\ pc[p] = "idle" /\ ~terminal
    BY Zenon DEF Ready
  <1>2. /\ pc'[p] = "prepare" /\ cur'[p] = k /\ calls' = calls
        /\ \A j \in FireKey \ {k} : jstate'[j] = jstate[j]
    BY LoopInvFacts, Zenon DEF B!ReserveNew
  <1>3. "prepare" \in B!DispatchPc /\ "prepare" # "idle"
    BY Zenon DEF B!DispatchPc
  <1>4. SettledBut'
    BY <1>1, <1>2, <1>3, LoopInvFacts, Zenon DEF SettledBut
  <1> QED
    BY <1>1, <1>2, <1>3, <1>4, LoopInvFacts, Zenon
       DEF LoopKept, FlagsTyped, ModeInv, NoOrderAfterDoubt

(* A dispatch that returned: React decides whether the loop goes on.         *)
LEMMA ReactKeeps ==
    ASSUME LoopConstants, LoopInv, mode = "up", ~halted, EngineTyped', EngineFollowsStore',
           pc'[p] = "idle", React, UNCHANGED mode, ~doubt,
           StartupCheck /\ outcome'[p] # "RAISED" /\ ~halted' =>
              \A k \in FireKey : jstate'[k] \notin B!NonTerminal
    PROVE  LoopKept
  <1>1. terminal' \in BOOLEAN /\ halted' \in BOOLEAN /\ doubt' \in BOOLEAN
    BY Zenon DEF React, EmitAndReturn
  <1>2. ~terminal' => outcome'[p] # "RAISED"
    BY Zenon DEF React, EmitAndReturn
  <1>3. doubt' => halted'
    BY Zenon DEF React
  <1>4. "idle" \notin B!DispatchPc
    BY Zenon DEF B!DispatchPc
  <1> QED
    BY <1>1, <1>2, <1>3, <1>4, LoopInvFacts, Zenon
       DEF LoopKept, FlagsTyped, ModeInv, SettledBut, NoOrderAfterDoubt

LEMMA DispatchKeeps ==
    ASSUME LoopConstants, LoopInv, NEW now \in Now, NEW tick, Dispatch(now, tick)
    PROVE  LoopKept
  <1> DEFINE k == Evaluation(now, tick).signal
  <1>1. /\ Evaluable(now) /\ engine' = Evaluation(now, tick).engine /\ engine'.epoch <= MaxEpoch
        /\ pointer' = pointer /\ mode' = mode
    BY Zenon DEF Dispatch
  <1>2. Ready /\ ~halted
    BY <1>1, Zenon DEF Evaluable
  <1>3. EngineTyped' /\ EngineFollowsStore'
    BY <1>1, EvaluationKeeps, Zenon
  <1>4. k \in FireKey
    BY <1>1, EvaluationFacts, Zenon DEF Dispatch, LoopInv
  <1>5. CASE B!ReserveNew(p, k) /\ UNCHANGED <<terminal, halted, doubt>>
    <2> HIDE DEF k
    <2> QED
      BY <1>1, <1>2, <1>3, <1>4, <1>5, ReserveNewKeeps, Zenon
  <1>6. CASE B!ReserveExisting(p, k) /\ React
    <2> HIDE DEF k
    <2>1. pc'[p] = "idle" /\ jstate' = jstate
      BY <1>6, LoopInvFacts, Zenon DEF B!ReserveExisting, B!Return, B!journalVars
    <2>2. mode = "up" /\ ~doubt /\ ~terminal /\ pc[p] = "idle"
      BY <1>2, LoopInvFacts, Zenon DEF Ready, ModeInv
    <2>3. StartupCheck => \A j \in FireKey : jstate'[j] \notin B!NonTerminal
      BY <1>2, <2>1, <2>2, LoopInvFacts, Zenon DEF SettledBut
    <2> QED
      BY <1>1, <1>2, <1>3, <1>6, <2>1, <2>2, <2>3, ReactKeeps, Zenon
  <1> QED
    BY <1>5, <1>6, Zenon DEF Dispatch

LEMMA BridgeStepKeeps ==
    ASSUME LoopConstants, LoopInv, BridgeStep
    PROVE  LoopKept
  <1>1. /\ mode = "up" /\ B!DispatchStep(p) /\ mode' = mode /\ pointer' = pointer
        /\ engine' = engine
    BY Zenon DEF BridgeStep
  <1>2. /\ pc[p] \in B!DispatchPc /\ cur[p] \in FireKey
        /\ \A k \in FireKey \ {cur[p]} : jstate'[k] = jstate[k]
        /\ \/ pc'[p] \in B!DispatchPc /\ cur'[p] = cur[p]
           \/ /\ pc'[p] = "idle"
              /\ outcome'[p] = "RAISED" \/ jstate'[cur[p]] \in B!Terminal
    BY <1>1, LoopInvFacts, BridgeAssumption, B!DispatchStepFrame, Zenon
  <1>3. ~terminal /\ ~halted /\ ~doubt /\ "idle" \notin B!DispatchPc
    BY <1>2, LoopInvFacts, Zenon DEF ModeInv, B!DispatchPc
  <1>4. EngineTyped' /\ EngineFollowsStore'
    BY <1>1, LoopInvFacts, Zenon DEF EngineTyped, EngineFollowsStore
  <1>5. StartupCheck => \A k \in FireKey \ {cur[p]} : jstate'[k] \notin B!NonTerminal
    BY <1>1, <1>2, <1>3, LoopInvFacts, Zenon DEF SettledBut
  <1>6. CASE pc'[p] \in B!DispatchPc /\ cur'[p] = cur[p]
    <2>1. pc'[p] # "idle" /\ terminal' = terminal /\ halted' = halted /\ doubt' = doubt
      BY <1>3, <1>6, Zenon DEF BridgeStep
    <2>2. SettledBut'
      BY <1>5, <1>6, <2>1, Zenon DEF SettledBut
    <2> QED
      BY <1>1, <1>3, <1>4, <1>6, <2>1, <2>2, LoopInvFacts, Zenon
         DEF LoopKept, FlagsTyped, ModeInv, NoOrderAfterDoubt
  <1>7. CASE pc'[p] = "idle" /\ (outcome'[p] = "RAISED" \/ jstate'[cur[p]] \in B!Terminal)
    <2>1. React
      BY <1>7, Zenon DEF BridgeStep
    <2>2. StartupCheck /\ outcome'[p] # "RAISED" =>
             \A k \in FireKey : jstate'[k] \notin B!NonTerminal
      BY <1>2, <1>5, <1>7, Zenon DEF B!Terminal, B!NonTerminal
    <2> QED
      BY <1>1, <1>3, <1>4, <1>7, <2>1, <2>2, ReactKeeps, Zenon
  <1> QED
    BY <1>2, <1>6, <1>7, Zenon

(* The process ends and, later, recovers: an empty memory in both modes.     *)
LEMMA StopAndRecoverKeep ==
    ASSUME LoopConstants, LoopInv, Stop \/ Recover \/ RecoverStep
    PROVE  LoopKept
  <1>1. /\ mode' \in {"down", "recovering"} /\ pointer' = pointer /\ engine' = E!NewEngine
        /\ terminal' = FALSE /\ halted' = FALSE /\ doubt' = FALSE
    <2>1. CASE Stop
      BY <2>1, Zenon DEF Stop
    <2>2. CASE Recover \/ RecoverStep
      BY <2>2, LoopInvFacts, Zenon DEF Recover, RecoverStep, memory, ModeInv, FlagsTyped
    <2> QED
      BY <2>1, <2>2, Zenon
  <1>2. /\ mode' = "down" => pc'[p] = "idle"
        /\ mode' = "recovering" => pc'[p] \in B!RecoverPc
    <2>1. CASE Stop
      BY <2>1, LoopInvFacts, Zenon DEF Stop, B!Crash, B!Return, bridgeVars
    <2>2. CASE Recover
      BY <2>2, LoopInvFacts, Zenon DEF Recover, B!StartRecover, B!RecoverPc
    <2>3. CASE RecoverStep
      <3>1. pc'[p] \in B!RecoverPc \cup {"idle"}
        BY <2>3, LoopInvFacts, BridgeAssumption, B!RecoverStepFrame, Zenon DEF RecoverStep
      <3> QED
        BY <2>3, <3>1, Zenon DEF RecoverStep
    <2> QED
      BY <2>1, <2>2, <2>3, Zenon
  <1>3. pc'[p] \notin B!DispatchPc
    BY <1>1, <1>2, Zenon DEF B!DispatchPc, B!RecoverPc
  <1>4. EngineTyped' /\ EngineFollowsStore'
    <2>1. E!NewEngine \in E!Engine
      BY Zenon DEF E!NewEngine, E!Engine, E!TriggerState
    <2>2. E!Consistent(E!NewEngine) /\ E!NewEngine.epoch = 0 /\ E!NewEngine.active = NoBundle
      BY <2>1, Zenon DEF E!NewEngine, E!Consistent
    <2> QED
      BY <1>1, <2>2, LoopInvFacts DEF EngineTyped, EngineFollowsStore, LoopConstants
  <1> QED
    BY <1>1, <1>2, <1>3, <1>4, Zenon
       DEF LoopKept, FlagsTyped, ModeInv, SettledBut, NoOrderAfterDoubt

LEMMA InitLoopInv ==
    ASSUME LoopConstants, Init
    PROVE  LoopInv
  <1>1. B!BridgeInv
    BY B!InitBridgeInv, BridgeAssumption, Zenon DEF Init
  <1>2. pc[p] = "idle"
    BY Zenon DEF Init, B!Init
  <1>3. E!NewEngine \in E!Engine
    BY Zenon DEF E!NewEngine, E!Engine, E!TriggerState
  <1>4. E!Consistent(E!NewEngine) /\ E!NewEngine.epoch = 0 /\ E!NewEngine.active = NoBundle
    BY <1>3, Zenon DEF E!NewEngine, E!Consistent
  <1>5. E!Consistent(engine) /\ engine.epoch <= MaxEpoch /\ engine.active = NoBundle
    BY <1>4 DEF Init, LoopConstants
  <1>6. "idle" \notin B!DispatchPc
    BY Zenon DEF B!DispatchPc
  <1> QED
    BY <1>1, <1>2, <1>5, <1>6, Zenon
       DEF Init, LoopInv, FastLoopInv, ModeInv, SettledBut, EngineFollowsStore

LEMMA NextLoopInv ==
    ASSUME LoopConstants, LoopInv, [Next]_vars
    PROVE  LoopInv' /\ [NoOrderAfterDoubt]_vars
  <1>1. B!BridgeInv'
    BY BridgeInvKept, Zenon
  <1>2. CASE Next
    <2>1. LoopKept
      BY <1>2, PublishKeeps, StartKeeps, FailClosedKeeps, NoDispatchKeeps, DispatchKeeps,
         BridgeStepKeeps, StopAndRecoverKeep, Zenon DEF Next
    <2> QED
      BY <1>1, <2>1, Zenon DEF LoopKept, LoopInv, FastLoopInv, FlagsTyped, EngineTyped
  <1>3. CASE UNCHANGED vars
    <2>1. /\ mode' = mode /\ engine' = engine /\ terminal' = terminal /\ halted' = halted
          /\ doubt' = doubt /\ pointer' = pointer /\ jstate' = jstate /\ pc' = pc /\ cur' = cur
      BY <1>3, Zenon DEF vars, memory, bridgeVars
    <2> QED
      BY <1>1, <1>3, <2>1, Zenon DEF LoopInv, FastLoopInv, ModeInv, SettledBut, EngineFollowsStore
  <1> QED
    BY <1>2, <1>3, Zenon

(* Whatever is published, fires, fails or crashes: the flags, the engine and *)
(* the bridge stay consistent, a loop that takes updates runs over a settled *)
(* journal, and the engine never runs ahead of the published decision        *)
(* (orchestrator, coordinator and bridge together).                          *)
THEOREM LoopStaysConsistent ==
    ASSUME LoopConstants
    PROVE  Spec => [](FastLoopInv /\ RunningMeansSettled /\ EngineFollowsStore)
  <1>1. LoopInv => FastLoopInv /\ RunningMeansSettled /\ EngineFollowsStore
    BY Zenon DEF LoopInv, SettledBut, RunningMeansSettled, Ready, OpenRows
  <1> QED
    BY <1>1, InitLoopInv, NextLoopInv, PTL DEF Spec

(* Once an order is UNCERTAIN this life of the process places no other       *)
(* (FastLoopExecution._halted_symbols).                                      *)
THEOREM NoOrderInDoubt ==
    ASSUME LoopConstants
    PROVE  Spec => [][NoOrderAfterDoubt]_vars
  BY InitLoopInv, NextLoopInv, PTL DEF Spec

(* The loop drives the bridge as one of its processes, so what the bridge    *)
(* promises holds of it: the engine forgets its fires with every restart,    *)
(* yet every decision reaches the broker at most once and no verdict is      *)
(* taken back (PaperExecutionCoordinator, TriggerOrderBridge.dispatch).      *)
THEOREM LoopImplementsBridge ==
    ASSUME LoopConstants
    PROVE  Spec => B!Spec /\ []OneOrderPerDecision /\ B!RowsSettleForward
  <1>1. Init => B!Init
    BY Zenon DEF Init
  <1>2. Spec => B!Spec
    BY <1>1, InitLoopInv, NextLoopInv, StepIsBridgeStep, PTL DEF Spec, B!Spec
  <1>3. B!Spec => []B!AtMostOneSubmit
    BY B!BrokerCalledOnce, BridgeAssumption, PTL
  <1>4. B!Spec => B!RowsSettleForward
    BY B!BridgeImplementsProtocol, BridgeAssumption, PTL
  <1> QED
    BY <1>2, <1>3, <1>4, PTL DEF OneOrderPerDecision
=============================================================================
