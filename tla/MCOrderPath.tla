----------------------------- MODULE MCOrderPath -----------------------------
(***************************************************************************)
(* The path from a market update to a recorded order: the bridge with two  *)
(* processes and two fires of one decision, the fast loop with its         *)
(* restarts, the trigger engine alone under every tick, and the context a  *)
(* fire is sized with.                                                     *)
(*                                                                         *)
(* The four share no state. A behaviour runs one of them, named by part,   *)
(* and the others stand still: the run explores the sum of the four state  *)
(* spaces and not their product.                                           *)
(***************************************************************************)
EXTENDS TriggerOrderBridge, Integers, TLC

CONSTANTS
    Running,    \* the components to run
    p1, p2, k1, k2, d1, d2,         \* processes, fires and decisions
    theLoop, planA, planB,          \* the fast-loop process and the plans
    NoBundle, NoPlan, NoTime, None

VARIABLES
    part,       \* the component that runs
    loopMode, loopPointer, loopEngine, loopTerminal, loopHalted, loopDoubt, loopJstate,
    loopJorder, loopJresult, loopLedger, loopPc, loopCur, loopDurable, loopSeen,
    loopTodo, loopOutcome, loopCalls,
    engineEngine, engineClock, engineLast, engineTrueRun, engineRunStart, engineResetRun,
    engineCooled, engineFiredAt, engineKeys, engineBudget,
    contextNow, contextFile, contextProvider, contextActive, contextLedger,
    contextQuotes, contextEv, contextFires, contextSent, contextChanges

loopVars ==
    <<loopMode, loopPointer, loopEngine, loopTerminal, loopHalted, loopDoubt, loopJstate,
      loopJorder, loopJresult, loopLedger, loopPc, loopCur, loopDurable, loopSeen,
      loopTodo, loopOutcome, loopCalls>>
engineVars ==
    <<engineEngine, engineClock, engineLast, engineTrueRun, engineRunStart,
      engineResetRun, engineCooled, engineFiredAt, engineKeys, engineBudget>>
contextVars ==
    <<contextNow, contextFile, contextProvider, contextActive, contextLedger,
      contextQuotes, contextEv, contextFires, contextSent, contextChanges>>


(* The bridge: both fires are of one decision. *)
OneDecision == (k1 :> d1) @@ (k2 :> d1)

(* The fast loop: two decisions, the first published again under a plan the  *)
(* bridge refuses.                                                           *)
SingleFire == [id |-> planA, validFrom |-> 0, expiresAt |-> 0,
               debounceEvents |-> 1, debounceSeconds |-> 0,
               resetRules |-> FALSE, resetEvents |-> 1,
               cooldownSeconds |-> 0, maxFires |-> 1]
TwoFires == [SingleFire EXCEPT !.maxFires = 2]
LoopBundles == { [decision |-> d1, createdAt |-> 1, plan |-> SingleFire],
                 [decision |-> d2, createdAt |-> 2, plan |-> SingleFire],
                 [decision |-> d1, createdAt |-> 3, plan |-> TwoFires] }

(* The engine: a plan with debounce, reset rules and cooldown, and one that  *)
(* fires at once.                                                            *)
EngineMaxTime == 5
Patient == [id |-> planA, validFrom |-> 0, expiresAt |-> EngineMaxTime - 1,
            debounceEvents |-> 2, debounceSeconds |-> 1,
            resetRules |-> TRUE, resetEvents |-> 2,
            cooldownSeconds |-> 1, maxFires |-> 2]
Eager == [id |-> planB, validFrom |-> 1, expiresAt |-> EngineMaxTime,
          debounceEvents |-> 1, debounceSeconds |-> 0,
          resetRules |-> FALSE, resetEvents |-> 1,
          cooldownSeconds |-> 2, maxFires |-> 2]
EngineBundles == { [decision |-> d1, createdAt |-> 1, plan |-> Patient],
                   [decision |-> d2, createdAt |-> 1, plan |-> Eager],
                   [decision |-> d1, createdAt |-> 2, plan |-> Eager],
                   [decision |-> d2, createdAt |-> 3, plan |-> NoPlan] }

(* The context: one symbol listed in two markets; sealed, expiring, foreign  *)
(* and broken snapshots; ledgers with and without cash and other roles.      *)
KR == <<"KR", "a">>
US == <<"US", "a">>
BidPrices == [m \in {"KR", "US"} |-> IF m = "KR" THEN {1, 3} ELSE {10}]
GoodPayload ==
    [fields |-> "exact", version |-> 1, created |-> 0, expires |-> 1, universe |-> "u",
     allocUniverse |-> "u", allocCreated |-> 0,
     policy |-> [unknown |-> FALSE, mode |-> "paper", percent |-> "5", gold |-> 0, bucket |-> "kr"]]
Sealed(c) == c @@ [hash |-> c]
SnapshotPayloads ==
    {Sealed(GoodPayload), [Sealed(GoodPayload) EXCEPT !.expires = 2],
     Sealed([GoodPayload EXCEPT !.universe = "v", !.allocUniverse = "v", !.created = 1, !.expires = 2]),
     Sealed([GoodPayload EXCEPT !.fields = "unknown"]), Sealed([GoodPayload EXCEPT !.policy.percent = "x"]),
     Sealed([GoodPayload EXCEPT !.expires = -1]), Sealed([GoodPayload EXCEPT !.allocUniverse = "v"])}
PlanOf(u, key, action) == [universe |-> u, key |-> key, action |-> action]
ActiveDecisions ==
    {[universe |-> "u", key |-> KR, plan |-> PlanOf("u", KR, "BUY")],
     [universe |-> "v", key |-> US, plan |-> PlanOf("v", US, "SELL")],
     [universe |-> "u", key |-> KR, plan |-> None]}
Position(key, class, role) ==
    [key |-> key, class |-> class, role |-> role, currency |-> "KRW", qty |-> 2, cost |-> 1]
Cash(t) == [amount |-> 10, currency |-> "KRW", asOf |-> t]
LedgerStates ==
    {[cash |-> Cash(0), positions |-> {Position(KR, "kr", "PAPER"), Position(US, "us", "PAPER")}],
     [cash |-> Cash(1), positions |-> {Position(KR, "kr", "REAL")}],
     [cash |-> None, positions |-> {}],
     [cash |-> Cash(0), positions |-> {Position(KR, "bond", "PAPER")}]}

-----------------------------------------------------------------------------
Loop == INSTANCE FastLoopExecution WITH
        mode <- loopMode, pointer <- loopPointer, engine <- loopEngine,
        terminal <- loopTerminal, halted <- loopHalted, doubt <- loopDoubt,
        jstate <- loopJstate, jorder <- loopJorder, jresult <- loopJresult,
        ledger <- loopLedger, pc <- loopPc, cur <- loopCur, durable <- loopDurable,
        seen <- loopSeen, todo <- loopTodo, outcome <- loopOutcome, calls <- loopCalls,
        Decision <- {d1, d2}, PlanId <- {planA}, Bundles <- LoopBundles, MaxEpoch <- 3,
        StartupCheck <- TRUE, p <- theLoop

Engine == INSTANCE TriggerEngineRun WITH
        engine <- engineEngine, clock <- engineClock, last <- engineLast,
        trueRun <- engineTrueRun, runStart <- engineRunStart, resetRun <- engineResetRun,
        cooled <- engineCooled, firedAt <- engineFiredAt, keys <- engineKeys,
        budget <- engineBudget, Decision <- {d1, d2}, PlanId <- {planA, planB},
        Bundles <- EngineBundles, MaxTime <- EngineMaxTime, MaxEpoch <- 4, MaxRun <- 3

Context == INSTANCE ExecutionContext WITH
        now <- contextNow, file <- contextFile, provider <- contextProvider,
        active <- contextActive, ledger <- contextLedger, quotes <- contextQuotes,
        ev <- contextEv, fires <- contextFires, sent <- contextSent,
        changes <- contextChanges, Keys <- {KR, US}, Payloads <- SnapshotPayloads,
        Decisions <- ActiveDecisions, Ledgers <- LedgerStates, Prices <- BidPrices,
        MaxAge <- 1, MaxTime <- 2, MaxChanges <- 4

Off == "off"

contextRests ==
    /\ contextNow = Off /\ contextFile = Off /\ contextProvider = Off
    /\ contextActive = Off /\ contextLedger = Off /\ contextQuotes = Off
    /\ contextEv = Off /\ contextFires = Off /\ contextSent = Off /\ contextChanges = Off

RunInit ==
    /\ part \in Running
    /\ Init
    /\ Loop!Init
    /\ Engine!Init
    /\ IF part = "context" THEN Context!Init ELSE contextRests

RunNext ==
    \/ part = "bridge" /\ Next /\ UNCHANGED <<part, loopVars, engineVars, contextVars>>
    \/ part = "fast loop" /\ Loop!Next /\ UNCHANGED <<part, vars, engineVars, contextVars>>
    \/ part = "engine" /\ Engine!Next /\ UNCHANGED <<part, vars, loopVars, contextVars>>
    \/ part = "context" /\ Context!Next /\ UNCHANGED <<part, vars, loopVars, engineVars>>

runVars == <<part, vars, loopVars, engineVars, contextVars>>

RunSpec == RunInit /\ [][RunNext]_runVars

-----------------------------------------------------------------------------
(* What the theorems about the fast loop and the engine assume.              *)
ASSUME OrderPathConstants == Loop!LoopConstants /\ Engine!RunConstants

(* Crashes, recoveries and restarts of the fast loop: the bridge's invariant *)
(* survives an engine that forgets its fires and counts epochs anew, so the  *)
(* broker is called once per decision; a loop that takes updates runs over a *)
(* settled journal; the engine never holds a decision newer than the         *)
(* published one; and once an order of this life is UNCERTAIN the symbol     *)
(* places no other until the process is restarted (orchestrator, coordinator *)
(* and bridge together).                                                     *)
LoopStaysSettled ==
    /\ [](part = "fast loop" =>
             /\ Loop!LoopInv
             /\ Loop!OneOrderPerDecision
             /\ Loop!RunningMeansSettled)
    /\ [][part = "fast loop" => Loop!NoOrderAfterDoubt]_runVars

(* TriggerEngine.evaluate: a fire comes only after debounce_events live      *)
(* ticks in a row that span debounce_seconds; a second fire only after the   *)
(* cooldown and a full run of resets; a decision fires at most max_fires     *)
(* times and a HOLD never; no idempotency key fires twice; and only a        *)
(* strictly newer decision replaces the active one.                          *)
FiresByTheRules ==
    /\ [](part = "engine" => Engine!RunInv /\ Engine!FireBudget)
    /\ [][part = "engine" =>
             /\ Engine!FireIsDebounced
             /\ Engine!RefireAfterReset
             /\ Engine!KeyFiresOnce
             /\ Engine!OnlyNewerReplaces]_runVars


(* The bridge's own account of step 5 (trigger_order_bridge.py:292-293): a   *)
(* dispatch that finds its order's result in the ledger settles its row from *)
(* that result.                                                              *)
DurableResultSettles == [][part = "fast loop" => Loop!DurableResultSettles]_runVars
=============================================================================
