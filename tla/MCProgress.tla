------------------------------ MODULE MCProgress ------------------------------
(***************************************************************************)
(* What must eventually happen, each under the fairness its own code gives *)
(* it: the monitor of a silent source ends, a dispatch returns, a slot of  *)
(* the day is settled, a lost monitor is replaced.                         *)
(*                                                                         *)
(* The components share no state here. A behaviour runs one of them, named *)
(* by part, and the others stand still; a fairness condition asks          *)
(* something of the running one only.                                      *)
(***************************************************************************)
EXTENDS MarketMonitor, TLC

CONSTANTS
    Running,    \* the components to run
    ta,                 \* the channel a symbol is traded on
    p1, k1, k2, d1, NoKey, NoOrder,
    o1, o2, am, NoVersion, NoRow, NoToken, NoSlot,
    NoTime, None

VARIABLES
    part,       \* the component that runs
    bridgeJstate, bridgeJorder, bridgeJresult, bridgeLedger, bridgePc, bridgeCur,
    bridgeDurable, bridgeSeen, bridgeTodo, bridgeOutcome, bridgeCalls,
    refreshPointer, refreshVersions, refreshSlots, refreshMinted, refreshClock,
    refreshPc, refreshNow, refreshTodo, refreshWork, refreshToken, refreshCand,
    refreshEnding, refreshRuns, refreshFaults,
    superNow, superH, superS, superCancelled, superLog

bridgeVars ==
    <<bridgeJstate, bridgeJorder, bridgeJresult, bridgeLedger, bridgePc, bridgeCur,
      bridgeDurable, bridgeSeen, bridgeTodo, bridgeOutcome, bridgeCalls>>
refreshVars ==
    <<refreshPointer, refreshVersions, refreshSlots, refreshMinted, refreshClock,
      refreshPc, refreshNow, refreshTodo, refreshWork, refreshToken, refreshCand,
      refreshEnding, refreshRuns, refreshFaults>>
superVars ==
    <<superNow, superH, superS, superCancelled, superLog>>


OneStreamOf == ta :> "trade"

(* Two keys that hash from one decision. *)
OneDecision == k1 :> d1 @@ k2 :> d1

(* A trading day of four instants with a slot; the day ends after the lease   *)
(* has.                                                                      *)
RefreshSchedule == 0 :> [preOpen |-> 0, open |-> 0, close |-> 3, postCloseEnd |-> 4]
RefreshSlotAt == am :> 1
RefreshCandidates == {[id |-> d1, createdAt |-> 0, expiresAt |-> 9, valid |-> TRUE]}

(* A session that does not end. *)
OpenSchedule == 0 :> [preOpen |-> 0, open |-> 0, close |-> 9, postCloseEnd |-> 9]

-----------------------------------------------------------------------------
Bridge == INSTANCE TriggerOrderBridge WITH
        jstate <- bridgeJstate, jorder <- bridgeJorder, jresult <- bridgeJresult,
        ledger <- bridgeLedger, pc <- bridgePc, cur <- bridgeCur,
        durable <- bridgeDurable, seen <- bridgeSeen, todo <- bridgeTodo,
        outcome <- bridgeOutcome, calls <- bridgeCalls, Proc <- {p1}, Key <- {k1, k2},
        Decision <- {d1}, DecisionOf <- OneDecision

Refresh == INSTANCE DecisionRefreshScheduler WITH
        pointer <- refreshPointer, versions <- refreshVersions, slots <- refreshSlots,
        minted <- refreshMinted, clock <- refreshClock, pc <- refreshPc,
        now <- refreshNow, todo <- refreshTodo, work <- refreshWork,
        token <- refreshToken, cand <- refreshCand, ending <- refreshEnding,
        runs <- refreshRuns, faults <- refreshFaults, Owner <- {o1, o2}, Slot <- {am},
        SlotKey <- {0} \X {am}, SlotAt <- RefreshSlotAt, DayLength <- 5,
        Schedule <- RefreshSchedule, Weekend <- {}, Candidate <- RefreshCandidates,
        Grace <- 1, Lease <- 2, MaxTime <- 4, MaxFaults <- 1

Super == INSTANCE MarketSupervisor WITH
        now <- superNow, h <- superH, s <- superS, cancelled <- superCancelled,
        log <- superLog, SubscriptionGrace <- 1, HeartbeatTimeout <- 1,
        MinimumStableUptime <- 2, FlappingWindow <- 1, FlappingMaxShortEpochs <- 1,
        FlappingMinUptime <- 1, FlappingMinMarketEvents <- 1, QuoteGrace <- 1,
        QuoteStarvation <- 1, MaxQuoteAge <- 2, MaxEpochHistory <- 1, DayLength <- 9,
        Schedule <- OpenSchedule, Weekend <- {}, PollInterval <- 1,
        MaxRestartsInWindow <- 1, RestartWindow <- 2, RestartBackoff <- 1,
        MaxEpochs <- 1, MaxMarketEvents <- 0, MaxTime <- 3, MaxTicks <- 0,
        SinkFaults <- {"monitor_exit"}, SupervisorFaults <- {"factory"}

RunInit ==
    /\ part \in Running
    /\ Init
    /\ Bridge!Init
    /\ Refresh!Init
    /\ Super!Init

RunNext ==
    \/ part = "monitor" /\ Next /\ UNCHANGED <<part, bridgeVars, refreshVars, superVars>>
    \/ part = "bridge" /\ Bridge!Next /\ UNCHANGED <<part, vars, refreshVars, superVars>>
    \/ part = "refresh" /\ Refresh!Next /\ UNCHANGED <<part, vars, bridgeVars, superVars>>
    \/ part = "supervisor" /\ Super!Next /\ UNCHANGED <<part, vars, bridgeVars, refreshVars>>

runVars == <<part, vars, bridgeVars, refreshVars, superVars>>


(* The event loop resumes a finished backoff and a timed-out wait; straight- *)
(* line code goes on; a started scheduler ticks, its runner returns and a    *)
(* scheduler that ended is started again; time passes.  No fault is fair.    *)
RunFairness ==
    /\ WF_vars(part = "monitor" /\ Connect) /\ WF_vars(part = "monitor" /\ TimesOut)
    /\ WF_vars(part = "monitor" /\ Pass)
    /\ WF_bridgeVars(part = "bridge" /\ (Bridge!DispatchStep(p1) \/ Bridge!RecoverStep(p1)))
    /\ \A o \in {o1, o2} :
          /\ WF_refreshVars(part = "refresh" /\ Refresh!OwnerStep(o))
          /\ WF_refreshVars(part = "refresh" /\ Refresh!Run(o))
    /\ WF_refreshVars(part = "refresh" /\ Refresh!Advance)
    /\ WF_superVars(part = "supervisor" /\ Super!Step({})) /\ WF_superVars(part = "supervisor" /\ Super!Pass)

RunSpec == RunInit /\ [][RunNext]_runVars /\ RunFairness

-----------------------------------------------------------------------------
(* A monitor whose source never speaks again ends, by its runtime or by      *)
(* exhaustion (MarketMonitor.run).                                           *)
SilentMonitorEnds == part = "monitor" => MonitorEnds

(* Every call of dispatch or reconcile_all comes back: no process waits on   *)
(* another inside it (trigger_order_bridge.py).                              *)
CallReturns == part = "bridge" => Bridge!CallReturns


(* A monitor that lost its transport in an open session is replaced, or the  *)
(* supervisor ends (_reap_monitor_if_done, _restart_transport).              *)
LostMonitorReplaced == part = "supervisor" => Super!LostMonitorReplaced
=============================================================================
