--------------------------- MODULE MarketSupervisor ---------------------------
(***************************************************************************)
(* The supervisor of the market monitor (src/market_data/supervisor.py): it  *)
(* polls the calendar and the health tracker and starts, restarts and        *)
(* cancels one monitor task.  A step runs from one await to the next; the    *)
(* monitor, the clock and a cancellation of the supervisor move in between.  *)
(***************************************************************************)
EXTENDS MarketHealth, MarketSession, FiniteSets

CONSTANTS
    PollInterval, MaxRestartsInWindow, RestartWindow, RestartBackoff,
    MaxTicks,           \* 0: max_ticks is None
    SinkFaults,         \* evidence kinds whose sink may raise
    SupervisorFaults,   \* what else may fail: "provider", "factory", "cancel"
    MaxTime, MaxEpochs, MaxMarketEvents

ASSUME SupervisorPolicy ==
    /\ PollInterval \in Nat \ {0} /\ RestartWindow \in Nat \ {0}
    /\ MaxRestartsInWindow \in Nat /\ RestartBackoff \in Nat

VARIABLES
    now,
    h,          \* the tracker
    s,          \* the supervisor: its fields, its monitor task, the await it is at
    cancelled,  \* ghost: somebody cancelled the supervisor
    log         \* ghost: the ticks that restarted, in this OPEN epoch

vars == <<now, h, s, cancelled, log>>

Ended == {"transport_exit", "transport_exhausted", "internal_failure"}
LostTransport == {"transport_exit", "transport_exhausted"}

(* task: "none", "running" or how it ended; dying: a cancelled monitor that  *)
(* gather waits for; pc, wake: the await and the end of its sleep; the rest  *)
(* of the second row are the locals of the tick in progress.                 *)
NewSupervisor ==
    [state |-> "IDLE", pending |-> "none", armed |-> FALSE, restartTimes |-> <<>>, restarts |-> 0,
     wasActive |-> FALSE, terminal |-> FALSE, ticks |-> 0, task |-> "none", dying |-> FALSE,
     pc |-> "sleep", wake |-> 0, at |-> 0, session |-> "CLOSED", action |-> "none", after |-> "none"]

Init ==
    /\ now = 0
    /\ h = NewTracker
    /\ s = NewSupervisor
    /\ cancelled = FALSE /\ log = <<>>

(* _enter_terminal_failed, and the failing sink of _emit.                    *)
Terminal(u) == [u EXCEPT !.terminal = TRUE, !.state = "FAILED_CLOSED"]

Emit(u, kind, faults) == IF kind \in faults /\ ~u.terminal THEN Terminal(u) ELSE u

(* _restarts_in_current_window drops what left the window, from the front.   *)
InRestartWindow(t, at) == t + RestartWindow >= at

Trimmed(u) == [u EXCEPT !.restartTimes = SelectSeq(@, LAMBDA t : InRestartWindow(t, u.at))]

RestartAllowedOnceMore(u) == Len(Trimmed(u).restartTimes) <= MaxRestartsInWindow

RestartAllowed(u) == Len(Trimmed(u).restartTimes) < MaxRestartsInWindow

(* _reap_finished with _classify_exit.                                       *)
ReapKeepsTask(u, faults) ==
    IF u.task = "internal_failure" THEN Terminal(u)
    ELSE IF u.task \in LostTransport
    THEN Emit([u EXCEPT !.pending = u.task, !.state = "BACKING_OFF"], "monitor_exit", faults)
    ELSE u

Reap(u, faults) ==
    LET v == [u EXCEPT !.task = IF @ \in Ended THEN "none" ELSE @]
    IN CASE u.task = "internal_failure" -> Terminal([v EXCEPT !.pending = "none"])
         [] u.task \in LostTransport ->
               Emit([v EXCEPT !.pending = u.task, !.state = "BACKING_OFF"], "monitor_exit", faults)
         [] OTHER -> v

(* _decide_action.                                                           *)
Starved(verdict) == verdict.marketData \in {"STARVED", "STALE"}

TransportDefect(verdict) == verdict.transport \in {"FLAPPING", "UNHEALTHY"}

DecideAction(u, verdict) ==
    IF u.terminal THEN "FAILED_CLOSED"
    ELSE IF u.session = "UNKNOWN" THEN "WAIT_FOR_CALENDAR"
    ELSE IF u.session # "OPEN" THEN "WAIT_FOR_SESSION"
    ELSE IF TransportDefect(verdict) /\ (u.pending \in LostTransport \/ ~u.armed)
         THEN "RESTART_TRANSPORT"
    ELSE IF Starved(verdict) THEN "HOLD_EXECUTION_ONLY"
    ELSE "KEEP_RUNNING"

Sleep(u, point, seconds) == [u EXCEPT !.pc = point, !.wake = now + seconds]

(* _graceful_cancel up to its await; without a task it returns at once, with *)
(* `otherwise' as what the caller does next.                                 *)
GracefulCancel(u, after, otherwise) ==
    IF u.task = "none" THEN otherwise
    ELSE Sleep([u EXCEPT !.task = "none", !.dying = TRUE, !.after = after], "cancel", 0)

(* The finally of run().                                                     *)
Shutdown(u) == GracefulCancel(u, "stop", [u EXCEPT !.pc = "done"])

(* _track_session_transition.                                                *)
TrackSessionTransition(u) ==
    [u EXCEPT !.restartTimes = IF u.wasActive /\ u.session # "OPEN" THEN <<>> ELSE @,
              !.wasActive = u.session = "OPEN"]

(* The end of the loop body.                                                 *)
EndTick(u) ==
    LET v == TrackSessionTransition(u)
    IN IF v.state = "FAILED_CLOSED" THEN Shutdown(v)
       ELSE IF MaxTicks > 0 /\ v.ticks >= MaxTicks THEN Shutdown([v EXCEPT !.state = "STOPPED"])
       ELSE Sleep(v, "sleep", PollInterval)

(* What _apply_action and _restart_transport do once the monitor is up, or   *)
(* could not be brought up.                                                  *)
AfterEnsureRunning(u, faults) ==
    IF u.terminal THEN EndTick(u)
    ELSE EndTick(Emit(IF u.action = "RESTART_TRANSPORT" THEN u
                      ELSE [u EXCEPT !.state = IF u.task = "none" THEN "IDLE_CLOSED" ELSE "RUNNING"],
                      "health_verdict", faults))

(* _ensure_running after the backoff: the restart is dated at the tick.      *)
StartMonitor(u, isRestart, faults) ==
    IF "factory" \in faults THEN AfterEnsureRunning(Terminal(u), faults)
    ELSE Sleep(Emit([u EXCEPT !.restartTimes = IF isRestart THEN Append(@, u.at) ELSE @,
                              !.restarts = IF isRestart THEN @ + 1 ELSE @,
                              !.pending = "none", !.task = "running", !.state = "RUNNING"],
                    "monitor_start", faults), "yield", 0)

EnsureRunning(u, isRestart, faults) ==
    IF u.task # "none" THEN AfterEnsureRunning([u EXCEPT !.state = "RUNNING"], faults)
    ELSE IF isRestart /\ ~RestartAllowed(u) THEN AfterEnsureRunning(Terminal(u), faults)
    ELSE IF isRestart /\ RestartBackoff > 0
         THEN Sleep(Emit(Trimmed(u), "restart_backoff", faults), "backoff", RestartBackoff)
    ELSE StartMonitor(u, isRestart, faults)

RestartTransport(u, faults) ==
    EnsureRunning([u EXCEPT !.state = "BACKING_OFF", !.armed = TRUE], TRUE, faults)

WaitingState ==
    [FAILED_CLOSED |-> "FAILED_CLOSED", WAIT_FOR_CALENDAR |-> "WAITING_CALENDAR",
     WAIT_FOR_SESSION |-> "IDLE_CLOSED"]

(* _apply_action, up to its first await.                                     *)
ApplyAction(u, faults) ==
    IF u.action \in DOMAIN WaitingState
    THEN LET v == [u EXCEPT !.state = WaitingState[u.action]]
         IN GracefulCancel(v, "verdict", EndTick(Emit(v, "health_verdict", faults)))
    ELSE IF u.action = "RESTART_TRANSPORT"
    THEN IF ~RestartAllowed(u) THEN EndTick(Terminal(u))
         ELSE GracefulCancel(u, "restart", RestartTransport(u, faults))
    ELSE IF u.task = "none" THEN EnsureRunning(u, u.pending \in LostTransport, faults)
    ELSE AfterEnsureRunning([u EXCEPT !.pending = "none"], faults)

-----------------------------------------------------------------------------
FaultSets == SUBSET (SinkFaults \cup (SupervisorFaults \cap {"factory"}))

(* Ghost: the restart a step made; the budget starts anew with the session.  *)
Logged ==
    log' = IF s'.session # "OPEN" THEN <<>>
           ELSE IF s'.restarts > s.restarts THEN Append(log, s'.at) ELSE log

(* One tick of run(), to its first await.                                    *)
Tick(faults) ==
    /\ s.pc = "sleep" /\ (now >= s.wake \/ now = MaxTime)
    /\ LET begun == [s EXCEPT !.ticks = IF MaxTicks > 0 THEN @ + 1 ELSE @, !.at = now,
                              !.session = SessionAt(now)]
           reaped == Reap(begun, faults)
           verdict == Verdict(h, SessionAt(now), now)
       IN s' = ApplyAction([reaped EXCEPT !.action = DecideAction(reaped, verdict)], faults)
    /\ h' = TrimEpochs(h, now)
    /\ Logged
    /\ UNCHANGED <<now, cancelled>>

(* The calendar provider raises.                                             *)
ProviderFails ==
    /\ "provider" \in SupervisorFaults
    /\ s.pc = "sleep" /\ (now >= s.wake \/ now = MaxTime)
    /\ s' = Shutdown(Terminal([s EXCEPT !.at = now]))
    /\ UNCHANGED <<now, h, cancelled, log>>

(* The restart backoff is over.                                              *)
BackoffEnds(faults) ==
    /\ s.pc = "backoff" /\ (now >= s.wake \/ now = MaxTime)
    /\ s' = StartMonitor(s, TRUE, faults)
    /\ Logged
    /\ UNCHANGED <<now, h, cancelled>>

(* asyncio.sleep(0) returns: the new monitor may already have ended.         *)
YieldEnds(faults) ==
    /\ s.pc = "yield"
    /\ s' = AfterEnsureRunning(Reap(s, faults), faults)
    /\ UNCHANGED <<now, h, cancelled, log>>

(* gather returns: the cancelled monitor reported its disconnect and ended.  *)
CancelEnds(faults) ==
    /\ s.pc = "cancel"
    /\ h' = RecordTransportEvent(h, "disconnect", now, now)
    /\ LET u == [s EXCEPT !.dying = FALSE, !.pending = "none"]
       IN s' = CASE s.after = "stop" -> [u EXCEPT !.pc = "done"]
                 [] s.after = "verdict" -> EndTick(Emit(u, "health_verdict", faults))
                 [] s.after = "restart" -> RestartTransport(u, faults)
    /\ Logged
    /\ UNCHANGED <<now, cancelled>>

-----------------------------------------------------------------------------
(* Somebody cancels the supervisor's task: CancelledError is raised at the   *)
(* await it is at.  Inside _graceful_cancel the suppress takes it.           *)
CancelSupervisor ==
    /\ "cancel" \in SupervisorFaults
    /\ ~cancelled /\ s.state # "IDLE" /\ s.pc # "done"
    /\ cancelled' = TRUE
    /\ s' = IF s.pc = "cancel" THEN s
            ELSE LET u == IF s.terminal THEN s ELSE [s EXCEPT !.state = "STOPPED"] IN Shutdown(u)
    /\ UNCHANGED <<now, h, log>>

MonitorAlive == s.task = "running" \/ s.dying

(* The monitor's evidence, through market_supervisor_adapter: record_transport *)
(* (a connection disarms the restart) and record_market.                     *)
Possible(kind) ==
    CASE kind = "connected" -> ~h.connected /\ Len(h.completed) < MaxEpochs
      [] kind = "all_subscribed" -> h.connected /\ ~h.allSubscribed
      [] OTHER -> h.connected

RecordTransport(kind) ==
    /\ MonitorAlive /\ Possible(kind)
    /\ h' = RecordTransportEvent(h, kind, now, now)
    /\ s' = IF kind = "connected" THEN [s EXCEPT !.armed = FALSE] ELSE s
    /\ UNCHANGED <<now, cancelled, log>>

RecordMarket(kind) ==
    /\ MonitorAlive /\ h.connected /\ h.allSubscribed /\ h.marketEvents < MaxMarketEvents
    /\ h' = RecordMarketEvent(h, kind, now, now)
    /\ UNCHANGED <<now, s, cancelled, log>>

(* The monitor ends by itself, after reporting that the connection is gone.  *)
MonitorEnds(reason) ==
    /\ s.task = "running"
    /\ h' = RecordTransportEvent(h, "disconnect", now, now)
    /\ s' = [s EXCEPT !.task = reason]
    /\ UNCHANGED <<now, cancelled, log>>

Pass ==
    /\ now < MaxTime
    /\ now' = now + 1
    /\ UNCHANGED <<h, s, cancelled, log>>

Step(faults) == Tick(faults) \/ BackoffEnds(faults) \/ YieldEnds(faults) \/ CancelEnds(faults)

Next ==
    \/ \E faults \in FaultSets : Step(faults)
    \/ ProviderFails
    \/ CancelSupervisor
    \/ \E kind \in TransportKind \ {"ping_received"} : RecordTransport(kind)
    \/ \E kind \in {"best_bid_ask", "trade"} : RecordMarket(kind)
    \/ \E reason \in Ended : MonitorEnds(reason)
    \/ Pass
    \/ s.pc = "done" /\ UNCHANGED vars

Spec == Init /\ [][Next]_vars

(* asyncio resumes a task whose await is over, and time passes; no fault is  *)
(* fair.                                                                     *)
Fairness == WF_vars(Step({})) /\ WF_vars(Pass)

LiveSpec == Spec /\ Fairness
-----------------------------------------------------------------------------
(* Within one OPEN session no window of RestartWindow holds more than the    *)
(* budgeted restarts, dated as _restart_times dates them (at the tick, not   *)
(* at the end of the backoff): trimming from the front never forgets one.    *)
RestartBudget ==
    \A i \in DOMAIN log :
        Cardinality({ j \in DOMAIN log : log[j] >= log[i] /\ log[j] <= log[i] + RestartWindow })
            <= MaxRestartsInWindow

(* A supervisor that has returned, failed or was cancelled leaves no monitor *)
(* running behind it, whatever it was doing.                                 *)
NoOrphanMonitor == s.pc = "done" => s.task # "running" /\ ~s.dying

(* "Starvation must never cancel the monitor": a running monitor is          *)
(* cancelled in an open session only when the transport itself is defective, *)
(* the supervisor fails closed, or it is asked to end.                       *)
CancelsOnlyForTransport ==
    /\ s'.dying /\ ~s.dying
    /\ ~cancelled' /\ ~s'.terminal
    /\ s'.session = "OPEN" /\ s'.state # "STOPPED"
    => TransportStatus(h, now) \in {"FLAPPING", "UNHEALTHY"}

(* After a tick outside the session no monitor is left, although a backoff   *)
(* that outlives the session still starts one.                               *)
IdleOutsideSession == s.pc = "sleep" /\ s.session # "OPEN" => s.task = "none"

(* A monitor that lost its transport in an open session is replaced, or the  *)
(* supervisor ends.                                                          *)
LostMonitorReplaced == (s.task \in LostTransport) ~> (s.task = "running" \/ s.pc = "done")

(* However the monitor ends and whoever cancels the supervisor: the restarts *)
(* stay within their budget, no monitor outlives the supervisor or stays up  *)
(* outside the session, and starvation alone never cancels one (run,         *)
(* _decide_action, _ensure_running, _graceful_cancel).                       *)
OneMonitorWithinBudget ==
    /\ [](RestartBudget /\ NoOrphanMonitor /\ IdleOutsideSession)
    /\ [][CancelsOnlyForTransport]_vars
=============================================================================
