---------------------------- MODULE MarketMonitor ----------------------------
(***************************************************************************)
(* The market monitor (src/market_data/monitor.py): connects to an event     *)
(* source, feeds the stores, watches the heartbeat and the runtime budget,   *)
(* and reconnects with backoff.  The stores may be read at any time.         *)
(***************************************************************************)
EXTENDS Naturals, Sequences

-----------------------------------------------------------------------------
(***************************************************************************)
(* The two in-memory stores behind the market monitor: the latest trade and *)
(* quote of each symbol with the heartbeat of each channel                  *)
(* (src/market_data/latest_state.py), and the bounded trade history of each *)
(* symbol (src/market_data/rolling_window.py).  A slot is a symbol's trade  *)
(* or quote; StreamOf gives the (provider, channel) it is fed from.         *)
(***************************************************************************)

CONSTANTS
    Slot, TradeSlot, StreamOf,
    HeartbeatStream,
    Nothing,
    MaxAge,             \* MarketStateFreshnessPolicy.max_age
    HardMaxEvents, HardMaxAge

ASSUME StoreConstants ==
    /\ TradeSlot \subseteq Slot
    /\ HardMaxEvents \in Nat \ {0} /\ HardMaxAge \in Nat /\ MaxAge \in Nat

(* An event: seq, the provider's time, the time it was received, and (ghost) *)
(* the connection it came over.                                              *)
Event(seq, at, received, conn) == [seq |-> seq, at |-> at, received |-> received, conn |-> conn]

FutureEvent(e, now) == e.at > now \/ e.received > now

(* _apply_market after the future check: the status of an event on the slot. *)
ApplyStatus(stored, e) ==
    IF stored = Nothing THEN "APPLIED"
    ELSE IF e.seq = stored.seq THEN "DUPLICATE"
    ELSE IF e.seq < stored.seq \/ e.received < stored.received \/ e.at < stored.at
         THEN "OUT_OF_ORDER"
    ELSE "APPLIED"

(* _apply_heartbeat.                                                         *)
HeartbeatStatus(stored, received) ==
    IF stored = Nothing THEN "APPLIED"
    ELSE IF received = stored THEN "DUPLICATE"
    ELSE IF received < stored THEN "OUT_OF_ORDER" ELSE "APPLIED"

(* LatestMarketStateStore.reset_stream.                                      *)
ResetLatest(latest, stream) ==
    [ x \in Slot |-> IF StreamOf[x] = stream THEN Nothing ELSE latest[x] ]

(* is_fresh, and require_fresh for a slot.                                   *)
Fresh(e, now) == e # Nothing /\ e.at <= now /\ now - e.at <= MaxAge

-----------------------------------------------------------------------------
(* A symbol's history: `last' is Nothing while no stream is adopted (before  *)
(* the first trade and after a reset).                                       *)
NewHistory ==
    [samples |-> <<>>, last |-> Nothing, epoch |-> 0, evicted |-> 0, evictedThrough |-> Nothing]

(* _truncate: the count cap, then the age cap that keeps the latest one.     *)
Excess(samples) ==
    IF Len(samples) > HardMaxEvents THEN Len(samples) - HardMaxEvents ELSE 0

Overage(samples) ==
    LET latest == samples[Len(samples)].at
        old == { i \in 1..(Len(samples) - 1) : \A j \in 1..i : samples[j].at + HardMaxAge < latest }
    IN IF old = {} THEN 0 ELSE CHOOSE i \in old : \A j \in old : j <= i

Truncate(s) ==
    LET drop == IF Excess(s.samples) > Overage(s.samples) THEN Excess(s.samples) ELSE Overage(s.samples)
    IN IF drop = 0 THEN s
       ELSE [s EXCEPT !.samples = SubSeq(@, drop + 1, Len(@)),
                      !.evicted = @ + drop,
                      !.evictedThrough = s.samples[drop].at]

(* observe: the first trade opens epoch 1, the first one after a reset keeps *)
(* the epoch of the reset.                                                   *)
ObserveStatus(s, e, now) ==
    IF FutureEvent(e, now) THEN "OUT_OF_ORDER" ELSE ApplyStatus(s.last, e)

Observe(s, e, now) ==
    IF ObserveStatus(s, e, now) # "APPLIED" THEN s
    ELSE Truncate([s EXCEPT !.samples = IF s.last = Nothing THEN <<e>> ELSE Append(@, e),
                            !.last = e,
                            !.epoch = IF @ = 0 THEN 1 ELSE @])

(* RollingTradeHistoryStore.reset_stream: only histories that have adopted   *)
(* the stream.                                                               *)
ResetHistory(s) ==
    IF s.last = Nothing THEN s ELSE [NewHistory EXCEPT !.epoch = s.epoch + 1]


ResetRolling(rolling, stream) ==
    [ x \in TradeSlot |-> IF StreamOf[x] = stream THEN ResetHistory(rolling[x]) ELSE rolling[x] ]

-----------------------------------------------------------------------------

CONSTANTS
    MaxAttempts,            \* ReconnectPolicy.max_attempts
    HeartbeatTimeout, MaxRuntime, MaxEvents,
    Faults,                 \* internal defects that may happen: "sink", "hook", "reset"
    MaxSeq, MaxTime, MaxConnections

VARIABLES
    now,
    latest, beat, rolling,  \* the stores
    m,                      \* the monitor's fields
    pc,                     \* "start", "wait", "backoff" or "end"
    deadline, reason        \* of the wait for the next event

vars == <<now, latest, beat, rolling, m, pc, deadline, reason>>
stores == <<latest, beat, rolling>>

Init ==
    /\ now = 0
    /\ latest = [ x \in Slot |-> Nothing ]
    /\ beat = Nothing
    /\ rolling = [ x \in TradeSlot |-> NewHistory ]
    /\ m = [state |-> "IDLE", attempt |-> 0, failures |-> 0, applied |-> 0, consumed |-> 0,
            seen |-> {}, pending |-> {}, epochStartedAt |-> 0]
    /\ pc = "start" /\ deadline = 0 /\ reason = "none"

(* _heartbeat_deadline: a heartbeat of an earlier connection does not count. *)
HeartbeatDeadline(u, b) ==
    (IF HeartbeatStream \notin u.pending /\ b # Nothing THEN b ELSE u.epochStartedAt) + HeartbeatTimeout

(* _next_event_timeout: the nearer deadline, the runtime first on a tie.     *)
WaitForLater(u, b) ==
    /\ pc' = "wait"
    /\ reason' = IF MaxRuntime >= HeartbeatDeadline(u, b) THEN "runtime" ELSE "heartbeat"
    /\ deadline' = IF MaxRuntime >= HeartbeatDeadline(u, b) THEN MaxRuntime
                                                            ELSE HeartbeatDeadline(u, b)

Wait(u, b) ==
    /\ pc' = "wait"
    /\ reason' = IF MaxRuntime <= HeartbeatDeadline(u, b) THEN "runtime" ELSE "heartbeat"
    /\ deadline' = IF MaxRuntime <= HeartbeatDeadline(u, b) THEN MaxRuntime
                                                            ELSE HeartbeatDeadline(u, b)

End(u, state) ==
    /\ pc' = "end"
    /\ m' = [u EXCEPT !.state = state]
    /\ UNCHANGED <<deadline, reason>>

(* The head of the loop of run(), and after the backoff.                     *)
Connect ==
    /\ pc \in {"start", "backoff"} /\ m.attempt < MaxConnections
    /\ m' = [m EXCEPT !.attempt = @ + 1, !.applied = 0, !.state = "CONNECTING",
                      !.epochStartedAt = now]
    /\ Wait(m', beat)
    /\ UNCHANGED <<now, stores>>

(* A "drop" outcome in run().                                                *)
FailuresAfter(u) == IF u.applied > 0 THEN 0 ELSE u.failures + 1

PendingAfterDrop(u) == u.pending \cup u.seen

Drop ==
    LET failures == FailuresAfter(m)
    IN IF failures >= MaxAttempts THEN End([m EXCEPT !.failures = failures], "EXHAUSTED")
       ELSE /\ pc' = "backoff"
            /\ m' = [m EXCEPT !.failures = failures, !.pending = PendingAfterDrop(m),
                              !.state = "BACKING_OFF"]
            /\ UNCHANGED <<deadline, reason>>

(* The source factory or the iterator fails, or receiving times out.         *)
SourceFails ==
    /\ pc = "wait"
    /\ Drop
    /\ UNCHANGED <<now, stores>>

(* wait_for times out; the reason is the one chosen before the wait.         *)
TimesOut ==
    /\ pc = "wait" /\ now >= deadline
    /\ IF reason = "runtime" THEN End(m, "STOPPED") ELSE Drop
    /\ UNCHANGED <<now, stores>>

EndOfSource ==
    /\ pc = "wait"
    /\ End(m, "STOPPED")
    /\ UNCHANGED <<now, stores>>

Cancelled ==
    /\ pc \in {"wait", "backoff"}
    /\ End(m, "STOPPED")
    /\ UNCHANGED <<now, stores>>

-----------------------------------------------------------------------------
(* _consume, first half: the first event of a stream after a reconnect       *)
(* resets the stream in both stores.                                         *)
AfterReset(stream) ==
    IF stream \in m.pending
    THEN [latest |-> ResetLatest(latest, stream), rolling |-> ResetRolling(rolling, stream),
          beat |-> IF stream = HeartbeatStream THEN Nothing ELSE beat]
    ELSE [latest |-> latest, rolling |-> rolling, beat |-> beat]

Consumed(stream) ==
    [m EXCEPT !.pending = @ \ {stream}, !.seen = @ \cup {stream}, !.consumed = @ + 1,
              !.state = "RUNNING"]

(* The tail of the loop of _run_attempt: the event and runtime budgets.      *)
NextEvent(u, b) ==
    IF u.consumed >= MaxEvents \/ now >= MaxRuntime
    THEN End(u, "STOPPED")
    ELSE m' = u /\ Wait(u, b)

(* A trade or a quote.  A MonitorInternalError (a failing reset, sink or     *)
(* hook, or a rolling store that refuses what the latest store applied) ends *)
(* the monitor where it is.                                                  *)
ConsumeMarket(x, e, fault) ==
    /\ pc = "wait"
    /\ LET st == AfterReset(StreamOf[x])
           u == Consumed(StreamOf[x])
           status == IF FutureEvent(e, now) THEN "FUTURE" ELSE ApplyStatus(st.latest[x], e)
           applied == status = "APPLIED"
           refused == /\ applied /\ x \in TradeSlot
                      /\ ObserveStatus(st.rolling[x], e, now) # "APPLIED"
       IN IF fault = "reset"
          THEN /\ StreamOf[x] \in m.pending
               /\ latest' = st.latest
               /\ UNCHANGED <<beat, rolling>>
               /\ End(m, "INTERNAL")
          ELSE /\ latest' = IF applied THEN [st.latest EXCEPT ![x] = e] ELSE st.latest
               /\ rolling' = IF applied /\ x \in TradeSlot
                             THEN [st.rolling EXCEPT ![x] = Observe(@, e, now)] ELSE st.rolling
               /\ beat' = st.beat
               /\ IF refused \/ fault \in {"sink", "hook"}
                  THEN /\ fault = "hook" => applied
                       /\ End(u, "INTERNAL")
                  ELSE NextEvent([u EXCEPT !.applied = IF applied THEN @ + 1 ELSE @], st.beat)
    /\ UNCHANGED now

ConsumeHeartbeat(received) ==
    /\ pc = "wait"
    /\ LET st == AfterReset(HeartbeatStream)
           applied == received <= now /\ HeartbeatStatus(st.beat, received) = "APPLIED"
       IN /\ beat' = IF applied THEN received ELSE st.beat
          /\ NextEvent(Consumed(HeartbeatStream), IF applied THEN received ELSE st.beat)
    /\ UNCHANGED <<now, latest, rolling>>

(* Time counts from the start of the monitor.                                *)
Pass ==
    /\ now < MaxTime /\ pc # "start"
    /\ now' = now + 1
    /\ UNCHANGED <<stores, m, pc, deadline, reason>>

(* Sequences count from 1 on every connection, and may repeat or go back;    *)
(* the provider's time runs behind or ahead of ours.                         *)
Events == { Event(seq, at, now, m.attempt) : seq \in 1..MaxSeq, at \in {now, now + 1} }

Next ==
    \/ Connect
    \/ SourceFails
    \/ TimesOut
    \/ EndOfSource
    \/ Cancelled
    \/ \E x \in Slot, e \in Events, fault \in Faults \cup {"none"} : ConsumeMarket(x, e, fault)
    \/ \E received \in {now, now + 1} : ConsumeHeartbeat(received)
    \/ Pass
    \/ pc = "end" /\ UNCHANGED vars

Spec == Init /\ [][Next]_vars

(* The event loop resumes a finished backoff and a timed-out wait.           *)
LiveSpec == Spec /\ WF_vars(Connect) /\ WF_vars(TimesOut) /\ WF_vars(Pass)
-----------------------------------------------------------------------------
(* No stream mixes connections: what is stored for a stream that has spoken  *)
(* since the reconnect came over the current connection, and a history holds *)
(* one connection's trades in order.                                         *)
NoMixedConnections ==
    /\ pc = "wait" => \A x \in Slot :
         latest[x] # Nothing => latest[x].conn = m.attempt \/ StreamOf[x] \in m.pending
    /\ \A x \in TradeSlot : \A i, j \in DOMAIN rolling[x].samples : i < j =>
         /\ rolling[x].samples[i].conn = rolling[x].samples[j].conn
         /\ rolling[x].samples[i].seq < rolling[x].samples[j].seq

(* The rolling store has the trade the latest store has, so it never refuses *)
(* a trade the latest store applied (the RTM invariant behind                *)
(* MonitorInternalError): only a defect of the reset can part them.          *)
StoresAgree ==
    m.state # "INTERNAL" => \A x \in TradeSlot :
        /\ rolling[x].last = latest[x]
        /\ latest[x] # Nothing => rolling[x].samples[Len(rolling[x].samples)] = latest[x]

(* What a history forgot is older than everything it still has, and it never *)
(* exceeds its caps.                                                         *)
HistoryBounded ==
    \A x \in TradeSlot : LET s == rolling[x].samples IN
        /\ Len(s) <= HardMaxEvents
        /\ \A i \in DOMAIN s : s[i].at + HardMaxAge >= s[Len(s)].at
        /\ rolling[x].evicted > 0 => \A i \in DOMAIN s : s[i].at >= rolling[x].evictedThrough

(* The watchdog drops a connection for its heartbeat only when that very     *)
(* connection has been up, and silent, for the whole timeout: neither the    *)
(* time spent in backoff nor a heartbeat of the previous one counts.         *)
BeatOfThisConnection == beat # Nothing /\ HeartbeatStream \notin m.pending

WatchdogFair ==
    reason = "heartbeat" /\ TimesOut =>
        /\ now >= m.epochStartedAt + HeartbeatTimeout
        /\ BeatOfThisConnection => now >= beat + HeartbeatTimeout

(* EXHAUSTED means MaxAttempts connections in a row delivered no trade and   *)
(* no quote that was applied: one that did starts the count again.           *)
ExhaustedMeansFruitless ==
    m'.state = "EXHAUSTED" /\ m.state # "EXHAUSTED" => m.applied = 0 /\ m.attempt >= MaxAttempts

(* A source that never speaks does not keep the monitor for ever: it ends,   *)
(* by its runtime or by exhaustion.                                          *)
MonitorEnds == <>(pc = "end")
=============================================================================
