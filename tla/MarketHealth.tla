---------------------------- MODULE MarketHealth ----------------------------
(***************************************************************************)
(* The health tracker of the market feed (src/market_data/health_policy.py):*)
(* a state machine over neutral transport and market signals, and the       *)
(* verdict read from it at an instant.  Signals carry their own time `at',  *)
(* so they arrive late, twice or out of order.                              *)
(***************************************************************************)
EXTENDS Naturals, Sequences

CONSTANTS
    NoTime,
    SubscriptionGrace, HeartbeatTimeout, MinimumStableUptime,
    FlappingWindow, FlappingMaxShortEpochs, FlappingMinUptime, FlappingMinMarketEvents,
    QuoteGrace, QuoteStarvation, MaxQuoteAge,
    MaxEpochHistory

(* HealthThresholds.__post_init__.                                          *)
ASSUME HealthThresholds ==
    /\ {SubscriptionGrace, HeartbeatTimeout, MinimumStableUptime, FlappingWindow,
        FlappingMinUptime, QuoteGrace, QuoteStarvation, MaxQuoteAge} \subseteq Nat \ {0}
    /\ FlappingMaxShortEpochs \in Nat \ {0}
    /\ FlappingMinMarketEvents \in Nat
    /\ MaxEpochHistory \in Nat \ {0}

TransportKind == {"connected", "all_subscribed", "disconnect", "ping_received", "pong_sent"}
MarketKind == {"best_bid_ask", "trade", "heartbeat"}

TransportHealth == {"HEALTHY", "WARMING", "FLAPPING", "UNHEALTHY", "UNKNOWN"}
MarketDataHealth == {"HEALTHY", "WARMING", "STARVED", "STALE", "UNKNOWN", "NOT_EXPECTED"}

(* The fields of a new MarketHealthTracker.                                 *)
NewTracker ==
    [connected |-> FALSE, allSubscribed |-> FALSE, epochConnectedAt |-> NoTime,
     lastPongAt |-> NoTime, lastTransportAt |-> NoTime, lastQuoteAt |-> NoTime,
     lastMarketAt |-> NoTime, marketEvents |-> 0, completed |-> <<>>]

Before(a, b) == b # NoTime /\ a < b


BeginEpoch(h, at) ==
    [h EXCEPT !.connected = TRUE, !.allSubscribed = FALSE, !.epochConnectedAt = at,
              !.lastPongAt = NoTime, !.marketEvents = 0]

Epoch(h, at) ==
    [disconnectedAt |-> at, uptime |-> at - h.epochConnectedAt, marketEvents |-> h.marketEvents]

(* _finalize_epoch: the finished epoch joins a bounded history.             *)
Finalized(h, at) ==
    LET done == Append(h.completed, Epoch(h, at))
    IN IF Len(done) > MaxEpochHistory THEN Tail(done) ELSE done

FinalizeEpoch(h, at) ==
    IF h.epochConnectedAt = NoTime THEN h
    ELSE [h EXCEPT !.completed = Finalized(h, at), !.epochConnectedAt = NoTime, !.marketEvents = 0]

(* The early returns of record_transport_event; the last one is the signals *)
(* that need a connection.                                                  *)
TransportRecorded(h, kind, at, now) ==
    /\ at <= now
    /\ kind # "connected" => ~Before(at, h.epochConnectedAt)
    /\ ~Before(at, h.lastTransportAt)
    /\ ~(kind \in {"ping_received", "pong_sent"} /\ h.lastPongAt = at)
    /\ kind # "connected" => h.connected

RecordTransportEvent(h, kind, at, now) ==
    IF ~TransportRecorded(h, kind, at, now) THEN h
    ELSE LET next ==
               CASE kind = "connected" ->
                      BeginEpoch(IF h.connected THEN FinalizeEpoch(h, at) ELSE h, at)
                 [] kind = "all_subscribed" -> [h EXCEPT !.allSubscribed = TRUE]
                 [] kind = "disconnect" ->
                      [FinalizeEpoch(h, at) EXCEPT !.connected = FALSE, !.allSubscribed = FALSE]
                 [] OTHER -> [h EXCEPT !.lastPongAt = at]
         IN [next EXCEPT !.lastTransportAt = at]

MarketRecorded(h, at, now) ==
    /\ at <= now
    /\ ~Before(at, h.epochConnectedAt)
    /\ ~Before(at, h.lastMarketAt)

RecordMarketEvent(h, kind, at, now) ==
    IF ~MarketRecorded(h, at, now) THEN h
    ELSE [h EXCEPT !.lastMarketAt = at,
                   !.lastQuoteAt = IF kind = "best_bid_ask" THEN at ELSE @,
                   !.marketEvents = IF kind = "heartbeat" THEN @ ELSE @ + 1]

(* _trim_epochs: drops from the front until one is inside the window.       *)
InWindow(e, now) == e.disconnectedAt + FlappingWindow >= now

TrimEpochs(h, now) ==
    LET kept == { i \in 1..Len(h.completed) : InWindow(h.completed[i], now) }
        first == CHOOSE i \in kept : \A j \in kept : i <= j
    IN [h EXCEPT !.completed = IF kept = {} THEN <<>> ELSE SubSeq(@, first, Len(@))]

ShortUnstable(e) == e.uptime < FlappingMinUptime /\ e.marketEvents < FlappingMinMarketEvents

ShortEpochs(h, now) == Len(SelectSeq(TrimEpochs(h, now).completed, ShortUnstable))

(* _transport_status: flapping is judged before warming, and a pong of an   *)
(* earlier epoch does not count.                                            *)
Stable(h, now) == now - h.epochConnectedAt >= MinimumStableUptime

Silent(h, now) ==
    IF h.lastPongAt # NoTime THEN now - h.lastPongAt > HeartbeatTimeout
    ELSE now - h.epochConnectedAt > HeartbeatTimeout

TransportStatus(h, now) ==
    IF ShortEpochs(h, now) >= FlappingMaxShortEpochs THEN "FLAPPING"
    ELSE IF h.epochConnectedAt = NoTime /\ ~h.connected
         THEN IF TrimEpochs(h, now).completed # <<>> THEN "UNHEALTHY" ELSE "UNKNOWN"
    ELSE IF ~h.allSubscribed
         THEN IF now - h.epochConnectedAt <= SubscriptionGrace THEN "WARMING" ELSE "UNHEALTHY"
    ELSE IF Silent(h, now) THEN "UNHEALTHY"
    ELSE IF ~Stable(h, now) THEN "WARMING"
    ELSE "HEALTHY"

(* _market_data_status; quotes are expected while the session is OPEN.      *)
MarketDataStatus(h, session, now) ==
    IF session # "OPEN" THEN "NOT_EXPECTED"
    ELSE IF h.lastQuoteAt # NoTime
         THEN LET age == now - h.lastQuoteAt
              IN IF age > MaxQuoteAge THEN "STALE"
                 ELSE IF age > QuoteStarvation THEN "STARVED" ELSE "HEALTHY"
         ELSE IF h.epochConnectedAt = NoTime THEN "UNKNOWN"
              ELSE IF now - h.epochConnectedAt <= QuoteGrace THEN "WARMING" ELSE "STARVED"

(* evaluate, and is_execution_ready of its verdict.                         *)
Verdict(h, session, now) ==
    [transport |-> TransportStatus(h, now), marketData |-> MarketDataStatus(h, session, now)]

ExecutionReady(verdict) == verdict.transport = "HEALTHY" /\ verdict.marketData = "HEALTHY"
=============================================================================
