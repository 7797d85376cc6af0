------------------------- MODULE MarketHealthTracking -------------------------
(***************************************************************************)
(* One MarketHealthTracker fed by signals that are delayed, duplicated,      *)
(* reordered or stamped in the future, and evaluated at any time.            *)
(***************************************************************************)
EXTENDS MarketHealth, FiniteSets, TLAPS

CONSTANTS MaxTime, MaxDelay, MaxEpochs, MaxMarketEvents

VARIABLES
    h,
    now,
    history     \* ghost: every epoch that has ended, in order

vars == <<h, now, history>>

Init ==
    /\ h = NewTracker
    /\ now = 0
    /\ history = <<>>

Stamps == { at \in 0..(MaxTime + 1) : at <= now + 1 /\ now <= at + MaxDelay }

(* record_transport_event, with a ghost record of the epoch it ends.         *)
RecordTransport(kind, at) ==
    /\ Len(history) < MaxEpochs \/ ~h.connected \/ kind \notin {"connected", "disconnect"}
    /\ h' = RecordTransportEvent(h, kind, at, now)
    /\ history' = IF kind \in {"connected", "disconnect"} /\ h.connected
                        /\ TransportRecorded(h, kind, at, now)
                  THEN Append(history, Epoch(h, at)) ELSE history
    /\ UNCHANGED now

RecordMarket(kind, at) ==
    /\ h.marketEvents < MaxMarketEvents
    /\ h' = RecordMarketEvent(h, kind, at, now)
    /\ UNCHANGED <<now, history>>

(* evaluate: reading the verdict also trims the history of epochs.           *)
Evaluate ==
    /\ h' = TrimEpochs(h, now)
    /\ UNCHANGED <<now, history>>

Tick ==
    /\ now < MaxTime
    /\ now' = now + 1
    /\ UNCHANGED <<h, history>>

Next ==
    \/ \E kind \in TransportKind, at \in Stamps : RecordTransport(kind, at)
    \/ \E kind \in MarketKind, at \in Stamps : RecordMarket(kind, at)
    \/ Evaluate
    \/ Tick

Spec == Init /\ [][Next]_vars

(* A tracker is connected exactly while it has the start of an epoch: every  *)
(* verdict that subtracts _epoch_connected_at finds a time there, and a      *)
(* disconnect always ends an epoch.                                          *)
EpochHasStart == h.connected <=> h.epochConnectedAt # NoTime

(* What the verdict of a connected tracker reads is of the current epoch: no *)
(* pong from before the connection, and no more events than since it.        *)
PongOfThisEpoch ==
    h.connected /\ h.lastPongAt # NoTime => h.lastPongAt >= h.epochConnectedAt

(* Execution-ready means live: the connection is subscribed and has been up  *)
(* for the stable uptime, and the quote that makes the data HEALTHY came     *)
(* over it, although _last_quote_at survives a reconnect.  It rests on       *)
(* QuoteStarvation < MinimumStableUptime.                                    *)
ReadyMeansThisEpoch ==
    ExecutionReady(Verdict(h, "OPEN", now)) =>
        /\ h.connected /\ h.allSubscribed
        /\ now - h.epochConnectedAt >= MinimumStableUptime
        /\ h.lastQuoteAt >= h.epochConnectedAt

(* FLAPPING is exactly "too many short, event-starved epochs ended inside    *)
(* the window", counted over the whole past: neither the trimming from the   *)
(* front at earlier evaluations nor the bounded history changes the verdict  *)
(* except for epochs beyond the history bound.                               *)
RecentEpochs ==
    SubSeq(history, IF Len(history) > MaxEpochHistory THEN Len(history) - MaxEpochHistory + 1 ELSE 1,
           Len(history))

FlappingCountsWindow ==
    TransportStatus(h, now) = "FLAPPING" <=>
        Cardinality({ i \in DOMAIN RecentEpochs :
            /\ RecentEpochs[i].uptime < FlappingMinUptime
            /\ RecentEpochs[i].marketEvents < FlappingMinMarketEvents
            /\ now - RecentEpochs[i].disconnectedAt <= FlappingWindow }) >= FlappingMaxShortEpochs

-----------------------------------------------------------------------------
(* No time is mistaken for none, and a quote is too old for a HEALTHY market *)
(* before a connection is stable: what ReadyMeansThisEpoch rests on.         *)
TrackingConstants ==
    /\ NoTime \notin Nat
    /\ MaxTime \in Nat /\ MaxDelay \in Nat
    /\ QuoteStarvation < MinimumStableUptime

(* The inductive invariant; the history of epochs plays no part in it.       *)
TrackerRecord(t) ==
    LET Time == Nat \cup {NoTime} IN
    t \in [connected: BOOLEAN, allSubscribed: BOOLEAN, epochConnectedAt: Time, lastPongAt: Time,
           lastTransportAt: Time, lastQuoteAt: Time, lastMarketAt: Time, marketEvents: Nat,
           completed: {t.completed}]

TrackerInv ==
    /\ now \in Nat
    /\ TrackerRecord(h)
    /\ EpochHasStart
    /\ PongOfThisEpoch

LEMMA InitTrackerInv ==
    ASSUME TrackingConstants, Init
    PROVE  TrackerInv
  BY DEF Init, NewTracker, TrackerInv, TrackerRecord, EpochHasStart, PongOfThisEpoch

(* A verdict of HEALTHY on both counts is of a connection that is up, and of *)
(* a quote younger than it.                                                  *)
LEMMA ReadyIsOfThisEpoch ==
    ASSUME TrackingConstants, TrackerInv
    PROVE  ReadyMeansThisEpoch
  <1> SUFFICES ASSUME ExecutionReady(Verdict(h, "OPEN", now))
               PROVE  /\ h.connected /\ h.allSubscribed
                      /\ now - h.epochConnectedAt >= MinimumStableUptime
                      /\ h.lastQuoteAt >= h.epochConnectedAt
    BY DEF ReadyMeansThisEpoch
  <1>1. TransportStatus(h, now) = "HEALTHY" /\ MarketDataStatus(h, "OPEN", now) = "HEALTHY"
    BY DEF ExecutionReady, Verdict
  <1>2. /\ ~(h.epochConnectedAt = NoTime /\ ~h.connected)
        /\ h.allSubscribed /\ Stable(h, now)
    BY <1>1 DEF TransportStatus
  <1>3. h.lastQuoteAt # NoTime /\ ~(now - h.lastQuoteAt > QuoteStarvation)
    BY <1>1 DEF MarketDataStatus
  <1>4. h.connected /\ h.epochConnectedAt # NoTime
    BY <1>2 DEF TrackerInv, EpochHasStart
  <1>5. h.epochConnectedAt \in Nat /\ h.lastQuoteAt \in Nat /\ now \in Nat
    BY <1>3, <1>4 DEF TrackerInv, TrackerRecord
  <1>6. QuoteStarvation \in Nat /\ MinimumStableUptime \in Nat
    BY HealthThresholds
  <1> QED
    BY <1>2, <1>3, <1>4, <1>5, <1>6 DEF Stable, TrackingConstants

(* A new epoch forgets the pong of the last; an ended one has no start.      *)
LEMMA BeginEpochKeeps ==
    ASSUME NEW t, TrackerRecord(t), NEW at \in Nat
    PROVE  LET b == BeginEpoch(t, at) IN
           /\ TrackerRecord(b) /\ b.connected /\ b.epochConnectedAt = at /\ b.lastPongAt = NoTime
  BY DEF TrackerRecord, BeginEpoch

LEMMA FinalizeEpochKeeps ==
    ASSUME NEW t, TrackerRecord(t), NEW at \in Nat
    PROVE  LET f == FinalizeEpoch(t, at) IN
           /\ TrackerRecord(f) /\ f.epochConnectedAt = NoTime
  BY DEF TrackerRecord, FinalizeEpoch

(* The two facts about the epoch, of any tracker record.                     *)
EpochFacts(t) ==
    /\ t.connected <=> t.epochConnectedAt # NoTime
    /\ t.connected /\ t.lastPongAt # NoTime => t.lastPongAt >= t.epochConnectedAt

LEMMA TransportKeeps ==
    ASSUME TrackingConstants, TrackerInv, NEW kind \in TransportKind, NEW at \in Nat
    PROVE  LET t == RecordTransportEvent(h, kind, at, now) IN
           TrackerRecord(t) /\ EpochFacts(t)
  <1>0. TrackerRecord(h) /\ EpochFacts(h) /\ now \in Nat /\ at # NoTime
    BY DEF TrackerInv, EpochHasStart, PongOfThisEpoch, EpochFacts, TrackingConstants
  <1>1. CASE ~TransportRecorded(h, kind, at, now)
    BY <1>0, <1>1 DEF RecordTransportEvent
  <1> DEFINE Stamped(t) == [t EXCEPT !.lastTransportAt = at]
  <1>2. ASSUME NEW t, TrackerRecord(t), EpochFacts(t)
        PROVE  TrackerRecord(Stamped(t)) /\ EpochFacts(Stamped(t))
    BY <1>2 DEF TrackerRecord, EpochFacts
  <1>3. CASE TransportRecorded(h, kind, at, now) /\ kind = "connected"
    <2> DEFINE f == IF h.connected THEN FinalizeEpoch(h, at) ELSE h
               b == BeginEpoch(f, at)
    <2>1. TrackerRecord(f)
      BY <1>0, FinalizeEpochKeeps
    <2> HIDE DEF f
    <2>2. TrackerRecord(b) /\ b.connected /\ b.epochConnectedAt = at /\ b.lastPongAt = NoTime
      BY <2>1, BeginEpochKeeps
    <2>3. RecordTransportEvent(h, kind, at, now) = Stamped(b)
      BY <1>3 DEF RecordTransportEvent, f
    <2> HIDE DEF b, Stamped
    <2>4. EpochFacts(b)
      BY <1>0, <2>2 DEF EpochFacts
    <2> QED
      BY <1>2, <2>2, <2>3, <2>4
  <1>4. CASE TransportRecorded(h, kind, at, now) /\ kind = "all_subscribed"
    <2> DEFINE b == [h EXCEPT !.allSubscribed = TRUE]
    <2>1. TrackerRecord(b) /\ EpochFacts(b)
      BY <1>0 DEF TrackerRecord, EpochFacts
    <2>2. RecordTransportEvent(h, kind, at, now) = Stamped(b)
      BY <1>4 DEF RecordTransportEvent
    <2> HIDE DEF b, Stamped
    <2> QED
      BY <1>2, <2>1, <2>2
  <1>5. CASE TransportRecorded(h, kind, at, now) /\ kind = "disconnect"
    <2> DEFINE f == FinalizeEpoch(h, at)
               b == [f EXCEPT !.connected = FALSE, !.allSubscribed = FALSE]
    <2>1. TrackerRecord(f) /\ f.epochConnectedAt = NoTime
      BY <1>0, FinalizeEpochKeeps
    <2>2. RecordTransportEvent(h, kind, at, now) = Stamped(b)
      BY <1>5 DEF RecordTransportEvent
    <2> HIDE DEF f
    <2>3. TrackerRecord(b) /\ EpochFacts(b)
      BY <2>1 DEF TrackerRecord, EpochFacts
    <2> HIDE DEF b, Stamped
    <2> QED
      BY <1>2, <2>2, <2>3
  <1>6. CASE TransportRecorded(h, kind, at, now) /\ kind \in {"ping_received", "pong_sent"}
    <2> DEFINE b == [h EXCEPT !.lastPongAt = at]
    <2>1. h.connected /\ ~Before(at, h.epochConnectedAt)
      BY <1>6 DEF TransportRecorded
    <2>2. h.epochConnectedAt \in Nat /\ at >= h.epochConnectedAt
      BY <1>0, <2>1 DEF TrackerRecord, EpochFacts, Before
    <2>3. TrackerRecord(b) /\ EpochFacts(b)
      BY <1>0, <2>2 DEF TrackerRecord, EpochFacts
    <2>4. RecordTransportEvent(h, kind, at, now) = Stamped(b)
      BY <1>6 DEF RecordTransportEvent
    <2> HIDE DEF b, Stamped
    <2> QED
      BY <1>2, <2>3, <2>4
  <1> QED
    BY <1>1, <1>3, <1>4, <1>5, <1>6 DEF TransportKind

LEMMA MarketKeeps ==
    ASSUME TrackingConstants, TrackerInv, NEW kind, NEW at \in Nat
    PROVE  LET t == RecordMarketEvent(h, kind, at, now) IN
           TrackerRecord(t) /\ EpochFacts(t)
  <1>1. TrackerRecord(h) /\ EpochFacts(h)
    BY DEF TrackerInv, EpochHasStart, PongOfThisEpoch, EpochFacts
  <1>2. CASE ~MarketRecorded(h, at, now)
    BY <1>1, <1>2 DEF RecordMarketEvent
  <1>3. CASE MarketRecorded(h, at, now)
    <2> DEFINE q == IF kind = "best_bid_ask" THEN at ELSE h.lastQuoteAt
               n == IF kind = "heartbeat" THEN h.marketEvents ELSE h.marketEvents + 1
               b == [h EXCEPT !.lastMarketAt = at, !.lastQuoteAt = q, !.marketEvents = n]
    <2>1. RecordMarketEvent(h, kind, at, now) = b
      BY <1>1, <1>3 DEF RecordMarketEvent, TrackerRecord
    <2>2. q \in Nat \cup {NoTime} /\ n \in Nat
      BY <1>1 DEF TrackerRecord
    <2> HIDE DEF q, n
    <2>3. TrackerRecord(b) /\ EpochFacts(b)
      BY <1>1, <2>2 DEF TrackerRecord, EpochFacts
    <2> QED
      BY <2>1, <2>3
  <1> QED
    BY <1>2, <1>3

LEMMA NextTrackerInv ==
    ASSUME TrackingConstants, TrackerInv, [Next]_vars
    PROVE  TrackerInv'
  <1>1. TrackerRecord(h) /\ EpochFacts(h) /\ now \in Nat
    BY DEF TrackerInv, EpochHasStart, PongOfThisEpoch, EpochFacts
  <1>2. \A at \in Stamps : at \in Nat
    BY DEF Stamps, TrackingConstants
  <1>3. CASE \E kind \in TransportKind, at \in Stamps : RecordTransport(kind, at)
    <2>1. PICK kind \in TransportKind, at \in Stamps : RecordTransport(kind, at)
      BY <1>3
    <2>2. h' = RecordTransportEvent(h, kind, at, now) /\ now' = now
      BY <2>1 DEF RecordTransport
    <2>3. TrackerRecord(h') /\ EpochFacts(h')
      BY <1>2, <2>2, TransportKeeps
    <2> QED
      BY <1>1, <2>2, <2>3 DEF TrackerInv, EpochHasStart, PongOfThisEpoch, EpochFacts, TrackerRecord
  <1>4. CASE \E kind \in MarketKind, at \in Stamps : RecordMarket(kind, at)
    <2>1. PICK kind \in MarketKind, at \in Stamps : RecordMarket(kind, at)
      BY <1>4
    <2>2. h' = RecordMarketEvent(h, kind, at, now) /\ now' = now
      BY <2>1 DEF RecordMarket
    <2>3. TrackerRecord(h') /\ EpochFacts(h')
      BY <1>2, <2>2, MarketKeeps
    <2> QED
      BY <1>1, <2>2, <2>3 DEF TrackerInv, EpochHasStart, PongOfThisEpoch, EpochFacts, TrackerRecord
  <1>5. CASE Evaluate
    <2>1. PICK c : h' = [h EXCEPT !.completed = c] /\ now' = now
      BY <1>5 DEF Evaluate, TrimEpochs
    <2> QED
      BY <1>1, <2>1 DEF TrackerInv, EpochHasStart, PongOfThisEpoch, EpochFacts, TrackerRecord
  <1>6. CASE Tick
    BY <1>1, <1>6 DEF Tick, TrackerInv, EpochHasStart, PongOfThisEpoch, TrackerRecord
  <1>7. CASE UNCHANGED vars
    BY <1>1, <1>7 DEF vars, TrackerInv, EpochHasStart, PongOfThisEpoch, TrackerRecord
  <1> QED
    BY <1>3, <1>4, <1>5, <1>6, <1>7 DEF Next

(* However the signals are delayed, repeated or reordered: a connected       *)
(* tracker has the start of its epoch and no pong from before it, and        *)
(* execution-ready is said only of a subscribed, stable connection that      *)
(* brought the latest quote itself (MarketHealthTracker.evaluate).           *)
THEOREM VerdictIsOfThisEpoch ==
    ASSUME TrackingConstants
    PROVE  Spec => [](EpochHasStart /\ PongOfThisEpoch /\ ReadyMeansThisEpoch)
  <1>1. TrackerInv => EpochHasStart /\ PongOfThisEpoch /\ ReadyMeansThisEpoch
    BY ReadyIsOfThisEpoch DEF TrackerInv
  <1> QED
    BY <1>1, InitTrackerInv, NextTrackerInv, PTL DEF Spec
=============================================================================
