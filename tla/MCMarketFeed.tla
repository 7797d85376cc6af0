----------------------------- MODULE MCMarketFeed -----------------------------
(***************************************************************************)
(* The market data of a session: the supervisor with its monitor task and  *)
(* health tracker, the tracker fed out of order, the monitor with its      *)
(* stores, and the two read-only sources of the broker.                    *)
(*                                                                         *)
(* They share no state here. A behaviour runs one of them, named by part,  *)
(* and the others stand still.                                             *)
(***************************************************************************)
EXTENDS MarketSupervisor, TLC

CONSTANTS
    Running,    \* the components to run
    ta, qa,     \* the channel a symbol is traded on, and the one it is quoted on
    None, Nothing

VARIABLES
    part,       \* the component that runs
    trackerH, trackerNow, trackerHistory,
    monitorNow, monitorLatest, monitorBeat, monitorRolling, monitorM, monitorPc,
    monitorDeadline, monitorReason,
    wsArgs, wsMain, wsConn, wsSrc, wsSeqs, wsEpoch, wsAcks, wsGot, wsTally, wsCancels,
    httpRun, httpPc, httpToken, httpCalls, httpResult, httpReport

trackerVars ==
    <<trackerH, trackerNow, trackerHistory>>
monitorVars ==
    <<monitorNow, monitorLatest, monitorBeat, monitorRolling, monitorM, monitorPc,
      monitorDeadline, monitorReason>>
wsVars ==
    <<wsArgs, wsMain, wsConn, wsSrc, wsSeqs, wsEpoch, wsAcks, wsGot, wsTally, wsCancels>>
httpVars ==
    <<httpRun, httpPc, httpToken, httpCalls, httpResult, httpReport>>


(* The session ends before the day, and the next day has no schedule. *)
DaySchedule == 0 :> [preOpen |-> 0, open |-> 0, close |-> 4, postCloseEnd |-> 4]

MonitorStreamOf == ta :> "trade" @@ qa :> "quote"

(* Smoke runs of the websocket over one symbol, and frames of every kind. *)
WsRun == [run |-> TRUE, validateOnly |-> FALSE, symbols |-> <<>>, maxSubscriptions |-> 2,
          enabled |-> TRUE, environ |-> "phrase", phrase |-> "phrase", maxEvents |-> 2,
          duration |-> None, evidence |-> None]
WsArguments ==
    {WsRun, [WsRun EXCEPT !.symbols = <<"s1", "s1">>, !.maxEvents = None, !.duration = 1],
     [WsRun EXCEPT !.symbols = <<"s1", None>>], [WsRun EXCEPT !.symbols = <<"s1", "s2">>],
     [WsRun EXCEPT !.environ = None], [WsRun EXCEPT !.maxEvents = None],
     [WsRun EXCEPT !.maxEvents = 0], [WsRun EXCEPT !.enabled = FALSE],
     [WsRun EXCEPT !.evidence = "elsewhere"], [WsRun EXCEPT !.validateOnly = TRUE],
     [WsRun EXCEPT !.run = FALSE, !.enabled = FALSE]}
Data == [kind |-> "data", layout |-> TRUE, flag |-> "0", tr |-> "quote", symbol |-> "s1",
         count |-> 1, len |-> 59, extra |-> 0, blank |-> TRUE, record |-> "good"]
Ack(tr, symbol, rt) == [kind |-> "ack", tr |-> tr, symbol |-> symbol, rt |-> rt]
WsFrames ==
    {Data, [Data EXCEPT !.count = 2],
     [Data EXCEPT !.tr = "trade", !.len = 46, !.count = 2, !.extra = 1],
     [Data EXCEPT !.layout = FALSE], [Data EXCEPT !.tr = "other"], [Data EXCEPT !.count = 0],
     [Data EXCEPT !.len = 62, !.record = "future"], [Data EXCEPT !.extra = 1, !.blank = FALSE],
     [Data EXCEPT !.symbol = "s2"], [Data EXCEPT !.record = "missing"],
     Ack("quote", "s1", "0"), Ack("trade", "s1", "0"), Ack("quote", "s2", "0"),
     Ack("trade", "s1", "1"), [kind |-> "text"], [kind |-> "ping"]}

(* Command lines of the HTTP smoke, and answers of each kind. *)
SmokeRuns ==
    [flags : SUBSET {"run", "dry-run"}, timeout : {None, "positive", "zero"},
     configOk : BOOLEAN, useIsa : BOOLEAN, accountLong : BOOLEAN,
     environ : {{"app_key", "app_secret"}, {"app_key", "app_secret", "isa_account"},
                {"app_key"}}]
Answer == [reached |-> TRUE, success |-> TRUE, json |-> "object", rt |-> "0", field |-> "good"]
SmokeResponses ==
    {Answer, [Answer EXCEPT !.rt = None], [Answer EXCEPT !.rt = "1"],
     [Answer EXCEPT !.success = FALSE], [Answer EXCEPT !.json = "list"],
     [Answer EXCEPT !.json = "none"], [Answer EXCEPT !.field = "missing"],
     [Answer EXCEPT !.field = "unreadable"], [Answer EXCEPT !.reached = FALSE]}

-----------------------------------------------------------------------------
Tracker == INSTANCE MarketHealthTracking WITH
        h <- trackerH, now <- trackerNow, history <- trackerHistory, NoTime <- NoTime,
        SubscriptionGrace <- 1, HeartbeatTimeout <- 2, MinimumStableUptime <- 2,
        FlappingWindow <- 1, FlappingMaxShortEpochs <- 1, FlappingMinUptime <- 1,
        FlappingMinMarketEvents <- 1, QuoteGrace <- 1, QuoteStarvation <- 1,
        MaxQuoteAge <- 2, MaxEpochHistory <- 1, MaxTime <- 3, MaxDelay <- 1,
        MaxEpochs <- 2, MaxMarketEvents <- 1

Monitor == INSTANCE MarketMonitor WITH
        now <- monitorNow, latest <- monitorLatest, beat <- monitorBeat,
        rolling <- monitorRolling, m <- monitorM, pc <- monitorPc,
        deadline <- monitorDeadline, reason <- monitorReason, Slot <- {ta, qa},
        TradeSlot <- {ta}, StreamOf <- MonitorStreamOf, HeartbeatStream <- "PINGPONG",
        MaxAge <- 1, HardMaxEvents <- 2, HardMaxAge <- 1, MaxAttempts <- 2,
        HeartbeatTimeout <- 2, MaxRuntime <- 3, MaxEvents <- 4,
        Faults <- {"sink", "hook", "reset"}, MaxSeq <- 3, MaxTime <- 3,
        MaxConnections <- 2

Ws == INSTANCE KisWebsocketSource WITH
        args <- wsArgs, main <- wsMain, conn <- wsConn, src <- wsSrc, seqs <- wsSeqs,
        epoch <- wsEpoch, acks <- wsAcks, got <- wsGot, tally <- wsTally,
        cancels <- wsCancels, Arguments <- WsArguments, Frames <- WsFrames,
        MaxEpochs <- 2, MaxCancels <- 1, MaxFrames <- 4

Http == INSTANCE KisReadOnlySmoke WITH
        run <- httpRun, pc <- httpPc, token <- httpToken, calls <- httpCalls,
        result <- httpResult, report <- httpReport, Runs <- SmokeRuns,
        Responses <- SmokeResponses

Off == "off"

wsRests ==
    /\ wsArgs = Off /\ wsMain = Off /\ wsConn = Off /\ wsSrc = Off /\ wsSeqs = Off
    /\ wsEpoch = Off /\ wsAcks = Off /\ wsGot = Off /\ wsTally = Off /\ wsCancels = Off

httpRests ==
    /\ httpRun = Off /\ httpPc = Off /\ httpToken = Off /\ httpCalls = Off
    /\ httpResult = Off /\ httpReport = Off

RunInit ==
    /\ part \in Running
    /\ Init
    /\ Tracker!Init
    /\ Monitor!Init
    /\ IF part = "websocket" THEN Ws!Init ELSE wsRests
    /\ IF part = "http" THEN Http!Init ELSE httpRests

RunNext ==
    \/ part = "supervisor" /\ Next /\ UNCHANGED <<part, trackerVars, monitorVars, wsVars, httpVars>>
    \/ part = "tracker" /\ Tracker!Next /\ UNCHANGED <<part, vars, monitorVars, wsVars, httpVars>>
    \/ part = "monitor" /\ Monitor!Next /\ UNCHANGED <<part, vars, trackerVars, wsVars, httpVars>>
    \/ part = "websocket" /\ Ws!Next /\ UNCHANGED <<part, vars, trackerVars, monitorVars, httpVars>>
    \/ part = "http" /\ Http!Next /\ UNCHANGED <<part, vars, trackerVars, monitorVars, wsVars>>

runVars == <<part, vars, trackerVars, monitorVars, wsVars, httpVars>>

RunSpec == RunInit /\ [][RunNext]_runVars

-----------------------------------------------------------------------------
(* What the theorem about the tracker assumes.                               *)
ASSUME TrackerConstants == Tracker!TrackingConstants




(* The HTTP smoke passes only on a good answer to every call it needed, a    *)
(* failure it reports has a collected cause, one token is asked for before   *)
(* everything else, and the report hides no call                             *)
(* (run_read_only_smoke_check).                                              *)
SmokeReportIsHonest ==
    part = "http" =>
        /\ Http!PassMeansAnswered
        /\ Http!FailIsExplained
        /\ Http!OneTokenFirst
        /\ Http!CallsAsReported
=============================================================================
