----------------------------- MODULE MCPortfolio -----------------------------
(***************************************************************************)
(* The strategy side: the monthly forward observation and its files, the   *)
(* walk-forward backtest, and the emergency monitor with its kill switch   *)
(* and its event store.                                                    *)
(*                                                                         *)
(* They share no state here. A behaviour runs one of them, named by part,  *)
(* and the others are off.                                                 *)
(***************************************************************************)
EXTENDS Integers, FiniteSets, Sequences, TLC

CONSTANTS
    Running,    \* the components to run
    Fragment,           \* the beginning of a line that was not written whole
    None

VARIABLES
    part,       \* the component that runs
    obsNow, obsFiles, obsHead, obsSnapshot, obsMetrics, obsManifest, obsProc, obsFaults,
    testFiles, testRun,
    alarmNow, alarmAccount, alarmPeak, alarmLines, alarmPending, alarmSaved, alarmPlan,
    alarmCrashes, alarmCount

obsVars ==
    <<obsNow, obsFiles, obsHead, obsSnapshot, obsMetrics, obsManifest, obsProc, obsFaults>>
testVars ==
    <<testFiles, testRun>>
alarmVars ==
    <<alarmNow, alarmAccount, alarmPeak, alarmLines, alarmPending, alarmSaved, alarmPlan,
      alarmCrashes, alarmCount>>


(* The observation: a dollar and a domestic instrument with the frozen       *)
(* weights of the code, over three months.                                   *)
Specs == <<"us", "kr">>
Policies ==
    [candidate  |-> [us |-> 70, kr |-> 15],
     us60       |-> [us |-> 60, kr |-> 20],
     product_v1 |-> [us |-> 24, kr |-> 40]]
Quotes == {[us |-> 1, kr |-> 2, fx |-> 1]}

(* The backtest: the same instruments over five months, three steps.  Row p  *)
(* of a file is published on day 10 * p (+ 1 for the domestic one, + 2 for   *)
(* the rate); some inputs restate one month later on, or drop a row.         *)
Months == 0 .. 4
Offset == [us |-> 0, kr |-> 1, fx |-> 2]
Row(f, p, close) == [period |-> p, asOf |-> 10 * p + Offset[f], close |-> close]
File(f, path) == [kind |-> "csv", symbol |-> f, rows |-> {Row(f, p, path[p + 1]) : p \in Months}]
Paths == {<<1, 1, 1, 1, 1>>, <<2, 2, 1, 1, 2>>, <<1, 2, 4, 2, 1>>, <<4, 2, 1, 2, 4>>, <<1, 1, 4, 4, 4>>}
Rates == {<<1, 1, 1, 1, 1>>, <<1, 2, 2, 1, 1>>, <<2, 1, 1, 2, 4>>, <<1, 1, 4, 1, 1>>}
Base == {[us |-> File("us", x), kr |-> File("kr", y), fx |-> File("fx", z)] :
           x \in Paths, y \in Paths, z \in Rates}
Restated == {[b EXCEPT !.kr.rows = @ \cup {[period |-> p, asOf |-> d, close |-> 2]}] :
               b \in Base, p \in {1, 3}, d \in {14, 30, 35}}
Dropped == {[b EXCEPT !.kr.rows = {r \in @ : r.period \notin ps}] :
              b \in Base, ps \in {{0}, {2}, {3}, {0, 1}}}
Inputs == Base \cup Restated \cup Dropped

(* Accounts around a peak of four units of money, down by 10, 15 and 20      *)
(* percent, with losing, profitable and blocked positions; and market        *)
(* snapshots on both sides of the thresholds, of one symbol in two markets.  *)
Pos(s, q, u, g, b) == [symbol |-> s, qty |-> q, unit |-> u, pnl |-> g, blocked |-> b]
Accounts == {
    [cash |-> 10000, positions |-> {Pos(1, 10000, 1, 5, FALSE), Pos(2, 10000, 2, 0, FALSE)}],
    [cash |-> 0, positions |-> {Pos(1, 8000, 1, -8, FALSE), Pos(2, 4000, 2, -3, FALSE), Pos(3, 10000, 2, 4, FALSE)}],
    [cash |-> 2000, positions |-> {Pos(1, 3333, 3, 2, FALSE), Pos(2, 7000, 1, 2, FALSE), Pos(3, 15000, 1, -9, TRUE)}],
    [cash |-> 16000, positions |-> {Pos(1, 8000, 1, 1, FALSE), Pos(2, 4000, 2, 1, FALSE)}],
    [cash |-> 9000, positions |-> {Pos(1, 9000, 1, -1, FALSE), Pos(2, 6000, 2, -2, FALSE), Pos(3, 5000, 1, -2, FALSE)}]}
OneAccount == {[cash |-> 0, positions |-> {Pos(1, 10000, 1, 0, FALSE)}]}
Stock(m, q, c) ==
    [kind |-> "stock", market |-> m, symbol |-> "a", quantity |-> q, previous |-> 100, current |-> c, sameSector |-> {"b"}]
Index(i, c) ==
    [kind |-> "index", market |-> "KR", index |-> i, previous |-> 1000, current |-> c, holdings |-> {"a"}]
Weight(w) == [kind |-> "weight", market |-> "KR", symbol |-> "a", weight |-> w]
Lost(s, l) == [symbol |-> s, loss |-> l]
Portfolio(c) ==
    [kind |-> "portfolio", previous |-> 100, current |-> c,
     contributors |-> {Lost(1, -1), Lost(2, -3), Lost(3, -3), Lost(4, -2), Lost(5, 2)}]
Snapshots == {
    Stock("KR", 1, 97), Stock("KR", 1, 98), Stock("US", 1, 96), Stock("US", 0, 50),
    Index("i", 985), Index("j", 980), Index("i", 986), Weight(9), Weight(10), Weight(20), Portfolio(98), Portfolio(99)}

-----------------------------------------------------------------------------
Forward == INSTANCE ForwardObservation WITH
        now <- obsNow, files <- obsFiles, head <- obsHead, snapshot <- obsSnapshot,
        metrics <- obsMetrics, manifest <- obsManifest, proc <- obsProc,
        faults <- obsFaults, Specs <- Specs, Fx <- "fx", MinRate <- 1, MaxRate <- 4,
        IdSpan <- 100, Window <- 3, FxAssets <- {"us"}, Policies <- Policies,
        FeeBps <- 10, FxSpreadBps <- 15, Quotes <- Quotes, Closes <- {4}, MaxFaults <- 1

Backtest == INSTANCE WalkForward WITH
        files <- testFiles, run <- testRun, Specs <- Specs, Fx <- "fx", MinRate <- 1,
        MaxRate <- 4, IdSpan <- 100, FxAssets <- {"us"}, Lookback <- 2,
        RiskOn <- [us |-> 4, kr |-> 2], RiskOff <- [us |-> 2, kr |-> 0],
        MinWeight <- [us |-> 1, kr |-> 0], MaxWeight <- [us |-> 6, kr |-> 3],
        CashMin <- 1, Versions <- {"v1", "v2"}, NormalWeights <- [us |-> 5, kr |-> 2],
        MaxTradeMultiple <- 2,
        Baselines <- <<[us |-> 5, kr |-> 2], [us |-> 2, kr |-> 4]>>, FeeRate <- 1,
        TaxRate <- 1, SpreadRate <- 1, InitialCash <- 33554432, Inputs <- Inputs

Mdd == INSTANCE EmergencyMonitor WITH
        now <- alarmNow, account <- alarmAccount, peak <- alarmPeak, lines <- alarmLines,
        pending <- alarmPending, saved <- alarmSaved, plan <- alarmPlan,
        crashes <- alarmCrashes, count <- alarmCount, Accounts <- Accounts,
        Snapshots <- {}, Hours <- {3, 9}, Cooldown <- 2, MaxTime <- 27, MaxEvents <- 3,
        MaxCrashes <- 0

Alarm == INSTANCE EmergencyMonitor WITH
        now <- alarmNow, account <- alarmAccount, peak <- alarmPeak, lines <- alarmLines,
        pending <- alarmPending, saved <- alarmSaved, plan <- alarmPlan,
        crashes <- alarmCrashes, count <- alarmCount, Accounts <- OneAccount,
        Snapshots <- Snapshots, Hours <- {1, 2}, Cooldown <- 2, MaxTime <- 3,
        MaxEvents <- 3, MaxCrashes <- 1

Off == "off"

obsRests ==
    /\ obsNow = Off /\ obsFiles = Off /\ obsHead = Off /\ obsSnapshot = Off
    /\ obsMetrics = Off /\ obsManifest = Off /\ obsProc = Off /\ obsFaults = Off

testRests ==
    /\ testFiles = Off /\ testRun = Off

alarmRests ==
    /\ alarmNow = Off /\ alarmAccount = Off /\ alarmPeak = Off /\ alarmLines = Off
    /\ alarmPending = Off /\ alarmSaved = Off /\ alarmPlan = Off /\ alarmCrashes = Off
    /\ alarmCount = Off

RunInit ==
    /\ part \in Running
    /\ IF part = "forward" THEN Forward!Init ELSE obsRests
    /\ IF part = "backtest" THEN Backtest!Init ELSE testRests
    /\ IF part = "killswitch" THEN Mdd!Init ELSE IF part = "triggers" THEN Alarm!Init ELSE alarmRests

RunNext ==
    \/ part = "forward" /\ Forward!Next /\ UNCHANGED <<part, testVars, alarmVars>>
    \/ part = "backtest" /\ Backtest!Next /\ UNCHANGED <<part, obsVars, alarmVars>>
    \/ part = "killswitch" /\ Mdd!Next /\ UNCHANGED <<part, obsVars, testVars>>
    \/ part = "triggers" /\ Alarm!Next /\ UNCHANGED <<part, obsVars, testVars>>

runVars == <<part, obsVars, testVars, alarmVars>>

RunSpec == RunInit /\ [][RunNext]_runVars

-----------------------------------------------------------------------------

(* A backtest makes no money, decides on nothing published later, trades at  *)
(* prices known before its next decision, compares with the benchmark of the *)
(* same month and explains the whole change of value, whatever the inputs    *)
(* restate or lack (run_walk_forward, rebalance_portfolio, evaluate_local).  *)
BacktestIsSound ==
    part = "backtest" =>
        /\ Backtest!ValueConserved
        /\ Backtest!NoLookAhead
        /\ Backtest!PricesBeforeNextDecision
        /\ Backtest!AlignedSamePeriod
        /\ Backtest!ComponentsSum

(* The kill switch acts once per stage and day, waits between its first two  *)
(* levels, is never held back at its deepest, sells the worst losses first   *)
(* and no more profit than needed (detect_mdd_killswitch,                    *)
(* build_mdd_liquidation_plan).                                              *)
KillSwitchIsOrderly ==
    part = "killswitch" =>
        /\ Mdd!StageOncePerDay
        /\ Mdd!LevelTwoWaits
        /\ Mdd!DeepestNotHeldBack
        /\ Mdd!WorstLossesFirst
        /\ Mdd!ProfitsNotOversold

=============================================================================
