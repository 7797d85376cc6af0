----------------------------- MODULE WalkForward ----------------------------
(***************************************************************************)
(* The local monthly dry run of the backtest engine (src/backtest_engine:  *)
(* local_evaluation, local_run_config, walk_forward, period_step,          *)
(* single_step, rolling_features, observation_spacing, snapshot_builder,   *)
(* rules_allocator, execution_prices, rebalance, benchmark_adapter).       *)
(*                                                                         *)
(* One input directory is drawn at the start; the run assembles it, builds *)
(* the schedule, walks the rules portfolio through it one rebalance at a   *)
(* time, checks the result, aligns the benchmark, then walks each static   *)
(* baseline.  A ValueError anywhere ends the run as refused.               *)
(*                                                                         *)
(* Time is a day number.  Weights are eighths, cost rates sixteenths,      *)
(* closes and rates powers of two and the first cash a large power of two, *)
(* so that every quotient the code takes is an integer here; the rounding  *)
(* of the code's 28-digit decimals is not modelled.                        *)
(***************************************************************************)
EXTENDS LocalDataset, Integers

CONSTANTS FxAssets,        \* the instruments valued through USDKRW
          Lookback,        \* rolling_lookback_count
          RiskOn, RiskOff, \* [asset -> eighths], the rules' two weights
          MinWeight, MaxWeight,
          CashMin,         \* eighths
          Versions,        \* the rules allocators to run: of "v1" and "v2"
          NormalWeights,   \* [asset -> eighths], allocator v2 in its normal state
          Baselines,       \* sequence of [asset -> eighths]
          FeeRate, TaxRate, SpreadRate,   \* sixteenths
          InitialCash, MaxTradeMultiple,
          Inputs           \* the input directories: a set of [file -> CSV]

VARIABLES files, run
vars == <<files, run>>

-----------------------------------------------------------------------------
(* The decision.                                                           *)

VisibleAll(records, time) == records

(* AsOfFilteredSourceView: what had been published by the decision time.   *)
Visible(records, time) == {r \in records : r.asOf <= time}

(* _record_selection_key: later publication wins, then the later date id.  *)
Later(r, s) ==
    \/ r.asOf > s.asOf
    \/ r.asOf = s.asOf /\ \/ r.date_id[1] > s.date_id[1]
                          \/ r.date_id[1] = s.date_id[1] /\ r.date_id[2] >= s.date_id[2]

Newest(rs) == CHOOSE r \in rs : \A s \in rs : Later(r, s)

(* The last Lookback observations of an instrument.                        *)
Observations(visible, a) ==
    LET all == {r \in visible : r.asset = a}
    IN  {r \in all : Cardinality({s \in all : Later(s, r)}) <= Lookback}

Enough(visible, a) == Cardinality({r \in visible : r.asset = a}) >= Lookback

(* _validate_distinct_consecutive_months: the observations are of distinct *)
(* consecutive months, in whatever order they were published.              *)
ConsecutiveMonths(obs) ==
    LET months == {r.period : r \in obs}
    IN  /\ Cardinality(months) = Cardinality(obs)
        /\ Max(months) - Min(months) = Cardinality(obs) - 1

(* validate_uniform_observation_spacing_for_count_based_ma.                *)
SpacingUniform(visible) ==
    \A a \in Assets : Enough(visible, a) /\ ConsecutiveMonths(Observations(visible, a))

(* build_snapshot_configs_with_rolling_long_ma: the moving average, times  *)
(* Lookback.                                                               *)
LongMa(visible, a) ==
    MapThenSumSet(LAMBDA r : r.close, Observations(visible, a))

(* build_feature_snapshot_from_source_records.                             *)
CurrentPrice(visible, a) == Newest({r \in visible : r.asset = a}).close

(* allocate_rules_only_v1.                                                 *)
RulesWeights(visible) ==
    [a \in Assets |->
        LET on == CurrentPrice(visible, a) * Lookback >= LongMa(visible, a)
            w  == IF on THEN RiskOn[a] ELSE RiskOff[a]
        IN  Min({Max({w, MinWeight[a]}), MaxWeight[a]})]

CashWeight(weights) == 8 - MapThenSumSet(LAMBDA a : weights[a], Assets)

(* allocate_rules_v2_target_weights, always in the normal state.           *)
AllocatorWeights(version, visible) ==
    IF version = "v2" THEN NormalWeights ELSE RulesWeights(visible)

(* make_rules_only_single_step_decision raises on uneven spacing, and      *)
(* allocator v1 on too little cash.                                        *)
DecisionRefused(version, records, spec) ==
    LET visible == Visible(records, spec.decision)
    IN  IF ~SpacingUniform(visible) THEN TRUE
        ELSE version = "v1" /\ CashWeight(RulesWeights(visible)) < CashMin

RulesDecision(version, records, spec) ==
    AllocatorWeights(version, Visible(records, spec.decision))

-----------------------------------------------------------------------------
(* The execution.                                                          *)

(* _select_price_for_config: of the rows published at or after the time,   *)
(* the earliest, and of several the one with the greatest date id.         *)
Eligible(records, spec, a) == {r \in records : r.asset = a /\ r.asOf >= spec.execution}

ExecutionPrice(records, spec, a) ==
    LET rs == Eligible(records, spec, a)
        first == {r \in rs : \A s \in rs : r.asOf <= s.asOf}
    IN  Newest(first)

ExecutionPrices(records, spec) == [a \in Assets |-> ExecutionPrice(records, spec, a)]

(* _holding_value_krw and _quantity_from_notional_krw: dollar instruments  *)
(* go through the rate of the period.                                      *)
UnitValue(a, price, rate) == IF a \in FxAssets THEN price * rate ELSE price

HoldingValue(qty, a, price, rate) == qty * UnitValue(a, price, rate)

PortfolioValue(cash, holdings, prices, rate) ==
    cash + MapThenSumSet(LAMBDA a : HoldingValue(holdings[a], a, prices[a].close, rate), Assets)

(* The trade of one instrument: bring it to its weight of the portfolio.   *)
(* side is BUY, SELL or none; costs are a fee, a tax on domestic sales and *)
(* a spread on dollar instruments.                                         *)
Trade(a, weight, value, qty, price, rate) ==
    LET diff  == weight * (value \div 8) - HoldingValue(qty, a, price, rate)
        gross == IF diff < 0 THEN -diff ELSE diff
        side  == IF diff > 0 THEN "BUY" ELSE IF diff < 0 THEN "SELL" ELSE "none"
        fee    == FeeRate * (gross \div 16)
        tax    == IF side = "SELL" /\ a \notin FxAssets THEN TaxRate * (gross \div 16) ELSE 0
        spread == IF a \in FxAssets THEN SpreadRate * (gross \div 16) ELSE 0
    IN  [asset |-> a, side |-> side, quantity |-> gross \div UnitValue(a, price, rate),
         gross |-> gross, fee |-> fee, tax |-> tax, spread |-> spread,
         cost |-> fee + tax + spread]

CashChange(t) == CASE t.side = "BUY"  -> -(t.gross + t.cost)
                   [] t.side = "SELL" -> t.gross - t.cost
                   [] OTHER -> 0

HoldingAfter(t, qty) == CASE t.side = "BUY"  -> qty + t.quantity
                          [] t.side = "SELL" -> qty - t.quantity
                          [] OTHER -> qty

(* apply_single_rebalance_accounting.                                      *)
Rebalance(weights, prices, portfolio, rate) ==
    LET before == PortfolioValue(portfolio.cash, portfolio.holdings, prices, rate)
        trades == [a \in Assets |-> Trade(a, weights[a], before, portfolio.holdings[a],
                                          prices[a].close, rate)]
        cash   == portfolio.cash + MapThenSumSet(LAMBDA a : CashChange(trades[a]), Assets)
        held   == [a \in Assets |-> HoldingAfter(trades[a], portfolio.holdings[a])]
    IN  [before |-> before, cash |-> cash, holdings |-> held, trades |-> trades,
         after |-> PortfolioValue(cash, held, prices, rate),
         cost |-> MapThenSumSet(LAMBDA a : trades[a].cost, Assets)]

(* No price, a sale of more than is held, or cash below zero.              *)
ExecutionRefused(records, spec, weights, portfolio) ==
    IF \E a \in Assets : Eligible(records, spec, a) = {} THEN TRUE
    ELSE LET r == Rebalance(weights, ExecutionPrices(records, spec), portfolio, spec.rate)
         IN  r.cash < 0 \/ \E a \in Assets : r.holdings[a] < 0

-----------------------------------------------------------------------------
(* The schedule (local_run_config).                                        *)
CommonSeq(d) ==
    [i \in 1 .. Cardinality(d.common) |->
        CHOOSE p \in d.common : Cardinality({q \in d.common : q <= p}) = i]

LatestTimestamp(d, p) == Max({r.asOf : r \in {x \in d.records : x.period = p}})
EarliestTimestamp(d, p) == Min({r.asOf : r \in {x \in d.records : x.period = p}})

(* _build_period_specs: decide when the last row of the previous month is  *)
(* published, execute when the first row of this month is.                 *)
PeriodSpecs(d) ==
    LET common == CommonSeq(d)
    IN  [i \in 1 .. (Len(common) - Lookback) |->
           [period    |-> common[Lookback + i],
            decision  |-> LatestTimestamp(d, common[Lookback + i - 1]),
            execution |-> EarliestTimestamp(d, common[Lookback + i]),
            rate      |-> d.fx[common[Lookback + i]]]]

(* _validate_explicit_schedule_order and validate_run_config.              *)
ScheduleOrdered(specs, start) ==
    /\ specs[1].decision >= start
    /\ \A i \in DOMAIN specs : specs[i].decision < specs[i].execution
    /\ \A i \in 2 .. Len(specs) : /\ specs[i].decision > specs[i - 1].decision
                                  /\ specs[i].execution > specs[i - 1].execution
                                  /\ specs[i].decision >= specs[i - 1].execution

(* _validate_kospi_primary_weight_feasibility.                             *)
WeightsFeasible ==
    MapThenSumSet(LAMBDA a : Max({RiskOn[a], RiskOff[a]}), Assets) + CashMin <= 8

ConfigRefused(d) ==
    \/ Cardinality(d.common) < Lookback + 1
    \/ ~WeightsFeasible
    \/ ~ScheduleOrdered(PeriodSpecs(d), LatestTimestamp(d, CommonSeq(d)[1]))

-----------------------------------------------------------------------------
(* The checks of the result (local_evaluation).                            *)

(* _compute_post_trade_holdings_value_krw_for_sanity.                      *)
RecomputedValue(step) ==
    step.result.cash +
    MapThenSumSet(LAMBDA a : HoldingValue(step.result.holdings[a], a, step.prices[a].close,
                                          step.spec.rate), Assets)

(* validate_local_monthly_walk_forward_nav_sanity: the accounts balance,   *)
(* no trade is larger than the portfolio, no period return is beyond       *)
(* +-100 percent and the whole return is at most twentyfold.               *)
AccountsBalance(steps) ==
    \A i \in DOMAIN steps :
        LET r == steps[i].result
        IN  /\ r.after > 0 /\ r.cash >= 0 /\ r.cash <= r.after
            /\ RecomputedValue(steps[i]) = r.after
            /\ \A a \in Assets : r.trades[a].gross <= MaxTradeMultiple * r.before

ReturnsSane(steps) ==
    /\ \A i \in 2 .. Len(steps) : steps[i].result.after <= 2 * steps[i - 1].result.after
    /\ steps[Len(steps)].result.after <= 21 * steps[1].result.before

NavSanity(steps) == AccountsBalance(steps) /\ ReturnsSane(steps)

(* align_local_monthly_benchmark_points_to_nav_calendar: the benchmark of  *)
(* the period each point of the portfolio was valued in, dated like it.    *)
AlignedBenchmark(d, specs) ==
    [i \in DOMAIN specs |->
        [asOf |-> specs[i].execution,
         value |-> d.points[CommonSeq(d)[Lookback + i]].value]]

AlignmentRefused(d, specs) ==
    \/ Len(specs) < 2
    \/ \E i \in DOMAIN specs : CommonSeq(d)[Lookback + i] \notin DOMAIN d.points

(* compute_walk_forward_benchmark_relative_metrics: value and benchmark    *)
(* paired by calendar day.                                                 *)
RelativeSeries(steps, aligned) ==
    LET days == {s.spec.execution : s \in Range(steps)} \cap {b.asOf : b \in Range(aligned)}
    IN  [t \in days |->
           [nav |-> (CHOOSE s \in Range(steps) : s.spec.execution = t).result.after,
            benchmark |-> (CHOOSE b \in Range(aligned) : b.asOf = t).value]]

(* build_local_nav_valuation_component_diagnostic: the change of the value *)
(* of each instrument between two points, each at its own price and rate.  *)
ComponentValue(step, a) ==
    HoldingValue(step.result.holdings[a], a, step.prices[a].close, step.spec.rate)

ComponentDelta(previous, current, a) ==
    ComponentValue(current, a) - ComponentValue(previous, a)

ComponentSum(previous, current) ==
    (current.result.cash - previous.result.cash)
      + MapThenSumSet(LAMBDA a : ComponentDelta(previous, current, a), Assets)

-----------------------------------------------------------------------------
Portfolio(cash, holdings) == [cash |-> cash, holdings |-> holdings]
AllCash == Portfolio(InitialCash, [a \in Assets |-> 0])

(* which: 0 for the rules portfolio, b for the b-th static baseline.       *)
Init ==
    /\ files \in Inputs
    /\ \E version \in Versions :
         run = [phase |-> "assemble", reason |-> "", which |-> 0, version |-> version,
                data |-> <<>>, specs |-> <<>>, portfolio |-> AllCash, steps |-> <<>>,
                aligned |-> <<>>, reports |-> <<>>]

Refuse(why) == run' = [run EXCEPT !.phase = "refused", !.reason = why]

(* assemble_local_monthly_dataset and build_kospi_primary_monthly_run_config.*)
Configure ==
    /\ run.phase = "assemble"
    /\ IF AssembleError(files) # "" THEN Refuse("dataset")
       ELSE LET data == Dataset(files)
            IN  IF ConfigRefused(data) THEN Refuse("schedule")
                ELSE run' = [run EXCEPT !.phase = "walk", !.data = data,
                                        !.specs = PeriodSpecs(data)]
    /\ UNCHANGED files

(* One rebalance to the given weights: prices, accounting, next portfolio. *)
Execute(spec, weights) ==
    LET prices == ExecutionPrices(run.data.records, spec)
        result == Rebalance(weights, prices, run.portfolio, spec.rate)
    IN  IF ExecutionRefused(run.data.records, spec, weights, run.portfolio)
        THEN Refuse("execution")
        ELSE run' = [run EXCEPT
               !.steps = Append(@, [spec |-> spec, weights |-> weights, prices |-> prices,
                                    result |-> result]),
               !.portfolio = Portfolio(result.cash, result.holdings)]

(* run_single_period_rules_rebalance_step, called in the loop of           *)
(* run_explicit_schedule_rules_walk_forward_nav.                           *)
RulesStep ==
    /\ run.phase = "walk" /\ run.which = 0 /\ Len(run.steps) < Len(run.specs)
    /\ LET spec == run.specs[Len(run.steps) + 1]
       IN  IF DecisionRefused(run.version, run.data.records, spec) THEN Refuse("decision")
           ELSE Execute(spec, RulesDecision(run.version, run.data.records, spec))
    /\ UNCHANGED files

(* The loop body of run_local_static_neutral_baseline.                     *)
BaselineStep ==
    /\ run.phase = "walk" /\ run.which > 0 /\ Len(run.steps) < Len(run.specs)
    /\ Execute(run.specs[Len(run.steps) + 1], Baselines[run.which])
    /\ UNCHANGED files

(* A walk is over: its report, and a fresh portfolio for the next one.     *)
Report(aligned) ==
    run' = [run EXCEPT
       !.aligned = aligned, !.steps = <<>>, !.portfolio = AllCash,
       !.reports = Append(@, [steps |-> run.steps, series |-> RelativeSeries(run.steps, aligned)]),
       !.which = @ + 1,
       !.phase = IF run.which = Len(Baselines) THEN "done" ELSE "walk"]

SanityRefused == Refuse(IF AccountsBalance(run.steps) THEN "returns" ELSE "accounts")

(* run_local_monthly_evaluation_dry_run between the two kinds of walk.     *)
ConcludeRules ==
    /\ run.phase = "walk" /\ run.which = 0 /\ Len(run.steps) = Len(run.specs)
    /\ IF ~NavSanity(run.steps) THEN SanityRefused
       ELSE IF AlignmentRefused(run.data, run.specs) THEN Refuse("alignment")
       ELSE Report(AlignedBenchmark(run.data, run.specs))
    /\ UNCHANGED files

(* The end of run_local_static_neutral_baseline.                           *)
ConcludeBaseline ==
    /\ run.phase = "walk" /\ run.which > 0 /\ Len(run.steps) = Len(run.specs)
    /\ IF ~NavSanity(run.steps) THEN SanityRefused ELSE Report(run.aligned)
    /\ UNCHANGED files

Next == Configure \/ RulesStep \/ BaselineStep \/ ConcludeRules \/ ConcludeBaseline
Spec == Init /\ [][Next]_vars

-----------------------------------------------------------------------------
Steps == Range(run.steps) \cup UNION {Range(r.steps) : r \in Range(run.reports)}

(* A rebalance moves money and never makes it: the portfolio after it is   *)
(* worth what it was worth before, less the costs, no holding and no cash  *)
(* is negative, and the check of the accounts never refuses a run.         *)
ValueConserved ==
    /\ run.reason # "accounts"
    /\ \A s \in Steps : /\ s.result.after = s.result.before - s.result.cost
                        /\ s.result.cash >= 0
                        /\ \A a \in Assets : s.result.holdings[a] >= 0

(* The decision of a step would be the same if every row published after   *)
(* it did not exist.                                                       *)
Truncated(time) == [f \in Files |-> [files[f] EXCEPT !.rows = {r \in @ : r.asOf <= time}]]
NoLookAhead ==
    \A i \in DOMAIN run.steps :
        (run.which = 0 /\ run.version = "v1") =>
            run.steps[i].weights =
              RulesWeights(SourceRecords(Truncated(run.steps[i].spec.decision)))

(* Every price a step trades at is known when the next step is decided.    *)
PricesBeforeNextDecision ==
    \A i \in 1 .. (Len(run.steps) - 1) : \A a \in Assets :
        /\ run.steps[i].prices[a].asOf > run.steps[i].spec.decision
        /\ run.steps[i].prices[a].asOf <= run.steps[i + 1].spec.decision

(* Portfolio and benchmark are compared in the same month's money: the     *)
(* benchmark paired with a point is the index of the month whose rate      *)
(* valued the dollar holdings of that point, and no point is lost.         *)
AlignedSamePeriod ==
    \A r \in Range(run.reports) :
        /\ Cardinality(DOMAIN r.series) = Len(r.steps)
        /\ \A s \in Range(r.steps) :
              r.series[s.spec.execution].benchmark =
                s.spec.rate * RateOf(files[Specs[1]], s.spec.period)

(* The diagnostic explains the whole change of value between two points.   *)
ComponentsSum ==
    \A i \in 2 .. Len(run.steps) :
        ComponentSum(run.steps[i - 1], run.steps[i])
          = run.steps[i].result.after - run.steps[i - 1].result.after
=============================================================================
