---------------------------- MODULE EmergencyMonitor ----------------------------
(***************************************************************************)
(* The emergency rules at work over one JSONL event store: a caller looks   *)
(* at an account or at a market snapshot, takes the earlier events from the *)
(* store, detects, plans, and saves the event.  It may die in the middle of *)
(* the append and save the same event again after the restart.              *)
(*                                                                         *)
(* lines     the file: every line holds what was appended to it, and says   *)
(*           whether its line end was written                               *)
(* pending   the event the caller has in hand and has not saved             *)
(* saved     the events whose save returned                                 *)
(* plan      the liquidation plan of the event in hand, with its account    *)
(***************************************************************************)
EXTENDS Integers, FiniteSets, Sequences, SequencesExt, FiniteSetsExt, TLC

-----------------------------------------------------------------------------
(***************************************************************************)
(* The pure rules of src/emergency: the detectors, the order of triggers,   *)
(* the cooldowns and the liquidation plan of the drawdown kill switch.      *)
(* Percent thresholds are compared cross-multiplied; money is counted in    *)
(* ten-thousandths, and quantities in ten-thousandths of a share, which is  *)
(* the grid the plan rounds to.                                             *)
(***************************************************************************)

CONSTANT None

TriggerPriorityRank ==
    [MDD_KILLSWITCH |-> 0, PORTFOLIO_LOSS |-> 1, INDEX_CRASH |-> 2, STOCK_DROP |-> 3, PROFIT_RUN |-> 4]


BuildCooldownKey(type, market, symbol) == <<type, market, symbol>>

(* current is at least tenths/10 percent below previous. *)
FallenBy(previous, current, tenths) == (current - previous) * 1000 <= -tenths * previous

-----------------------------------------------------------------------------
(* The detectors return None or a payload.                                  *)

Payload(type, market, symbol, key, scope, review, status) ==
    [type |-> type, market |-> market, symbol |-> symbol, key |-> key, scope |-> scope,
     review |-> review, bypass |-> type = "MDD_KILLSWITCH", status |-> status]

DetectStockDrop(s) ==
    IF s.quantity <= 0 \/ ~FallenBy(s.previous, s.current, 30) THEN None
    ELSE Payload("STOCK_DROP", s.market, s.symbol, BuildCooldownKey("STOCK_DROP", s.market, s.symbol),
                 {s.symbol} \cup s.sameSector, TRUE, "DETECTED")

DetectIndexCrash(s) ==
    IF ~FallenBy(s.previous, s.current, 15) THEN None
    ELSE Payload("INDEX_CRASH", s.market, s.index, BuildCooldownKey("INDEX_CRASH", s.market, None),
                 s.holdings, TRUE, "DETECTED")

(* The three worst contributors, the worst first and equal ones by symbol.  *)
WorseContributor(c, d) == c.loss < d.loss \/ (c.loss = d.loss /\ c.symbol < d.symbol)

SelectTopLossContributors(contributors) ==
    LET losers == {c \in contributors : c.loss < 0}
    IN  {c.symbol : c \in {d \in losers : Cardinality({e \in losers : WorseContributor(e, d)}) < 3}}

DetectPortfolioLoss(s) ==
    IF ~FallenBy(s.previous, s.current, 20) THEN None
    ELSE Payload("PORTFOLIO_LOSS", None, None, BuildCooldownKey("PORTFOLIO_LOSS", None, None),
                 SelectTopLossContributors(s.contributors), TRUE, "DETECTED")

ProfitRunStage(weight) ==
    IF weight >= 20 THEN 20 ELSE IF weight >= 15 THEN 15 ELSE IF weight >= 10 THEN 10 ELSE None

(* The first stage only notes the weight: no review, nothing to do. *)
DetectProfitRun(s) ==
    IF ProfitRunStage(s.weight) = None THEN None
    ELSE LET review == ProfitRunStage(s.weight) # 10
         IN  Payload("PROFIT_RUN", s.market, s.symbol, BuildCooldownKey("PROFIT_RUN", s.market, s.symbol),
                     {s.symbol}, review, IF review THEN "DETECTED" ELSE "NOOP")

ShouldSuppressByCooldown(now, last, cooldown) == last # None /\ now - last < cooldown

(* A context for the language model: None for the kill switch and for       *)
(* triggers that ask for no review.                                         *)
BuildScoutContext(p) ==
    IF p.type = "MDD_KILLSWITCH" \/ ~p.review THEN None
    ELSE [scope |-> p.scope, market |-> p.market, priority |-> TriggerPriorityRank[p.type]]

-----------------------------------------------------------------------------
(* The drawdown kill switch.                                                *)

MddStage(nav, peak) ==
    IF FallenBy(peak, nav, 200) THEN 3 ELSE IF FallenBy(peak, nav, 150) THEN 2
    ELSE IF FallenBy(peak, nav, 100) THEN 1 ELSE None

TargetCashPercent == <<50, 80, 95>>

HoursPerDay == 24
SameCalendarDay(t, u) == t \div HoursPerDay = u \div HoursPerDay

ShouldSuppressAnyHigher(stage, now, events) ==
    \/ \E e \in events : e.stage = stage /\ SameCalendarDay(e.at, now)
    \/ LET ones == {e.at : e \in {f \in events : f.stage = 1}}
       IN  IF stage # 1 /\ ones # {} THEN now - Max(ones) < 4 ELSE FALSE

(* Events are [stage, at].  The interval of four hours counts from the      *)
(* latest event of level 1; level 3 waits for no lower level.               *)
ShouldSuppressMddStage(stage, now, events) ==
    \/ \E e \in events : e.stage = stage /\ SameCalendarDay(e.at, now)
    \/ LET ones == {e.at : e \in {f \in events : f.stage = 1}}
       IN  IF stage = 2 /\ ones # {} THEN now - Max(ones) < 4 ELSE FALSE

DetectMddKillswitch(nav, peak, now, events) ==
    LET stage == MddStage(nav, peak)
    IN  IF stage = None THEN None ELSE IF ShouldSuppressMddStage(stage, now, events) THEN None ELSE stage

-----------------------------------------------------------------------------
(* The plan.  A position is [symbol, qty, unit, pnl, blocked]; its value is *)
(* qty * unit.                                                              *)

MarketValue(p) == p.qty * p.unit
IsExcluded(p) == p.blocked \/ p.qty <= 0

(* n/d to the nearest whole number, halves to the even one. *)
QuantizeHalfEven(n, d) ==
    LET q == n \div d
        twice == 2 * (n % d)
    IN  IF twice < d \/ (twice = d /\ q % 2 = 0) THEN q ELSE q + 1

InOrder(set, Less(_, _)) ==
    [i \in 1..Cardinality(set) |-> CHOOSE p \in set : Cardinality({q \in set : Less(q, p)}) = i - 1]

Losses(positions) ==
    InOrder({p \in positions : ~IsExcluded(p) /\ p.pnl < 0},
            LAMBDA p, q : p.pnl < q.pnl \/ (p.pnl = q.pnl /\ p.symbol < q.symbol))
Profits(positions) ==
    InOrder({p \in positions : ~IsExcluded(p) /\ p.pnl >= 0}, LAMBDA p, q : p.symbol < q.symbol)

AppendSell(plan, p, qty) ==
    IF qty <= 0 THEN plan
    ELSE [sold |-> Append(plan.sold, [symbol |-> p.symbol, qty |-> qty]), raised |-> plan.raised + qty * p.unit]

(* A losing position is sold whole as long as cash is missing. *)
SellLosses(plan, losses, need) ==
    FoldLeft(LAMBDA acc, p : IF need - acc.raised <= 0 THEN acc ELSE AppendSell(acc, p, p.qty), plan, losses)

(* A profitable one is sold in proportion to its value, of what is missing  *)
(* when its turn comes.                                                     *)
SellProfits(plan, profits, need, tolerance) ==
    LET total == FoldLeft(LAMBDA acc, p : acc + MarketValue(p), 0, profits)
        Sell(acc, p) ==
            LET missing == need - acc.raised
                part == QuantizeHalfEven(Min({missing * MarketValue(p), MarketValue(p) * total}), total * p.unit)
            IN  IF missing <= tolerance THEN acc ELSE AppendSell(acc, p, Min({p.qty, part}))
    IN  IF need - plan.raised <= tolerance \/ total <= 0 THEN plan ELSE FoldLeft(Sell, plan, profits)

CashToRaise(stage, cash, nav) == Max({0, (nav * TargetCashPercent[stage]) \div 100 - cash})
Tolerance(nav) == (nav * 3) \div 100

BuildMddLiquidationPlan(stage, cash, nav, positions) ==
    LET need == CashToRaise(stage, cash, nav)
        afterLosses == SellLosses([sold |-> <<>>, raised |-> 0], Losses(positions), need)
    IN  SellProfits(afterLosses, Profits(positions), need, Tolerance(nav))
        @@ [need |-> need, stage |-> stage, halt |-> stage = 3,
            excluded |-> {p.symbol : p \in {q \in positions : IsExcluded(q)}}]

-----------------------------------------------------------------------------

CONSTANTS
    Fragment,       \* the beginning of a line that was not written whole
    Accounts,       \* accounts [cash, positions]
    Snapshots,      \* market snapshots [kind, ...] for the other detectors
    Hours,          \* how far the clock may move at once
    Cooldown,       \* hours between two triggers of one key
    MaxTime,        \* bound on the clock
    MaxEvents,      \* bound on the events
    MaxCrashes      \* bound on the deaths of the caller

VARIABLES now, account, peak, lines, pending, saved, plan, crashes, count

vars == <<now, account, peak, lines, pending, saved, plan, crashes, count>>

Nav(a) == a.cash + FoldSet(LAMBDA p, sum : sum + MarketValue(p), 0, a.positions)

-----------------------------------------------------------------------------
(* The store.                                                               *)

Parses(line) == Len(line.parts) = 1 /\ line.parts[1] # Fragment

(* The lines read before the first one that does not parse. *)
GoodLines ==
    LET bad == {i \in DOMAIN lines : ~Parses(lines[i])}
    IN  IF bad = {} THEN lines ELSE SubSeq(lines, 1, Min(bad) - 1)

Intact == GoodLines = lines
Events == {GoodLines[i].parts[1] : i \in DOMAIN GoodLines}

(* get stops at the event; it meets a damaged line only when it reads on.   *)
Get(id) == IF \E e \in Events : e.id = id THEN "found" ELSE IF Intact THEN "none" ELSE "raises"

(* Appending continues a last line whose end is missing. *)
Appended(part, ended) ==
    IF lines # <<>> /\ ~lines[Len(lines)].ended
    THEN [lines EXCEPT ![Len(lines)] = [parts |-> Append(@.parts, part), ended |-> ended]]
    ELSE Append(lines, [parts |-> <<part>>, ended |-> ended])

Save ==
    /\ pending # None
    /\ Get(pending.id) = "none"
    /\ lines' = Appended(pending, TRUE)
    /\ saved' = saved \cup {pending}
    /\ pending' = None /\ plan' = None
    /\ UNCHANGED <<now, account, peak, crashes, count>>

(* A duplicate id, or a file that cannot be read to its end. *)
SaveRaises ==
    /\ pending # None
    /\ Get(pending.id) # "none"
    /\ pending' = None /\ plan' = None
    /\ UNCHANGED <<now, account, peak, lines, saved, crashes, count>>

(* The caller dies with part of the line, the line without its end, or all  *)
(* of it in the file.                                                       *)
CrashInSave ==
    /\ pending # None
    /\ Get(pending.id) = "none"
    /\ crashes < MaxCrashes
    /\ \/ lines' = Appended(Fragment, FALSE)
       \/ \E ended \in BOOLEAN : lines' = Appended(pending, ended)
    /\ crashes' = crashes + 1
    /\ UNCHANGED <<now, account, peak, pending, saved, plan, count>>

-----------------------------------------------------------------------------
(* The caller.                                                              *)

Hold(event) ==
    /\ count' = count + 1
    /\ pending' = event @@ [id |-> count + 1, at |-> now]

MddEvents == {e \in Events : e.type = "MDD_KILLSWITCH"}

EvaluateMdd ==
    /\ pending = None /\ Intact /\ count < MaxEvents
    /\ LET stage == DetectMddKillswitch(Nav(account), peak, now, MddEvents)
       IN  /\ stage # None
           /\ Hold([stage |-> stage]
                   @@ Payload("MDD_KILLSWITCH", None, None, BuildCooldownKey("MDD_KILLSWITCH", None, None),
                              {}, FALSE, "DETECTED"))
           /\ plan' = BuildMddLiquidationPlan(stage, account.cash, Nav(account), account.positions)
                      @@ [account |-> account]
    /\ UNCHANGED <<now, account, peak, lines, saved, crashes>>

Detect(s) ==
    CASE s.kind = "stock" -> DetectStockDrop(s)
      [] s.kind = "index" -> DetectIndexCrash(s)
      [] s.kind = "portfolio" -> DetectPortfolioLoss(s)
      [] s.kind = "weight" -> DetectProfitRun(s)

LastTriggered(key) ==
    LET times == {e.at : e \in {f \in Events : f.key = key /\ f.status = "DETECTED"}}
    IN  IF times = {} THEN None ELSE Max(times)

(* A detected trigger within the cooldown of its key is kept as suppressed. *)
EvaluateSnapshot(s) ==
    /\ pending = None /\ Intact /\ count < MaxEvents
    /\ LET payload == Detect(s)
       IN  /\ payload # None
           /\ Hold([stage |-> None, snapshot |-> s, context |-> BuildScoutContext(payload)]
                   @@ [payload EXCEPT !.status =
                         IF ShouldSuppressByCooldown(now, LastTriggered(payload.key), Cooldown)
                         THEN "SUPPRESSED_BY_COOLDOWN" ELSE @])
    /\ UNCHANGED <<now, account, peak, lines, saved, plan, crashes>>

Tick(h) ==
    /\ now + h <= MaxTime
    /\ now' = now + h
    /\ UNCHANGED <<account, peak, lines, pending, saved, plan, crashes, count>>

Move(a) ==
    /\ account' = a
    /\ peak' = Max({peak, Nav(a)})
    /\ UNCHANGED <<now, lines, pending, saved, plan, crashes, count>>

Init ==
    /\ now = 0 /\ account \in Accounts /\ peak = Nav(account)
    /\ lines = <<>> /\ pending = None /\ saved = {} /\ plan = None /\ crashes = 0 /\ count = 0

Next ==
    \/ \E h \in Hours : Tick(h)
    \/ \E a \in Accounts : Move(a)
    \/ EvaluateMdd
    \/ \E s \in Snapshots : EvaluateSnapshot(s)
    \/ Save \/ SaveRaises \/ CrashInSave

Spec == Init /\ [][Next]_vars

-----------------------------------------------------------------------------
(* should_suppress_mdd_stage: every stage of the kill switch is in the log   *)
(* at most once a calendar day, however often the drawdown comes back.      *)
StageOncePerDay ==
    \A e, f \in MddEvents : e.id # f.id /\ e.stage = f.stage => ~SameCalendarDay(e.at, f.at)

(* should_suppress_mdd_stage: an event of level 2 is at least four hours     *)
(* from every event of level 1 before it, the latest included.              *)
LevelTwoWaits ==
    \A e, f \in MddEvents : e.stage = 1 /\ f.stage = 2 /\ e.id < f.id => f.at - e.at >= 4

(* detect_mdd_killswitch: a drawdown of 20 percent is acted on at once unless *)
(* it was already that day; no event of a lower level holds it back.        *)
DeepestNotHeldBack ==
    FallenBy(peak, Nav(account), 200) /\ ~(\E e \in MddEvents : e.stage = 3 /\ SameCalendarDay(e.at, now))
    => DetectMddKillswitch(Nav(account), peak, now, MddEvents) = 3

(* should_suppress_by_cooldown and the keys of the detectors: an event is    *)
(* suppressed exactly for an earlier one of the same trigger, market and    *)
(* symbol (the index's symbol aside) within the cooldown.                   *)
SuppressedForOwnKey ==
    \A e \in Events : e.stage = None /\ e.status # "NOOP" =>
        LET Same(f) == /\ f.type = e.type /\ f.market = e.market /\ f.status = "DETECTED" /\ f.id < e.id
                       /\ e.type # "INDEX_CRASH" => f.symbol = e.symbol
        IN  e.status = "SUPPRESSED_BY_COOLDOWN" <=> \E f \in Events : Same(f) /\ e.at - f.at < Cooldown

(* detect_portfolio_loss: nobody left out of the scope lost more than one in *)
(* it, and the scope names losers only.                                     *)
WorstInScope ==
    \A e \in Events : e.type = "PORTFOLIO_LOSS" =>
        \A c, d \in e.snapshot.contributors :
            /\ c.symbol \in e.scope => c.loss < 0
            /\ c.symbol \in e.scope /\ d.symbol \notin e.scope => c.loss <= d.loss

(* save: an event is in the file once, also when its save is repeated after  *)
(* the caller died in the first one.                                        *)
EventOnce ==
    \A i, j \in DOMAIN GoodLines : i # j => GoodLines[i].parts[1].id # GoodLines[j].parts[1].id

(* get: an event read once is found as long as the file lives, whatever a    *)
(* dying caller appends behind it.                                          *)
FoundAgain == \A e \in saved : Get(e.id) = "found" => Get(e.id)' = "found"

Sold(symbol) == FoldLeft(LAMBDA sum, o : sum + (IF o.symbol = symbol THEN o.qty ELSE 0), 0, plan.sold)

(* build_mdd_liquidation_plan: nothing is sold while a fillable position with *)
(* a worse loss is kept, and nothing beyond what is held and can be filled. *)
WorstLossesFirst ==
    plan # None =>
        \A p \in plan.account.positions :
            /\ Sold(p.symbol) <= (IF IsExcluded(p) THEN 0 ELSE p.qty)
            /\ Sold(p.symbol) > 0 =>
                 \A q \in plan.account.positions :
                     q.pnl < 0 /\ q.pnl < p.pnl /\ ~IsExcluded(q) => Sold(q.symbol) = q.qty

(* build_mdd_liquidation_plan: profitable positions are sold only to close   *)
(* the gap; when one is sold the plan raises no more than is needed, but    *)
(* for the rounding of the last quantity.                                   *)
ProfitsNotOversold ==
    plan # None =>
        ((\E p \in plan.account.positions : p.pnl >= 0 /\ Sold(p.symbol) > 0)
         => plan.raised <= plan.need + Max({p.unit : p \in plan.account.positions}))

==============================================================================
