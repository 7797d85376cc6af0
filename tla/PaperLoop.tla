------------------------------ MODULE PaperLoop ------------------------------
(***************************************************************************)
(* One paper run: ops/run_paper_once.py over PaperLoopRunner               *)
(* (src/paper_loop/runner.py).  The decision store and the ledger are two  *)
(* files; a run writes the cash seed, its input decisions, the order, the  *)
(* NAV and the result of the loop in five transactions, and may die        *)
(* between any two.  Several runs may be under way.  The broker's own      *)
(* reads and writes are one step here; PaperBroker has them apart.         *)
(***************************************************************************)
EXTENDS Integers, FiniteSets, TLC

-----------------------------------------------------------------------------
(***************************************************************************)
(* From two decisions and a portfolio context to an order: the risk filter *)
(* (src/risk/filter.py, rules.py), the order intent (order_generation.py)  *)
(* and its quantity (src/paper_loop/quantity_resolver.py).  Amounts are    *)
(* integers and percentages are compared by cross multiplication, which is *)
(* what the Decimal arithmetic decides.  A cost is a fraction [n, d]: an   *)
(* average cost need not be an integer.                                    *)
(*                                                                         *)
(* An input i has the fields of the decisions and of RiskFilterContext     *)
(* that the checks read: action, target, cashTarget, market, mode, nav,    *)
(* cash, invested, value and cost of the symbol (or None), allocTarget (or *)
(* None), tolerance, paperMin (or None), mdd (or None), bucket, goldMonth, *)
(* goldQuarter, proposed and reference (prices, or None), priceCurrency    *)
(* (they are in one currency), navCurrency (the NAV is in the currency of  *)
(* the market price), weights (a set of percentages).                      *)
(***************************************************************************)

CONSTANT None

SinglePositionCap == 5
CashMin == 10
CashMax == 30
InvestedMinNormal == 70
InvestedMax == 90
SoftBand == 15..55

(* Tenths of a percent *)
SlippageTolerance(market) == IF market = "KR" THEN 5 ELSE 2

MddLevel(mdd) == IF mdd = None THEN 0
                 ELSE Cardinality({x \in {10, 15, 20} : mdd >= x})

InvestedLowerBound(i) == IF i.paperMin # None THEN i.paperMin ELSE InvestedMinNormal

(* Amounts times 100, so that a target weight keeps its fraction.           *)
ProposedTargetValue(i) == i.nav * i.target

AdditionalBuyCost(i) ==
    LET delta == ProposedTargetValue(i) - 100 * i.value IN IF delta <= 0 THEN 0 ELSE delta

Reduction(i) ==
    LET delta == 100 * i.value - ProposedTargetValue(i) IN IF delta <= 0 THEN 0 ELSE delta

Error(code) == [code |-> code, severity |-> "error"]
Warning(code) == [code |-> code, severity |-> "warning"]
Info(code) == [code |-> code, severity |-> "info"]

If(condition, issue) == IF condition THEN {issue} ELSE {}

-----------------------------------------------------------------------------
CheckMddKillswitch(i) ==
    IF i.mode # "mdd_killswitch" THEN {}
    ELSE {IF i.action = "BUY" THEN Error("MDD_KILLSWITCH") ELSE Warning("MDD_KILLSWITCH")}

CheckMddPercentThreshold(i) ==
    CASE MddLevel(i.mdd) = 3 -> {Error("MDD_KILLSWITCH")}
      [] MddLevel(i.mdd) \in {1, 2} -> {Warning("MDD_KILLSWITCH")}
      [] OTHER -> {}

(* What was paid so far and what would be added, against 5 % of the NAV.    *)
CheckSinglePositionCap(i) ==
    IF i.action # "BUY" THEN {}
    ELSE IF i.value = None \/ i.cost = None THEN {Error("INSUFFICIENT_CONTEXT")}
    ELSE If(100 * i.cost.n + AdditionalBuyCost(i) * i.cost.d > SinglePositionCap * i.nav * i.cost.d,
            Error("SINGLE_POSITION_CAP"))

(* A BUY is judged by the cash it would leave, a SELL warned by the cash it *)
(* would bring; otherwise by the cash there is.                             *)
CheckCashBand(i) ==
    If(i.cashTarget < CashMin \/ i.cashTarget > CashMax, Error("CASH_BAND"))
    \cup
    (CASE i.action = "BUY" ->
            If(i.value # None /\ 100 * i.cash - AdditionalBuyCost(i) < CashMin * i.nav,
               Error("CASH_BAND"))
       [] i.action = "SELL" ->
            If(i.value # None /\ 100 * i.cash + Reduction(i) > CashMax * i.nav, Warning("CASH_BAND"))
       [] OTHER ->
            If(100 * i.cash < CashMin * i.nav \/ 100 * i.cash > CashMax * i.nav, Error("CASH_BAND")))

CheckInvestedBand(i) ==
    LET lower == InvestedLowerBound(i)
    IN  If(100 * i.invested > InvestedMax * i.nav, Error("INVESTED_BAND"))
        \cup (IF 100 * i.invested >= lower * i.nav THEN {}
              ELSE {IF i.mode = "normal" THEN Error("INVESTED_BAND") ELSE Warning("INVESTED_BAND")})
        \cup If(i.action = "SELL" /\ i.mode = "normal" /\ i.value # None
                  /\ 100 * i.invested - Reduction(i) < lower * i.nav,
                Error("INVESTED_BAND"))

CheckAllocatorTolerance(i) ==
    If(i.allocTarget # None
         /\ (i.target < i.allocTarget - i.tolerance \/ i.target > i.allocTarget + i.tolerance),
       Error("ALLOCATOR_TOLERANCE"))

(* Both directions bound the price from above.                              *)
CheckDirectionalSlippage(i) ==
    IF i.action = "HOLD" \/ i.mode = "mdd_killswitch" \/ i.proposed = None \/ i.reference = None
    THEN {}
    ELSE IF ~i.priceCurrency THEN {Error("INSUFFICIENT_CONTEXT")}
    ELSE If(1000 * i.proposed > i.reference * (1000 + SlippageTolerance(i.market)), Error("SLIPPAGE"))

CheckGoldTradeFrequency(i) ==
    If(i.action # "HOLD" /\ i.bucket = "GOLD" /\ (i.goldMonth >= 2 \/ i.goldQuarter >= 4),
       Error("GOLD_FREQUENCY"))

CheckAssetClassSoftBand(i) == If(~(i.weights \subseteq SoftBand), Warning("SOFT_BAND"))

(* RiskFilter.evaluate *)
Evaluate(i) ==
    IF i.action \notin {"BUY", "SELL", "HOLD"} THEN {Error("UNSUPPORTED_ACTION")}
    ELSE If(i.action = "HOLD", Info("NO_ACTION"))
         \cup CheckMddKillswitch(i) \cup CheckMddPercentThreshold(i) \cup CheckSinglePositionCap(i)
         \cup CheckCashBand(i) \cup CheckInvestedBand(i) \cup CheckAllocatorTolerance(i)
         \cup CheckDirectionalSlippage(i) \cup CheckGoldTradeFrequency(i)
         \cup CheckAssetClassSoftBand(i)

HasBlockingErrors(issues) == \E x \in issues : x.severity = "error"

(* OrderIntentGenerator.generate, _build_order_intent: a market the         *)
(* generator has no name for fails after the filter has passed.             *)
Generate(i) ==
    CASE HasBlockingErrors(Evaluate(i)) -> "blocked"
      [] ~HasBlockingErrors(Evaluate(i)) /\ i.action = "HOLD" -> "noop"
      [] ~HasBlockingErrors(Evaluate(i)) /\ i.action # "HOLD" /\ i.market \notin {"KR", "US"} ->
            "blocked"
      [] OTHER -> "generated"

-----------------------------------------------------------------------------
(* _floor_toward_zero of a non-negative amount over the price               *)
FloorTowardZero(x, price) == x \div (100 * price)

(* _resolve_current_value: the position the broker holds, else the context. *)
CurrentValue(i, held, price) ==
    CASE held # None -> held * price
      [] held = None /\ i.value # None -> i.value
      [] OTHER -> None

(* QuantityResolver.resolve for the market order of Generate                *)
Resolve(i, held, price) ==
    LET current == CurrentValue(i, held, price)
        delta == IF i.action = "BUY" THEN ProposedTargetValue(i) - 100 * current
                 ELSE 100 * current - ProposedTargetValue(i)
        quantity == FloorTowardZero(IF delta < 0 THEN 0 ELSE delta, price)
    IN  IF ~i.navCurrency \/ current = None THEN [status |-> "failed", quantity |-> 0]
        ELSE IF quantity <= 0 THEN [status |-> "noop", quantity |-> 0]
        ELSE [status |-> "resolved", quantity |-> quantity]

-----------------------------------------------------------------------------

CONSTANTS
    Proc,
    Triples,        \* the ids an input may carry: [run, alloc, analysis]
    Price, Target, Mode,
    InitialCash,
    FreshLedger,    \* whether the ledger may start empty
    Holding,        \* quantities of the symbol a used account may start with
    MaxRuns, MaxCrashes

Ids == UNION {{t.run, t.alloc, t.analysis} : t \in Triples}

VARIABLES
    cash, qty, cost,    \* ledger: KRW cash (or None), the symbol's quantity and total cost
    base,               \* the value of the other KRW positions
    usd,                \* a position in another currency exists
    orders,             \* analysis id -> order result
    navs,               \* analysis ids whose NAV snapshot is saved
    submits,            \* analysis id -> times the broker was called (history)
    store,              \* ids in the decision store
    loops,              \* run id -> the recorded loop snapshot, or None
    version,            \* changes of the ledger (history)
    p, runs, crashes

ledger == <<cash, qty, cost, orders, navs, submits, version>>
vars == <<ledger, base, usd, store, loops, p, runs, crashes>>

Idle == [pc |-> "idle", in |-> None, status |-> None, quantity |-> 0, fresh |-> FALSE,
         after |-> None, failed |-> None]

(* An account that has traded before, or an empty ledger.                   *)
Init ==
    /\ cash \in (IF FreshLedger THEN {None, 20} ELSE {20})
    /\ qty \in (IF cash = None THEN {0} ELSE Holding) /\ cost = [n |-> qty, d |-> 1]
    /\ base = (IF cash = None THEN 0 ELSE 80 - qty)
    /\ usd \in BOOLEAN
    /\ orders = [a \in Ids |-> "none"] /\ navs = {} /\ submits = [a \in Ids |-> 0]
    /\ store = {} /\ loops = [x \in Ids |-> None]
    /\ version = 0 /\ p = [q \in Proc |-> Idle] /\ runs = 0 /\ crashes = 0

Balance == IF cash = None THEN InitialCash ELSE cash

(* A context the operator assembled from the ledger as it is now, with or   *)
(* without what it says of the symbol.                                      *)
ContextAt(price, mode, known) ==
    [mode |-> mode, nav |-> Balance + base + qty * price, cash |-> Balance,
     invested |-> base + qty * price, cashTarget |-> 20,
     value |-> IF known THEN qty * price ELSE None, cost |-> IF known THEN cost ELSE None,
     allocTarget |-> None, tolerance |-> 5, paperMin |-> None, mdd |-> None, market |-> "KR",
     bucket |-> None, goldMonth |-> 0, goldQuarter |-> 0, proposed |-> price, reference |-> price,
     priceCurrency |-> TRUE, navCurrency |-> TRUE, weights |-> {}]

Assemble(q) ==
    /\ p[q].pc = "idle" /\ runs < MaxRuns
    /\ \E t \in Triples, action \in {"BUY", "SELL", "HOLD"}, target \in Target,
          price \in Price, mode \in Mode, known \in BOOLEAN, write \in BOOLEAN :
         p' = [p EXCEPT ![q] = [Idle EXCEPT
                    !.pc = IF write THEN "open" ELSE "no_write",
                    !.in = [run |-> t.run, alloc |-> t.alloc, analysis |-> t.analysis,
                            price |-> price, version |-> version,
                            risk |-> [action |-> action, target |-> target]
                                     @@ ContextAt(price, mode, known)]]]
    /\ runs' = runs + 1
    /\ UNCHANGED <<ledger, base, usd, store, loops, crashes>>

Go(q, pc) == p' = [p EXCEPT ![q].pc = pc]

Ends(q, status, failed) ==
    p' = [p EXCEPT ![q].pc = "done", ![q].status = status, ![q].failed = failed]

(* --no-write validates and touches nothing.                                *)
NoWrite(q) ==
    /\ p[q].pc = "no_write"
    /\ Ends(q, "validation_only", None)
    /\ UNCHANGED <<ledger, base, usd, store, loops, runs, crashes>>

(* main: a run that is in the store is refused.                             *)
Open(q) ==
    /\ p[q].pc = "open"
    /\ IF p[q].in.run \in store THEN Ends(q, "none", "duplicate") ELSE Go(q, "seed")
    /\ UNCHANGED <<ledger, base, usd, store, loops, runs, crashes>>

(* PaperBrokerAdapter.__init__, _seed_initial_cash                          *)
Seed(q) ==
    /\ p[q].pc = "seed"
    /\ cash' = Balance
    /\ version' = IF cash = None THEN version + 1 ELSE version
    /\ Go(q, "check")
    /\ UNCHANGED <<qty, cost, orders, navs, submits, base, usd, store, loops, runs, crashes>>

(* PaperLoopRunner.run: the store is asked once more.                       *)
CheckRun(q) ==
    /\ p[q].pc = "check"
    /\ IF p[q].in.run \in store THEN Ends(q, "validation_failed", "duplicate") ELSE Go(q, "inputs")
    /\ UNCHANGED <<ledger, base, usd, store, loops, runs, crashes>>

(* _save_input_decision_snapshots: both in one transaction, or neither.     *)
SaveInputDecisionSnapshots(q) ==
    LET ids == {p[q].in.alloc, p[q].in.analysis}
    IN  /\ p[q].pc = "inputs"
        /\ IF ids \cap store # {}
           THEN Ends(q, "validation_failed", "duplicate") /\ UNCHANGED store
           ELSE Go(q, "decide") /\ store' = store \cup ids
        /\ UNCHANGED <<ledger, base, usd, loops, runs, crashes>>

Held == IF qty = 0 THEN None ELSE qty       \* the position row is deleted at zero

(* The generator and the quantity resolver: the risk context is the one of  *)
(* the input, the position is read from the ledger now.                     *)
Decide(q) ==
    LET in == p[q].in
        generation == Generate(in.risk)
        resolution == Resolve(in.risk, Held, in.price)
        Status(s) == p' = [p EXCEPT ![q].pc = "finalize", ![q].status = s]
    IN  /\ p[q].pc = "decide"
        /\ CASE generation = "blocked" -> Status("risk_blocked")
             [] generation = "noop" -> Status("noop")
             [] generation = "generated" /\ resolution.status = "failed" -> Status("quantity_failed")
             [] generation = "generated" /\ resolution.status = "noop" -> Status("noop")
             [] OTHER -> p' = [p EXCEPT ![q].pc = "submit", ![q].quantity = resolution.quantity]
        /\ UNCHANGED <<ledger, base, usd, store, loops, runs, crashes>>

(* PaperBrokerAdapter.submit_order of a sized market order, without fees.   *)
Submit(q) ==
    LET in == p[q].in  a == in.analysis  n == p[q].quantity  buy == in.risk.action = "BUY"
        rejected == \/ orders[a] # "none"
                    \/ buy /\ Balance < n * in.price
                    \/ ~buy /\ qty < n
        qtyAfter == IF buy THEN qty + n ELSE qty - n
        cashAfter == IF buy THEN Balance - n * in.price ELSE Balance + n * in.price
        costAfter == IF buy THEN [cost EXCEPT !.n = @ + n * in.price * cost.d]
                     ELSE IF qtyAfter = 0 THEN [n |-> 0, d |-> 1]
                     ELSE [n |-> cost.n * qtyAfter, d |-> cost.d * qty]
    IN  /\ p[q].pc = "submit"
        /\ submits' = [submits EXCEPT ![a] = @ + 1]
        /\ IF rejected
           THEN /\ orders' = [orders EXCEPT ![a] = IF @ = "none" THEN "rejected" ELSE @]
                /\ p' = [p EXCEPT ![q].pc = "finalize", ![q].status = "broker_rejected"]
                /\ UNCHANGED <<cash, qty, cost, version>>
           ELSE /\ orders' = [orders EXCEPT ![a] = "filled"]
                /\ cash' = cashAfter /\ qty' = qtyAfter /\ cost' = costAfter
                /\ version' = version + 1
                /\ p' = [p EXCEPT ![q].pc = "nav", ![q].fresh = (in.version = version),
                           ![q].after = [cash |-> cashAfter, cost |-> costAfter,
                                         invested |-> base + qtyAfter * in.price]]
        /\ UNCHANGED <<navs, base, usd, store, loops, runs, crashes>>

(* _compute_and_save_nav_snapshot: raises when a position is in another     *)
(* currency; main reports the exception.                                    *)
SaveNav(q) ==
    /\ p[q].pc = "nav"
    /\ IF usd
       THEN Ends(q, "filled", "unexpected") /\ UNCHANGED navs
       ELSE /\ navs' = navs \cup {p[q].in.analysis}
            /\ p' = [p EXCEPT ![q].pc = "finalize", ![q].status = "filled"]
    /\ UNCHANGED <<cash, qty, cost, orders, submits, version, base, usd, store, loops, runs, crashes>>

(* Mutant: a loop whose order was refused is recorded as filled.            *)
FinalizeLoopResultFilled(q) ==
    LET in == p[q].in
    IN  /\ p[q].pc = "finalize" /\ in.run \notin store
        /\ store' = store \cup {in.run}
        /\ loops' = [loops EXCEPT ![in.run] = [status |-> "filled", analysis |-> in.analysis]]
        /\ Ends(q, p[q].status, None)
        /\ UNCHANGED <<ledger, base, usd, runs, crashes>>

(* _finalize_loop_result, _save_paper_loop_snapshot: an id that is there by *)
(* now makes the result a failed validation, whatever the broker did.       *)
FinalizeLoopResult(q) ==
    LET in == p[q].in
    IN  /\ p[q].pc = "finalize"
        /\ IF in.run \in store
           THEN Ends(q, "validation_failed", "duplicate") /\ UNCHANGED <<store, loops>>
           ELSE /\ store' = store \cup {in.run}
                /\ loops' = [loops EXCEPT ![in.run] = [status |-> p[q].status,
                                                       analysis |-> in.analysis]]
                /\ Ends(q, p[q].status, None)
        /\ UNCHANGED <<ledger, base, usd, runs, crashes>>

(* The process dies; the files keep what was committed.                     *)
Crash(q) ==
    /\ p[q].pc \notin {"idle", "done"} /\ crashes < MaxCrashes
    /\ crashes' = crashes + 1
    /\ p' = [p EXCEPT ![q] = Idle]
    /\ UNCHANGED <<ledger, base, usd, store, loops, runs>>

(* The operator starts again.                                               *)
Again(q) ==
    /\ p[q].pc = "done" /\ runs < MaxRuns
    /\ p' = [p EXCEPT ![q] = Idle]
    /\ UNCHANGED <<ledger, base, usd, store, loops, runs, crashes>>

Step(q) ==
    \/ NoWrite(q) \/ Open(q) \/ Seed(q) \/ CheckRun(q) \/ SaveInputDecisionSnapshots(q) \/ Decide(q)
    \/ Submit(q) \/ SaveNav(q) \/ FinalizeLoopResult(q)

Next == \E q \in Proc : Assemble(q) \/ Step(q) \/ Crash(q) \/ Again(q)

Spec == Init /\ [][Next]_vars

-----------------------------------------------------------------------------
(* A decision reaches the broker at most once, over crashes, repeated and   *)
(* concurrent runs: a rerun is stopped by its input decisions, which are    *)
(* saved before the broker is called (runner.py, run).                      *)
SubmittedOnce == \A a \in Ids : submits[a] <= 1

(* The decision store never contradicts the ledger: a loop recorded as      *)
(* filled has its fill and its NAV, and one recorded otherwise has no fill. *)
RecordMatchesLedger ==
    \A x \in Ids : loops[x] # None =>
        /\ loops[x].status = "filled" =>
              orders[loops[x].analysis] = "filled" /\ loops[x].analysis \in navs
        /\ loops[x].status # "filled" => orders[loops[x].analysis] # "filled"

(* The bands the filter estimates hold for what was really bought or sold,  *)
(* when the context still described the ledger: after a BUY the cost of the *)
(* symbol is within 5 % and cash not below 10 % of the NAV, and after a     *)
(* SELL in normal mode at least 70 % stays invested; no BUY in killswitch   *)
(* mode (risk/filter.py against paper_loop/quantity_resolver.py).           *)
FilledWithinBands ==
    \A q \in Proc :
        LET in == p[q].in  after == p[q].after
        IN  p[q].fresh =>
              /\ in.risk.action = "BUY" =>
                    /\ 100 * after.cost.n <= SinglePositionCap * in.risk.nav * after.cost.d
                    /\ 100 * after.cash >= CashMin * in.risk.nav
                    /\ in.risk.mode # "mdd_killswitch"
              /\ in.risk.action = "SELL" /\ in.risk.mode = "normal" =>
                    100 * after.invested >= InvestedMinNormal * in.risk.nav

=============================================================================
