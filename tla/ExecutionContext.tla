---------------------------- MODULE ExecutionContext ----------------------------
(***************************************************************************)
(* What a fire is sized with: the execution inputs snapshot the process     *)
(* loaded at its start, and the portfolio context computed from the ledger  *)
(* and the latest quotes, while quotes, the ledger, the active decision and *)
(* the snapshot file change under it.                                       *)
(*                                                                         *)
(* file      the snapshot file: a payload, or None                          *)
(* provider  the snapshot the process loaded, or None                       *)
(* active    the active decision with its plan                              *)
(* ledger    cash and the positions by market, symbol and role              *)
(* quotes    the latest quote of every market and symbol, or None           *)
(* ev        the evaluation under way: what it captured and computed        *)
(* fires     evaluations that consumed a fire; sent, those dispatched       *)
(***************************************************************************)
EXTENDS Integers, FiniteSets, FiniteSetsExt, TLC

CONSTANTS
    None,
    Keys,           \* market and symbol pairs
    Payloads,       \* contents of the snapshot file
    Decisions,      \* active decisions [universe, plan]
    Ledgers,        \* ledgers [cash, positions]
    Prices,         \* bid prices by market; the ask is one higher
    MaxAge,         \* how old a fresh quote may be
    MaxTime,        \* bound on the clock
    MaxChanges      \* bound on the changes of the world

VARIABLES now, file, provider, active, ledger, quotes, ev, fires, sent, changes

vars == <<now, file, provider, active, ledger, quotes, ev, fires, sent, changes>>

Idle == [pc |-> "idle"]
SnapshotVersion == 1

-----------------------------------------------------------------------------
(* The snapshot file.  A payload says which content its hash was made for.   *)

Content(p) == [f \in DOMAIN p \ {"hash"} |-> p[f]]

PayloadHash(p) == Content(p)

ParseOptionalPercent(v) == v \in {None, "5", "10"}
ParseNonNegativeInt(v) == v >= 0
ParsePolicy(v) ==
    /\ ~v.unknown /\ v.mode # None
    /\ ParseOptionalPercent(v.percent) /\ ParseNonNegativeInt(v.gold)
    /\ v.bucket \in {None, "kr", "us", "gold"}

(* None, or why the payload is refused. *)
PayloadIssue(p) ==
    IF p.fields # "exact" THEN "fields"
    ELSE IF p.version # SnapshotVersion THEN "unsupported_version"
    ELSE IF p.hash # PayloadHash(p) THEN "hash_mismatch"
    ELSE IF p.created > p.expires THEN "invalid_validity"
    ELSE IF p.allocUniverse # p.universe THEN "universe_mismatch"
    ELSE IF p.allocCreated > p.created THEN "allocator_created_after"
    ELSE IF ~ParsePolicy(p.policy) THEN "invalid_policy"
    ELSE None

LoadExecutionInputsSnapshot(f) == IF f = None THEN None ELSE IF PayloadIssue(f) # None THEN None ELSE f

(* Whether the provider hands its inputs to an evaluation at time t. *)
Resolves(snap, decision, t) ==
    /\ snap.created <= t /\ t <= snap.expires
    /\ snap.universe = decision.universe /\ snap.allocUniverse = decision.universe
    /\ snap.allocCreated <= t
    /\ decision.plan # None => decision.plan.universe = decision.universe

-----------------------------------------------------------------------------
(* The portfolio context.  Prices are doubled so that midpoints are whole.   *)

Bucket(class) == IF class \in {"kr", "us", "gold"} THEN class ELSE None
Fresh(q, t) == t - q.at <= MaxAge

(* peek: the latest quote, evaluated at the time asked for. *)
Peek(key, t) ==
    IF quotes[key] = None THEN None ELSE [quote |-> quotes[key], key |-> key, evaluatedAt |-> t, fresh |-> Fresh(quotes[key], t)]

MarkFromSnapshot(snap, key, t) ==
    IF snap = None THEN None
    ELSE IF snap.key # key \/ snap.evaluatedAt # t \/ ~snap.fresh THEN None
    ELSE [price |-> snap.quote.bid + snap.quote.ask, asOf |-> snap.quote.at]


(* The evaluated symbol's mark comes from the captured snapshot. *)
CurrentMark(e) == MarkFromSnapshot(e.snap, e.key, e.at)

PaperPositions(l) == {p \in l.positions : p.role = "PAPER"}
Counted(l) == {p \in PaperPositions(l) : p.class # "cash"}

MarkFor(e, key) == MarkFromSnapshot(Peek(key, e.at), key, e.at)

(* Marks are kept by market and symbol. *)
MarkOf(e, key) == IF key = e.key THEN CurrentMark(e) ELSE MarkFor(e, key)

(* By symbol alone, the evaluated one put in last. *)
ReferencePrices(e, marks) ==
    [s \in {k[2] : k \in DOMAIN marks} |->
        IF s = e.key[2] THEN marks[e.key] ELSE marks[CHOOSE k \in DOMAIN marks : k[2] = s]]

LoadCashIssue(cash, t) ==
    IF cash = None THEN "cash_missing"
    ELSE IF cash.currency # "KRW" THEN "currency_unsupported"
    ELSE IF cash.asOf > t THEN "cash_future"
    ELSE None

PositionsIssue(e, positions) ==
    IF \E p \in positions : p.currency # "KRW" THEN "currency_unsupported"
    ELSE IF \E p \in positions : p.class # "cash" /\ Bucket(p.class) = None THEN "bucket_unsupported"
    ELSE IF \E p \in positions : p.class # "cash" /\ MarkOf(e, p.key) = None THEN "snapshot"
    ELSE None

Total(set, Value(_)) == FoldSet(LAMBDA p, sum : sum + Value(p), 0, set)

AssetWeights(buckets, invested) ==
    [b \in DOMAIN buckets |-> IF invested = 0 THEN 0 ELSE (buckets[b] * 100) \div invested]

(* The valuation; its nav may come out as zero. *)
Valuation(e, l) ==
    LET counted == Counted(l)
        marks == [k \in {e.key} \cup {p.key : p \in counted} |-> MarkOf(e, k)]
        Value(p) == p.qty * marks[p.key].price
        own == {p \in counted : p.key = e.key}
        invested == Total(counted, Value)
        buckets == [b \in {"kr", "us", "gold"} |-> Total({p \in counted : Bucket(p.class) = b}, Value)]
    IN  [nav |-> 2 * e.cash + invested,
         weights |-> AssetWeights(buckets, invested),
         symbolValue |-> Total(own, Value),
         costBasis |-> Total(own, LAMBDA p : p.qty * p.cost),
         quantity |-> Total(own, LAMBDA p : p.qty),
         marks |-> marks,
         reference |-> ReferencePrices(e, marks)]

-----------------------------------------------------------------------------
(* One evaluation: capture, cash, positions, trigger and dispatch.           *)

ProposedPrice(action, quote) == [price |-> IF action = "BUY" THEN quote.ask ELSE quote.bid, asOf |-> quote.at]

(* An update of key was applied: decision, snapshot and inputs are captured. *)
Captured(key) ==
    [pc |-> "captured", key |-> key, at |-> now, decision |-> active, inputs |-> provider, snap |-> Peek(key, now)]

Capturing(key) == ev = Idle /\ provider # None /\ active # None /\ active.key = key /\ Peek(key, now) # None

Capture(key) ==
    /\ Capturing(key)
    /\ ev' = IF Resolves(provider, active, now) THEN Captured(key) ELSE Idle
    /\ UNCHANGED <<now, file, provider, active, ledger, quotes, fires, sent, changes>>

(* The mark of the captured quote and the cash; a decision without a plan    *)
(* needs neither.                                                            *)
LoadCash ==
    /\ ev.pc = "captured"
    /\ ev' = IF ev.decision.plan = None THEN [ev EXCEPT !.pc = "valued"] @@ [context |-> None]
             ELSE IF ev.decision.plan.key # ev.key \/ CurrentMark(ev) = None THEN Idle
             ELSE LET proposed == ProposedPrice(ev.decision.plan.action, ev.snap.quote)
                  IN  IF proposed.asOf # CurrentMark(ev).asOf \/ LoadCashIssue(ledger.cash, ev.at) # None THEN Idle
                      ELSE [ev EXCEPT !.pc = "cash"] @@ [proposed |-> proposed, cash |-> ledger.cash.amount]
    /\ UNCHANGED <<now, file, provider, active, ledger, quotes, fires, sent, changes>>

(* The positions, their marks and the valuation; then the risk input, which  *)
(* may be refused.                                                           *)
LoadPositions ==
    /\ ev.pc = "cash"
    /\ \E riskInput \in BOOLEAN :
        ev' = IF PositionsIssue(ev, PaperPositions(ledger)) # None THEN Idle
              ELSE IF Valuation(ev, ledger).nav <= 0 \/ ~riskInput THEN Idle
              ELSE [ev EXCEPT !.pc = "valued"] @@ [context |-> Valuation(ev, ledger)]
    /\ UNCHANGED <<now, file, provider, active, ledger, quotes, fires, sent, changes>>

(* The engine refuses the bundle or suppresses the trigger. *)
Suppress ==
    /\ ev.pc = "valued"
    /\ ev' = Idle
    /\ UNCHANGED <<now, file, provider, active, ledger, quotes, fires, sent, changes>>

(* The engine fires and the bridge is given the order; it may fill. *)
Trigger ==
    /\ ev.pc = "valued" /\ ev.decision.plan # None /\ changes < MaxChanges
    /\ ev' = Idle /\ fires' = fires + 1
    /\ sent' = sent + 1
    /\ \E l \in Ledgers : ledger' = l
    /\ changes' = changes + 1
    /\ UNCHANGED <<now, file, provider, active, quotes>>

-----------------------------------------------------------------------------
(* The world.                                                                *)

Changing == changes < MaxChanges /\ changes' = changes + 1

Quote(key) ==
    /\ Changing
    /\ \E b \in Prices[key[1]] : quotes' = [quotes EXCEPT ![key] = [bid |-> b, ask |-> b + 1, at |-> now]]
    /\ UNCHANGED <<now, file, provider, active, ledger, ev, fires, sent>>

Publish ==
    /\ Changing
    /\ \E d \in Decisions : active' = d
    /\ UNCHANGED <<now, file, provider, ledger, quotes, ev, fires, sent>>

ReplaceFile ==
    /\ Changing
    /\ \E p \in Payloads : file' = p
    /\ UNCHANGED <<now, provider, active, ledger, quotes, ev, fires, sent>>

(* The process starts anew and loads the file; without a snapshot it does    *)
(* not run.                                                                  *)
Start ==
    /\ Changing
    /\ provider' = LoadExecutionInputsSnapshot(file)
    /\ ev' = Idle
    /\ quotes' = [k \in Keys |-> None]
    /\ UNCHANGED <<now, file, active, ledger, fires, sent>>

Tick ==
    /\ now < MaxTime
    /\ now' = now + 1
    /\ UNCHANGED <<file, provider, active, ledger, quotes, ev, fires, sent, changes>>

Init ==
    /\ now = 0 /\ ev = Idle /\ fires = 0 /\ sent = 0 /\ changes = 0
    /\ file \in Payloads /\ provider = LoadExecutionInputsSnapshot(file)
    /\ active \in Decisions /\ ledger \in Ledgers /\ quotes = [k \in Keys |-> None]

Next ==
    \/ \E key \in Keys : Capture(key) \/ Quote(key)
    \/ LoadCash \/ LoadPositions \/ Suppress \/ Trigger
    \/ Publish \/ ReplaceFile \/ Start \/ Tick

Spec == Init /\ [][Next]_vars

-----------------------------------------------------------------------------
Valued == ev.pc = "valued" /\ ev.context # None

(* Sizing is never done with a snapshot that had expired, was not yet valid  *)
(* or belongs to another universe than the decision, however long the        *)
(* process has run and whatever was published since it started (resolve).    *)
InputsCurrent ==
    ev # Idle =>
        /\ ev.inputs.created <= ev.at /\ ev.at <= ev.inputs.expires
        /\ ev.inputs.universe = ev.decision.universe
        /\ ev.inputs.allocUniverse = ev.decision.universe

(* What the process runs with is what was sealed: no file edited after its   *)
(* hash was made is ever taken up (load_execution_inputs_snapshot).          *)
InputsUnaltered == provider # None => provider.hash = Content(provider)

(* The execution price, the mark and the reference price of the evaluated    *)
(* symbol are of one quote, even when a newer quote with the same time came  *)
(* in after the capture (build_context's single-quote rule).                 *)
PricedOnOneQuote ==
    Valued =>
        LET mark == ev.context.marks[ev.key]
        IN  /\ mark.asOf = ev.proposed.asOf
            /\ mark.price \in {2 * ev.proposed.price - 1, 2 * ev.proposed.price + 1}

(* Where two markets list one symbol, the reference price the risk filter    *)
(* sees under the symbol is of the evaluated market (build_context).         *)
ReferenceIsOwnMark == Valued => ev.context.reference[ev.key[2]] = ev.context.marks[ev.key]

(* No position is valued with a quote of another market (marks by market     *)
(* and symbol).                                                              *)
NoCrossMarketMark ==
    Valued => \A k \in DOMAIN ev.context.marks : \E b \in Prices[k[1]] : ev.context.marks[k].price = 2 * b + 1

(* A dependency that fails consumes no fire: whatever is fired is dispatched *)
(* with a context (process builds everything before it evaluates).           *)
FiredIsDispatched == fires = sent
==============================================================================
