# AutoStock: TLA+ models, model checking and proofs

AutoStock is a paper-trading system in two loops. The *slow loop* produces a
decision (a bundle: a decision and, unless it is a HOLD, a trigger plan) a few
times a day and publishes it. The *fast loop* follows the market tick by tick,
fires the trigger of the active decision, and turns a fire into one order of
the paper broker. Around them stand the tools of the operator: research intake,
the manual decision rounds, prechecks and approvals, the attended paper day and
its review, the backtest and the emergency rules. Paths below are relative to
`src/src/` unless they begin with `ops/` or `docs/`.

## 1. The system

| Part | Durable state | State in memory | Operations |
|---|---|---|---|
| fire journal and bridge (`execution/sqlite_trigger_journal.py`, `execution/trigger_order_bridge.py`) | one row per idempotency key: state, UNIQUE `order_id`, result | the call in progress | dispatch, reconcile_record, reconcile_all |
| paper broker and ledger (`broker/paper_broker.py`, `ledger/sqlite_ledger.py`) | intents, results, fills, positions, cash, append-only cash ledger | - | constructor (seeds the cash), submit_order |
| trigger engine (`market_data/trigger_engine.py`) | - | active bundle, state, epoch, debounce, reset, cooldown, fires | replace_bundle, evaluate |
| coordinator, orchestrator, portfolio context (`execution/`, `orchestration/fast_loop_execution.py`) | execution input snapshot | terminal flag, halted symbols | handle_applied_update, process, recover, build_context |
| decision store and refresh scheduler (`orchestration/`) | versions, active pointer, slot journal with leases | the tick in progress | publish, reserve / complete / reconcile a slot, run, _tick |
| monitor, stores, health policy, supervisor, websocket source (`market_data/`, `data/`) | - | connection, stream epoch, last events, restart times | run, apply, observe, reset_stream, evaluate |
| paper loop (`paper_loop/`, `risk/`, `ops/run_paper_once.py`) | decision store, ledger, NAV | - | one batch run, its preparation and rehearsal |
| attended paper day (`composition/attended_paper_day.py`) and its review scripts | lock file, evidence, summary, envelope | the run in progress | run, validate, report, readiness |
| precheck, receipt, candidate, approval (`composition/`) | receipts, approval artifact file | - | inspect, build, verify, revalidate, write, read |
| research intake, hand-off, manual rounds (`ops/`) | plain files, source store | - | fetch, save, export, build, validate, verify |
| backtest, forward observation, emergency rules (`backtest_engine/`, `emergency/`) | snapshot, metrics, manifest, event file | - | prepare, finalize, walk, detect, plan, save |

How they meet: schedulers and the fast loop share only the decision store; the
fast loop and the one-shot paper loop share only the ledger; the journal and
the ledger are two databases *without a common transaction*; the operator tools
share directories of plain files. Everything in memory (the engine's fires and
epochs, the halted symbols) is lost with the process, and the journal and the
ledger have to make up for it.

What makes it hard: a process dies between two durable steps; two processes
work on one database or one directory; a lease expires while its holder still
works; an answer of an old connection arrives on a new one; an order is admitted
on cash that is already spent; a check reads files one after the other while
someone writes them. `PROJECT.json` lists these hazards at their lines with the
properties that watch them.

## 2. Modules

Every module names the source file it models in its header, and `PROJECT.json`
maps every definition to lines. A helper that models a few lines inside a mapped
function is covered by the entry of that function. Operators marked "Mutant"
are wrong versions of the definition that follows them; they show that a
property would notice the mistake, and are used by nothing else.

**Order path.** `TriggerOrderBridge` has one step per durable step of dispatch
(reserve, prepare, ledger preflight, mark_dispatching, submit, postflight,
finalize) and of reconcile_all; `Crash` ends a process anywhere, and every
journal update is a compare-and-set with the guard of the SQL `UPDATE`.
`FireProtocol` is the abstract promise: a decision owns its order id once, only
the owner sends, and once. `TriggerEngine` gives replace_bundle and evaluate as
functions from an engine record and a tick to the new record, a status and a
signal (both run under one lock, so one call is one step); `TriggerEngineRun` is
one life of an engine, with history variables computed from the ticks alone.
`FastLoopExecution` composes engine and bridge (keys `<<decision, plan, epoch>>`)
under the orchestrator's flags, with `Stop` and `Start` losing the engine and
keeping the databases. `ExecutionContext` is what a fire is sized with: the
input snapshot, the ledger and the latest quotes, with quotes, fills and files
arriving between the steps. The deployed evaluation is synchronous and the
stores are locked, so quotes arriving between capture and valuation are more
than today's code can meet; only the KR and US markets exist.

**Money.** `PaperBroker`: one account, one currency; submit_order is `Evaluate`
(the reads outside the transaction) and one of `RecordUnfilled`, `RecordFilled`,
`Rollback`, so the evaluation may be stale; seeding is cut the same way, because
Python's sqlite3 opens the transaction at the first write. Commission and tax
are the one constant `Fee`; average cost and NAV snapshots are left out.
`PaperLoop` is the batch run with its risk filter and its five transactions,
killed and repeated; `PaperLoopPrep` assembles and rehearses its input.

**Decisions.** `ActiveDecisionStore` has one operator per transaction.
`MarketSession` is the calendar over numbered instants.
`DecisionRefreshScheduler` runs any number of schedulers over one store: a tick
is cut at every store transaction and at the await of the runner; `now[o]` is
the instant the owner read, which may be long past. `PilotDecisions` is the
four-slot publisher of the attended day, `DecisionIntegrity` one stored row
column by column with its two readers.

**Market data.** `MarketHealth` is the verdict, `MarketHealthTracking` the tracker
fed late, twice and out of order, `MarketSupervisor` the supervisor with its
monitor task, restart window and cancellation, `MarketMonitor` the monitor with
the latest and rolling stores, `KisWebsocketSource` the websocket source, its
parser and its smoke run (transport callbacks are taken not to raise),
`KisReadOnlySmoke` the HTTP smoke.

**Paper day.** `AttendedPaperDay` is the run system call by system call:
admission, lock, evidence, databases, loop, close, last record, publication,
release. A call may fail with an OSError, another exception, an interrupt or a
fatal, also after it took effect; a process may be killed; an operator clears
locks (with `OperatorCareful` only those of runs that are over).
`PaperDayReview` has the readiness check, the command and the two readers of
what a run leaves; `FastLoopCli` the command line with its twelve modes.

**Activation.** `RuntimePrecheck` (four files nothing locks together),
`PrecheckReceipt` and `ReceiptExchange` (a digest is its content),
`ActivationCandidate`, `ApprovalChain`, and `ArtifactFile` with failing calls, two
writers, a foreign program and a power failure.

**Research desk.** `ResearchIntake` (two terminals, kills, forced runs; a `Date.md`
interrupted in the middle is torn; `--dry-run` and the field mapping of the
providers are left out), `KrHandoff` (four tools over one directory),
`ManualRounds` (scout, allocator, analysis).

**Portfolio.** `LocalDataset`, `WalkForward` (rates and prices are powers of two,
so that every quotient is an integer), `ForwardObservation`, `EmergencyMonitor`.

The `MC*` modules put the components of a section together for TLC. The
components of one run share no variable, so a behaviour runs *one* of them,
named by `part`, while the others stand still or are off: the run explores the
sum of the state spaces and not their product, and `part = "x" => P` is P of
that component.

## 3. Runs

Run with `tlc -workers 2 -config <cfg> <module>`; each takes one to four minutes.

| Run | Components (parts) | What holds |
|---|---|---|
| `order_path` | bridge, fast loop, engine, context | one broker call per decision over crashes and restarts; journal and ledger agree; rows only move forward; no order after doubt; a fire is debounced, cooled down, reset and within budget; it is sized on one picture |
| `paper_ledger` | broker, broker with one seeder, paper runs, risk bands, assembly, rehearsal | no overdraft; fills, cash rows and holdings agree; a result is final; a decision is submitted once over reruns; what was filled keeps the bands; an assembled input cites stored sources |
| `decisions` | scheduler, pilot publisher, stored row | a slot runs once, valid leases protect, slot and publication agree and are in time; the pointer is the newest publication; final rows stay final; an altered row is refused by every reader |
| `market_feed` | supervisor, tracker, monitor, websocket, HTTP smoke | one monitor within its restart budget; the verdict is of this connection; stores never mix two connections; no event before the acknowledgements; the smoke's report is honest |
| `paper_day` | attended day, review (three instances), command line | one run at a time; exit 0 tells the truth about the files; a PASS is never ahead of its evidence; residue is reported; outputs are never replaced; validator and report pass exactly the clean runs |
| `activation` | precheck, receipt, candidate, approval chain, artifact writers, artifact reader | a PASS describes one instant; the readers of a receipt agree; a qualified candidate is untouched; what is accepted goes back to one run; the artifact file is durable, complete, never overwritten |
| `research_desk` | intake, killed intake, hand-off, rounds, redone rounds | a cited id keeps naming one fact; a verified hand-off is intact; citations stay in scope |
| `portfolio` | forward record, backtest, kill switch, triggers | the chain of months holds; no look-ahead, value is conserved; the kill switch is orderly; a cooldown is of its own key |
| `progress` | monitor, bridge, scheduler, supervisor | liveness: a silent monitor ends, a call returns, a slot settles, a lost monitor is replaced |
| `order_path_orphan`, `paper_ledger_seed`, `decisions_night` | one each | a statement of the repository that the code does not meet (section 5) |

**Bounds** stand in the MC modules and the `.cfg` files, each named there. They
are the smallest that reach the case a property is about: two fires of one
decision for the UNIQUE column, two processes for a stale read, two restarts for
epochs that are counted anew, a lease of one instant for a scheduler that stalls
and finds its reservation expired, cash that covers some orders and not all,
one failing call and one kill for every point between two system calls of a
paper day, two writers and one power failure for the artifact file, one edit
between any two reads of a precheck. What the proofs of section 4 cover does not
depend on them. Symmetry is used for processes, owners, runs and directories,
never in the run with liveness.

**Deadlock** is not checked: in every component a finite supply (orders, ticks of
a bounded clock, runs, faults) is used up and nothing is left to do. That nothing
waits in the middle of a call is what `progress` checks instead.

**Fairness** (only `progress`). Synchronous code that is not killed goes on: weak
fairness of the steps of dispatch and reconcile_all, of a scheduler's tick and
of the supervisor's. The event loop resumes what waits with a timeout: a
finished backoff, a timed-out wait, a runner that returned. Time passes. A
scheduler that ended is started again; this is an assumption about the operator,
and the conclusion needs it: with no scheduler running no slot settles. No fault
and no crash is fair, and the source of the monitor may stay silent for ever.

## 4. Proofs

`tlapm <module>.tla` checks them. They hold for every value of the constants
that satisfies the named assumptions, which TLC evaluates in the runs. The
proofs stand at the end of the module they are about, those of the bridge in
`TriggerOrderBridgeProofs`, those of the decision store with its schedulers in
`DecisionRefreshScheduler`.

**The bridge** (`BridgeConstants`). `BridgeInvariant`, `BrokerCalledOnce`
(`AtMostOneSubmit`) and `JournalTellsTheTruth` (an aborted row sent nothing, a
committed row has the ledger's result). `AtMostOneSubmit` is not inductive: it
does not say why a second process cannot be about to call the broker.
`BridgeInv` adds that exactly the rows past mark_dispatching own their order id,
and no two the same one (`OrderIdOwnership`); that a process past
mark_dispatching stands on such a row, has made no call yet when it is about to
submit, and that what it read from the ledger still holds (`HoldsRow`); and that
no two processes dispatch one key (`DistinctKeys`). `BridgeImplementsProtocol`
(`RowsSettleForward`) is the refinement: under the mapping given there, initial
states and steps of the bridge are those of `FireProtocol` or stutter.

**The broker** (`PaperBrokerConstants`). `BrokerNeverOverdraws` (`NoOverdraft`) does not use the
checks made before the transaction at all, which may be stale; what keeps cash
and positions from going below zero are the checks inside it (`Applies`).
`TablesAgree`: a FILLED order has one fill and one cash row, any other neither.
`ResultsWrittenOnce` (`ResultsAreFinal`). `LedgerExplainsCashUnderOneSeeder`: with
at most one seeding process the cash rows are a chain that ends in the balance,
so the race of the run `paper_ledger_seed` is the only way to break it.

**The scheduler and the store** (`SchedulerConstants`). `SlotsAreKept` (`RefreshKeepsItsSlots`)
and `JournalMovesForward` (`JournalOnlyMovesForward`), for any owners, slots,
days, leases and faults. The invariant `SchedulerInv` ties an owner that is
past its reservation to the row it reserved, for as long as its lease token is
in the row; lemmas about each transaction of the store say what it keeps.

**The engine** (`RunConstants`). `FiresWithinBudget` and
`EngineFiresByTheRules`: the invariant `RunInv` equates the engine's counters with
the history of the ticks (the length of the true run, the start of the
debounce, the resets since the cooldown) as far as the engine looks.

**The fast loop** (`LoopConstants`). `LoopImplementsBridge`: every step of the
composition is a step of the bridge's specification for one of its processes, or
leaves the bridge alone; so `BridgeInvariant` carries over, and every decision
reaches the broker at most once although the engine forgets its fires.
`LoopStaysConsistent` and `NoOrderInDoubt` rest on `LoopInv`: a loop that takes
updates has no open row, and a halted symbol remembers the doubt.

**The health tracker** (`TrackingConstants`). `VerdictIsOfThisEpoch`: however signals
are delayed, repeated or reordered, execution-ready is said only of a
subscribed, stable connection that brought the latest quote itself.

**The attended paper day** (`DayConstants`). `RunsAccounted` is the
invariant `DayInv`, for any number of runs, outputs, inodes, faults and kills.
From it follow `FilesTellTheTruth` (`CleanPassIsTrue`, `PassHasEvidence`,
`ResidueReported`) and the action property `OutputsNeverReplaced`, whatever the
operator does, and, for an operator who clears only the locks of runs that are
over (`OperatorCareful`), `PaperDayHonest` (`PaperDayTellsTheTruth`, which adds
`OneRunHolds`). The assumption is needed: when the lock of a live run is cleared
another run takes it, and since release compares the inode and unlinks the path
in two calls, the first may then remove the lock of the second. None of these is inductive, since each speaks of a run that has
ended and nothing in it says how the run got there. `DayInv` gives every run an
account of its files. `Course` is what the state of one run says: a PASS that
is still standing has its evidence, its databases closed and its criteria met,
and a run at its verdict knows its lock gone or has a failure to report.
`EvidenceIsOwn` and `SummaryIsOwn` tie that state to the files (a summary that
is this run's was linked by it, after its evidence was complete), and
`LockAccounted` ties it to the lock file. `OneRunMoves` shows once and for all
that a step which touches only its own files leaves the account of every other
run true; after it there is one lemma per action, about the acting run alone. TLC
confirms `DayInv` on the instance of `paper_day`, with either operator.

**Only model-checked.** Liveness, which is beyond these provers.
`FillsExplainHoldings` (a holding is the sum of the fills), `FlappingCountsWindow`
and the restart budget (the size of a selection of a sequence), since sums and
sizes over data need induction. Everything else of the components without a
proof: the paper loop, the market monitor, supervisor and sources, the review
scripts, activation, research desk and portfolio. Their properties are checked
on the bounds of section 3.

## 5. Where the code and its own statements differ

Three disagreements have a run of their own.

- `order_path_orphan`: the bridge says that a dispatch whose order already has a
  durable result is settled from it (`execution/trigger_order_bridge.py:292`).
  When another row owns the order id, mark_dispatching raises instead and the
  row stays RESERVED. A restart reaches this: epochs are counted anew, so the
  same decision fires under another key. No second order is sent, but the next
  attended start is refused until someone recovers the journal.
- `paper_ledger_seed`: two processes that construct a broker over one fresh
  ledger can both write the initial cash; the cash ledger then no longer adds
  up (`broker/paper_broker.py:165`). A lock file keeps attended days apart; the
  broker itself does not check.
- `decisions_night`: slots left over *after* the session are recorded as missed
  (`orchestration/decision_refresh_scheduler.py:17`). The calendar also says
  CLOSED from midnight to pre-open, so a scheduler that is up in the night marks
  all slots of the coming day missed, and none runs.

Others were met while modelling; the models do what the code does, and the
properties are stated so that they hold of it.

- A RESERVED slot left over from *yesterday* is never reconciled: only the slots
  of the current date are looked at (`orchestration/decision_refresh_scheduler.py:292`, against `:19`).
- A cancellation of the supervisor that arrives while it cancels its monitor is
  swallowed and `run` goes on (`market_data/supervisor.py:480`); when the
  sink raises on restart_backoff the monitor is still created (`:381`). Both
  against `docs/MARKET_SUPERVISOR_CONTRACT.md`.
- A cancellation during the clean-up of the websocket source leaves the
  connection open (`data/kis_ws_source.py:311`, against `:100`). A quote frame
  padded with three or more empty fields per record is read with the wrong
  record length (`market_data/kis_official_ws_parser.py:279`, against `:274`).
- Attended paper day (`composition/attended_paper_day.py`): an interrupt right after os.link reports
  NOT_WRITTEN of a summary that is there (`:1762`); a failing fstat leaves the
  lock behind (`:485`); a second interrupt in a handler skips finalisation and
  release (`:1282`); the DB directory is not looked at again under the lock
  (`:1026`); release compares and unlinks in two calls, so a lock cleared and
  retaken in between is removed (`:564`); of two slots due at the first update
  the newer is refused for good (`:784`).
- The inspector compares the texts of a UTC timestamp (`Z` and `+00:00`) where
  the reader compares instants, and refuses what the fast loop loads
  (`composition/sqlite_inspector.py:740`, against `:584`). A pointer that begins
  to dangle between the precheck's two reads is not reported
  (`composition/paper_fast_loop.py:812`).
- A paper run whose run_id is in the store by the time its result is saved has
  already traded (`paper_loop/runner.py:237`, against `docs/RUNBOOK.md:1759`). The
  rehearsal's text says "unchanged: PASS" of a database that the rehearsal saw
  appear (`ops/rehearse_paper_loop_no_write.py:199`).
- The report treats an unreadable envelope as absent, the validator as an error
  (`ops/render_paper_day_report.py:198`, against `:8`).
- From the second month on a data set failure is PENDING, not BLOCKED
  (`backtest_engine/forward_monthly_observation.py:421`).
- The liquidation plan shrinks the gap while it keeps the proportions, and falls
  short (`emergency/mdd.py:299`); an event store line that lost its line end takes
  the next event with it (`emergency/store.py:31`).

## 6. What is not modelled

Network clients (LLM, the order calls of KIS, which have no caller), the live
order adapter (disabled, no composition reaches it), the Decimal arithmetic of
indicators and the metric formulas, the ranking of the KR candidate pool, paper
review and post-mortem statistics, value types and configuration, report
wording, and the remaining command lines around modelled components. Left out
inside modelled components: row timestamps of the journal, average cost, several
accounts and currencies, half-day construction of the calendar, offline replay
of a tape, JSON schemas and prompts. `PROJECT.json` gives the reason part by part.
