------------------------- MODULE ForwardObservation -------------------------
(***************************************************************************)
(* The offline forward monthly observation                                 *)
(* (src/backtest_engine/forward_monthly_observation.py).  PREPARE freezes  *)
(* the decision of a month in a snapshot file; FINALIZE, after the month,  *)
(* evaluates it against the data directory and writes a metrics file and a *)
(* manifest, chaining the cumulative returns with the metrics file of the  *)
(* month before.  Months are 1..Window, month m begins on day m and ends   *)
(* on day m + 1.  Between the steps of an operation the clock can pass a   *)
(* month boundary, the data directory can be edited, HEAD can move, and    *)
(* the process can die.                                                    *)
(*                                                                         *)
(* A digest is the content it is computed from.  A cumulative return is    *)
(* the sequence of the monthly returns it is the product of.               *)
(***************************************************************************)
EXTENDS LocalDataset, Integers

CONSTANTS Window,     \* the observations of the window (12)
          FxAssets,   \* the instruments quoted in dollars
          Policies,   \* [policy -> [asset -> percent]], the frozen weights
          FeeBps, FxSpreadBps,
          Quotes,     \* the closes a new month can bring: [file -> close]
          Closes,     \* the closes an edit can write
          MaxFaults,  \* edits, damage, tampering, commits and crashes
          None

Months == 1 .. Window
Evaluated == {"PENDING_FULL_WINDOW", "COMPLETE_FULL_WINDOW_READY_FOR_GATE_REVIEW"}
Series == DOMAIN Policies \cup {"primary"}

VARIABLES now, files, head, snapshot, metrics, manifest, proc, faults
vars == <<now, files, head, snapshot, metrics, manifest, proc, faults>>

-----------------------------------------------------------------------------
(* Pure parts of the two operations.                                       *)

(* _asset_period_values: the latest row of every instrument and period.    *)
PeriodValues(d) ==
    LET keys == {<<r.asset, r.period>> : r \in d.records}
        of(k) == {r \in d.records : <<r.asset, r.period>> = k}
        first(k) == CHOOSE r \in of(k) : \A s \in of(k) :
                        \/ r.asOf > s.asOf
                        \/ r.asOf = s.asOf /\ r.date_id[2] <= s.date_id[2]
    IN  [k \in keys |-> first(k).close]

(* _decision_input_digest: everything up to the cutoff.                    *)
DecisionInputDigest(d, cutoff) ==
    LET values == PeriodValues(d)
    IN  [common |-> {p \in d.common : p <= cutoff},
         values |-> [k \in {k \in DOMAIN values : k[2] <= cutoff} |-> values[k]],
         fx     |-> [p \in {p \in DOMAIN d.fx : p <= cutoff} |-> d.fx[p]]]

(* _validate_prepare_dataset: no trace of the month to be observed, and    *)
(* the cutoff is the last month every file has.                            *)
PrepareDatasetOk(d, month) ==
    /\ \A r \in d.records : r.period < month
    /\ \A p \in DOMAIN d.fx : p < month
    /\ d.common # {} /\ Max(d.common) = month - 1

(* _portfolio_monthly_return: the weighted returns less the cost of buying *)
(* the portfolio, in units of 1 / Unit (weights are percents, costs basis  *)
(* points, and the ratio of two closes a multiple of 1 / 8).               *)
Unit == 100 * 10000 * 8
PortfolioMonthlyReturn(weights, returns) ==
    10000 * MapThenSumSet(LAMBDA a : weights[a] * returns[a], Assets)
      - 8 * (FeeBps * MapThenSumSet(LAMBDA a : weights[a], Assets)
             + FxSpreadBps * MapThenSumSet(LAMBDA a : weights[a], FxAssets))

(* _calculate_monthly_returns: from the cutoff to the month, in won; the   *)
(* primary benchmark is the first instrument.                              *)
MonthlyReturns(d, month) ==
    LET v == PeriodValues(d)
        rate(a) == IF a \in FxAssets THEN d.fx ELSE [p \in {month - 1, month} |-> 1]
        returns == [a \in Assets |->
                      (8 * v[<<a, month>>] * rate(a)[month])
                        \div (v[<<a, month - 1>>] * rate(a)[month - 1]) - 8]
    IN  [x \in Series |-> IF x = "primary" THEN 100 * 10000 * returns[Specs[1]]
                          ELSE PortfolioMonthlyReturn(Policies[x], returns)]

(* _validate_nav_sanity: no portfolio lost all it had.                     *)
NavSane(monthly) == \A x \in Series : monthly[x] > -Unit

(* _validate_static_comparator_separation.                                 *)
ComparatorsSeparate == \A x, y \in DOMAIN Policies : x # y => Policies[x] # Policies[y]

(* Nothing is evaluated before the day after the month.                    *)
MonthIsOver(s, today) == today >= s.month + 1

(* The checks of an observation and its outcome so far; nothing is         *)
(* evaluated when monthly is None.                                         *)
Outcome(status, monthly, frequency, dataset, comparator, nav) ==
    [status |-> status, monthly |-> monthly,
     checks |-> [frequency |-> frequency, dataset |-> dataset,
                 comparator |-> comparator, nav |-> nav]]
Pending == Outcome("PENDING_MONTHLY_OBSERVATION", None, "PENDING", "PENDING", "PENDING", "PENDING")

(* The evaluation of finalize, its exceptions mapped to a status.  A month *)
(* in the common periods has every value, so the missing-value branches of *)
(* _validate_finalize_dataset are the common-period tests made here.       *)
Evaluate(s, today, fs) ==
    LET d == Dataset(fs)
        monthly == MonthlyReturns(d, s.month)
    IN  CASE ~MonthIsOver(s, today) -> Pending
          [] AssembleError(fs) = "notfound" -> Pending
          [] AssembleError(fs) = "invalid" ->
                Outcome("BLOCKED_DATA_QUALITY", None, "PENDING", "BLOCKED", "PENDING", "PENDING")
          [] ~({s.month, s.cutoff} \subseteq d.common) -> Pending
          [] DecisionInputDigest(d, s.cutoff) # s.digest ->
                Outcome("BLOCKED_DATA_QUALITY", None, "PASS", "BLOCKED", "PENDING", "PENDING")
          [] ~ComparatorsSeparate ->
                Outcome("BLOCKED_DATA_QUALITY", None, "PASS", "PASS", "BLOCKED", "PENDING")
          [] ~NavSane(monthly) ->
                Outcome("BLOCKED_NAV_SANITY", monthly, "PASS", "PASS", "PASS", "BLOCKED")
          [] OTHER ->
                Outcome(IF s.month = Window THEN "COMPLETE_FULL_WINDOW_READY_FOR_GATE_REVIEW"
                        ELSE "PENDING_FULL_WINDOW",
                        monthly, "PASS", "PASS", "PASS", "PASS")

(* _cumulative_metrics and _load_verified_json_document: None without this *)
(* month's return, without the previous month's file, and when that file   *)
(* was not evaluated; an altered file raises.                              *)
CumulativeRaises(s, o, previous) ==
    /\ o.monthly # None /\ s.month > 1 /\ previous # None
    /\ ~previous.intact


Cumulative(s, o, previous) ==
    IF o.monthly = None \/ o.status \notin Evaluated THEN None
    ELSE IF s.month = 1 THEN <<o.monthly>>
    ELSE IF previous = None THEN None
    ELSE IF previous.status \notin Evaluated THEN None
    ELSE Append(previous.cumulative, o.monthly)

(* What finalize publishes: a raise of the chaining blocks the month, and  *)
(* after the first month whatever has no cumulative return is pending.     *)
MetricsOf(s, o, previous) ==
    LET raised == CumulativeRaises(s, o, previous)
        c == IF raised THEN None ELSE Cumulative(s, o, previous)
        blocked == IF raised THEN "BLOCKED_DATA_QUALITY" ELSE o.status
        status == IF s.month > 1 /\ c = None THEN "PENDING_MONTHLY_OBSERVATION" ELSE blocked
    IN  [month |-> s.month, head |-> s.head, status |-> status, monthly |-> o.monthly,
         cumulative |-> IF status = "PENDING_MONTHLY_OBSERVATION" THEN None ELSE c,
         checks |-> IF raised THEN [o.checks EXCEPT !.dataset = "BLOCKED"] ELSE o.checks,
         intact |-> TRUE]

ManifestOf(s, x) ==
    [status |-> x.status, snapshot |-> s, metrics |-> x,
     evaluated |-> IF x.monthly # None THEN 1 ELSE 0]

(* _write_external_json: a file that is there is replaced only when asked  *)
(* to, and only before its deadline.                                       *)
MayWrite(old, overwrite, today, deadline) ==
    old = None \/ (overwrite /\ today < deadline)

(* load_and_verify_forward_decision_snapshot: the file is there and its    *)
(* digest is that of its content.                                          *)
SnapshotLoads(s) == s # None /\ s.intact

(* _verify_frozen_identity: frozen at the commit that runs now; the other  *)
(* identities are constants of the code.                                   *)
FrozenIdentity(s, h) == s.head = h

-----------------------------------------------------------------------------
Idle == [pc |-> "idle", month |-> 0, overwrite |-> FALSE, today |-> 0,
         snap |-> None, doc |-> None]

Csv(asset) == [kind |-> "csv", symbol |-> asset, rows |-> {}]

(* Month 0, the cutoff of the first month, is on disk at the start.        *)
Init ==
    /\ now = 0
    /\ \E q \in Quotes :
          files = [f \in Files |-> [Csv(f) EXCEPT !.rows =
                                      {[period |-> 0, asOf |-> 0, close |-> q[f]]}]]
    /\ head = 1
    /\ snapshot = [m \in Months |-> None]
    /\ metrics = [m \in Months |-> None]
    /\ manifest = [m \in Months |-> None]
    /\ proc = Idle
    /\ faults = 0

(* prepare, up to the write: the identity and the data set are validated   *)
(* and the decision is frozen.  An invalid run ends without a trace.       *)
PrepareStart(m, overwrite) ==
    /\ proc.pc = "idle"
    /\ AssembleError(files) = ""
    /\ PrepareDatasetOk(Dataset(files), m)
    /\ proc' = [Idle EXCEPT !.pc = "prepare", !.month = m, !.overwrite = overwrite,
                  !.doc = [month |-> m, cutoff |-> m - 1, head |-> head,
                           digest |-> DecisionInputDigest(Dataset(files), m - 1),
                           intact |-> TRUE]]
    /\ UNCHANGED <<now, files, head, snapshot, metrics, manifest, faults>>

(* The write of prepare; its clock is read here.                           *)
PrepareWrite ==
    /\ proc.pc = "prepare"
    /\ LET m == proc.month
       IN  snapshot' = IF MayWrite(snapshot[m], proc.overwrite, now, m)
                       THEN [snapshot EXCEPT ![m] = proc.doc] ELSE snapshot
    /\ proc' = Idle
    /\ UNCHANGED <<now, files, head, metrics, manifest, faults>>

(* finalize, up to the evaluation: the snapshot must be there, unaltered,  *)
(* and frozen at the commit that runs; the clock is read once, here.       *)
FinalizeStart(m, overwrite) ==
    /\ proc.pc = "idle"
    /\ SnapshotLoads(snapshot[m])
    /\ FrozenIdentity(snapshot[m], head)
    /\ proc' = [Idle EXCEPT !.pc = "evaluate", !.month = m, !.overwrite = overwrite,
                  !.today = now, !.snap = snapshot[m]]
    /\ UNCHANGED <<now, files, head, snapshot, metrics, manifest, faults>>

(* The evaluation and the chaining with the previous month's file.         *)
FinalizeEvaluate ==
    /\ proc.pc = "evaluate"
    /\ LET m == proc.month
           previous == IF m > 1 THEN metrics[m - 1] ELSE None
       IN  proc' = [proc EXCEPT !.pc = "metrics",
                      !.doc = MetricsOf(proc.snap, Evaluate(proc.snap, proc.today, files), previous)]
    /\ UNCHANGED <<now, files, head, snapshot, metrics, manifest, faults>>

FinalizeWriteMetrics ==
    /\ proc.pc = "metrics"
    /\ LET m == proc.month
       IN  IF MayWrite(metrics[m], proc.overwrite, proc.today, m + 1)
           THEN /\ metrics' = [metrics EXCEPT ![m] = proc.doc]
                /\ proc' = [proc EXCEPT !.pc = "manifest"]
           ELSE metrics' = metrics /\ proc' = Idle
    /\ UNCHANGED <<now, files, head, snapshot, manifest, faults>>

FinalizeWriteManifest ==
    /\ proc.pc = "manifest"
    /\ LET m == proc.month
       IN  manifest' = IF MayWrite(manifest[m], proc.overwrite, proc.today, m + 1)
                       THEN [manifest EXCEPT ![m] = ManifestOf(proc.snap, proc.doc)] ELSE manifest
    /\ proc' = Idle
    /\ UNCHANGED <<now, files, head, snapshot, metrics, faults>>

-----------------------------------------------------------------------------
(* The world around it.                                                    *)

(* The calendar moves on; an operation lasts less than a month.            *)
NextMonth ==
    /\ now < Window + 1
    /\ proc.pc \in {"evaluate", "metrics", "manifest"} => proc.today = now
    /\ now' = now + 1
    /\ UNCHANGED <<files, head, snapshot, metrics, manifest, proc, faults>>

(* The operator adds the rows of a month, at the earliest on its first day.*)
Deliver(q) ==
    LET p == Max({r.period : r \in files[Fx].rows}) + 1
    IN  /\ p <= now /\ p <= Window
        /\ \A f \in Files : files[f].kind = "csv"
        /\ files' = [f \in Files |-> [files[f] EXCEPT !.rows =
                        @ \cup {[period |-> p, asOf |-> p, close |-> q[f]]}]]
        /\ UNCHANGED <<now, head, snapshot, metrics, manifest, proc, faults>>

Fault == faults < MaxFaults /\ faults' = faults + 1

(* A restatement: a second row for a period, dated later.                  *)
Restate(f, r, close) ==
    /\ Fault /\ r \in files[f].rows /\ close # r.close
    /\ files' = [files EXCEPT ![f].rows = @ \cup {[r EXCEPT !.asOf = r.asOf + 1, !.close = close]}]
    /\ UNCHANGED <<now, head, snapshot, metrics, manifest, proc>>

(* A correction in place.                                                  *)
Correct(f, r, close) ==
    /\ Fault /\ r \in files[f].rows /\ close # r.close
    /\ files' = [files EXCEPT ![f].rows = (@ \ {r}) \cup {[r EXCEPT !.close = close]}]
    /\ UNCHANGED <<now, head, snapshot, metrics, manifest, proc>>

(* A file is lost or damaged, and put back.                                *)
Damage(f, kind) ==
    /\ Fault /\ files[f].kind = "csv"
    /\ files' = [files EXCEPT ![f].kind = kind]
    /\ UNCHANGED <<now, head, snapshot, metrics, manifest, proc>>

Repair(f) ==
    /\ files[f].kind # "csv"
    /\ files' = [files EXCEPT ![f].kind = "csv"]
    /\ UNCHANGED <<now, head, snapshot, metrics, manifest, proc, faults>>

(* The file of another instrument is put in an instrument's place.         *)
Mislabel(a) ==
    /\ Fault /\ files[a].symbol = a
    /\ files' = [files EXCEPT ![a].symbol = Fx]
    /\ UNCHANGED <<now, head, snapshot, metrics, manifest, proc>>

Commit ==
    /\ Fault /\ head' = head + 1
    /\ UNCHANGED <<now, files, snapshot, metrics, manifest, proc>>

TamperSnapshot(m) ==
    /\ Fault /\ snapshot[m] # None /\ snapshot[m].intact
    /\ snapshot' = [snapshot EXCEPT ![m].intact = FALSE]
    /\ UNCHANGED <<now, files, head, metrics, manifest, proc>>

TamperMetrics(m) ==
    /\ Fault /\ metrics[m] # None /\ metrics[m].intact
    /\ metrics' = [metrics EXCEPT ![m].intact = FALSE]
    /\ UNCHANGED <<now, files, head, snapshot, manifest, proc>>

Crash ==
    /\ Fault /\ proc.pc # "idle" /\ proc' = Idle
    /\ UNCHANGED <<now, files, head, snapshot, metrics, manifest>>

Operation ==
    \/ \E m \in Months, o \in BOOLEAN : PrepareStart(m, o) \/ FinalizeStart(m, o)
    \/ PrepareWrite \/ FinalizeEvaluate \/ FinalizeWriteMetrics \/ FinalizeWriteManifest

World ==
    \/ NextMonth \/ Commit \/ Crash
    \/ \E q \in Quotes : Deliver(q)
    \/ \E f \in Files, c \in Closes : \E r \in files[f].rows : Restate(f, r, c) \/ Correct(f, r, c)
    \/ \E f \in Files : Repair(f) \/ \E k \in {"absent", "malformed"} : Damage(f, k)
    \/ \E a \in Assets : Mislabel(a)
    \/ \E m \in Months : TamperSnapshot(m) \/ TamperMetrics(m)

Next == Operation \/ World
Spec == Init /\ [][Next]_vars

-----------------------------------------------------------------------------
Done(m) == metrics[m] # None /\ metrics[m].status \in Evaluated

(* A cumulative return chains every month of the window so far: an         *)
(* evaluated month's is the one the previous month's file still shows,     *)
(* multiplied by the return of this month.                                 *)
ChainHolds ==
    \A m \in Months :
        Done(m) => /\ Len(metrics[m].cumulative) = m
                   /\ Last(metrics[m].cumulative) = metrics[m].monthly
                   /\ m > 1 => /\ Done(m - 1)
                               /\ Front(metrics[m].cumulative) = metrics[m - 1].cumulative

(* The window is reported complete only when every month of it was         *)
(* evaluated, each after its end and each from the snapshot frozen for it. *)
CompleteMeansWholeWindow ==
    metrics[Window] # None /\ metrics[Window].status = "COMPLETE_FULL_WINDOW_READY_FOR_GATE_REVIEW"
      => now > Window /\ \A m \in Months : Done(m) /\ snapshot[m] # None

(* What was evaluated was decided from data that did not change: the       *)
(* manifest of an evaluated month carries the snapshot that is on disk,    *)
(* whose commit is the one in the metrics, and those metrics are the ones  *)
(* on disk.                                                                *)
Unaltered(x) == [x EXCEPT !.intact = TRUE]
ManifestMatches ==
    \A m \in Months :
        manifest[m] # None /\ manifest[m].status \in Evaluated
          => /\ Done(m)
             /\ manifest[m].metrics = Unaltered(metrics[m])
             /\ manifest[m].snapshot = Unaltered(snapshot[m])
             /\ metrics[m].head = snapshot[m].head

(* A decision is frozen when its month begins: from then on the snapshot   *)
(* of the month is not replaced by another one.                            *)
FrozenWhenMonthBegins ==
    \A m \in Months : now >= m /\ snapshot[m] # None
        => Unaltered(snapshot'[m]) = Unaltered(snapshot[m])

(* An evaluated month stays as it was published.                           *)
EvaluatedIsFinal ==
    \A m \in Months : Done(m) => Unaltered(metrics'[m]) = Unaltered(metrics[m])

=============================================================================
