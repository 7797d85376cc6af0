--------------------------- MODULE RuntimePrecheck ---------------------------
(***************************************************************************)
(* The runtime precheck of the paper fast loop (precheck_runtime and       *)
(* inspect_paper_fast_loop in src/composition/paper_fast_loop.py, over     *)
(* sqlite_inspector.py).  It fingerprints the artifacts one by one,        *)
(* inspects them one by one, fingerprints them again and writes a receipt, *)
(* while other processes go on writing: the artifacts are four files that  *)
(* nothing locks together.                                                 *)
(*                                                                         *)
(* A file has the version of its main file, the version of its committed   *)
(* content (ahead of the main file while a write-ahead log is there), the  *)
(* content, and its sidecars.  Versions only grow: SQLite counts every     *)
(* change in the header, and a snapshot names its own creation.            *)
(***************************************************************************)
EXTENDS PrecheckReceipt

CONSTANTS
    Contents,       \* [artifact -> what a writer may put there]
    FirstDisk,      \* the disks to start from
    Settings,       \* [symbol, enabled] of the configuration
    MaxWrites, MaxClock

VARIABLES
    disk,       \* artifact -> [kind, version, latest, content, side]
    writes,     \* write sessions so far (bound)
    clock,
    settings,
    s           \* the precheck in progress

diskVars == <<disk, writes>>

Names == Range(ArtifactNames)

-----------------------------------------------------------------------------

(* fingerprint_artifact, _stream_hash, _user_version_from_header,           *)
(* sidecar_files: attributes only, no connection.                           *)
FingerprintOf(a) ==
    LET f == disk[a]
        side == IF f.side THEN <<"-wal", "-shm">> ELSE <<>>
        base == [name |-> a, present |-> TRUE, regular |-> FALSE, size |-> None,
                 sha256 |-> None, version |-> None, sidecars |-> side]
    IN  CASE f.kind = "absent" -> [base EXCEPT !.present = FALSE, !.sidecars = <<>>]
          [] f.kind = "irregular" -> base
          [] f.kind = "regular" ->
                [base EXCEPT !.regular = TRUE, !.size = 1, !.sha256 = f.version,
                             !.version = IF a \in SqliteArtifactNames THEN 0 ELSE None]

-----------------------------------------------------------------------------
(* inspect_paper_fast_loop, one operator per artifact.  Each returns the    *)
(* reasons it adds.                                                         *)

R(code, a) == [code |-> code, artifact |-> a]

If(cond, code, a) == IF cond THEN <<R(code, a)>> ELSE <<>>

(* _inspect_execution_inputs *)
InspectExecutionInputs(f, now) ==
    LET a == JsonSnapshotName
    IN  CASE f.kind = "absent" -> <<R("missing_execution_inputs_snapshot", a)>>
          [] f.kind = "irregular" -> <<R("execution_inputs_invalid", a)>>
          [] f.kind = "regular" ->
                IF f.content.fault # "none" THEN <<R("execution_inputs_" \o f.content.fault, a)>>
                ELSE If(now < f.content.from, "execution_inputs_not_yet_valid", a)
                     \o If(now > f.content.until, "execution_inputs_expired", a)

(* The universe of a snapshot that could be loaded.                         *)
SnapshotUniverse(f) ==
    IF f.kind = "regular" /\ f.content.fault = "none" THEN f.content.universe ELSE None

(* _check_quiescent, the missing file, and open_read_only of a path that is *)
(* not a file: what the three databases have in common.                     *)
OpenReasons(f, a) ==
    IF f.kind = "absent" THEN <<R("missing_database", a)>>
    ELSE If(f.side, "database_not_quiescent", a)
         \o If(f.kind = "irregular", "unreadable:sqlite_not_a_file", a)
         \o If(f.kind = "regular" /\ ~f.content.schema, "schema", a)

Readable(f) == f.kind = "regular" /\ f.content.schema

(* _position_preflight_reasons: each kind of foreign position once.         *)
PositionReasons(positions, a) ==
    If("market" \in positions, "unsupported_market", a)
    \o If("role" \in positions, "unsupported_account_role", a)
    \o If("currency" \in positions, "unsupported_currency", a)
    \o If("foreign" \in positions, "foreign_position_present", a)

(* _inspect_ledger, scan_positions *)
InspectLedger(f) ==
    OpenReasons(f, "ledger")
    \o (IF Readable(f) THEN PositionReasons(f.content.positions, "ledger") ELSE <<>>)

(* _inspect_journal, summarize_journal: a row that is neither committed,    *)
(* aborted nor uncertain.                                                   *)
InspectJournal(f) ==
    OpenReasons(f, "trigger_journal")
    \o If(Readable(f) /\ f.content.states \cap {"reserved", "dispatching"} # {},
          "nonterminal_journal_entries", "trigger_journal")

(* _inspect_active_store up to the summary (summarize_active_store).        *)
InspectActiveStore(f) ==
    OpenReasons(f, "active_decision_store")
    \o If(Readable(f) /\ f.content.decision = "dangling",
          "dangling_active_pointer", "active_decision_store")

(* _inspect_active_decision: a second connection to the store.  A dangling  *)
(* pointer adds nothing here, the summary having reported it.               *)
InspectActiveDecision(f, now, universe) ==
    LET a == "active_decision_store"
    IN  IF ~(f.kind = "regular") THEN <<R("unreadable", a)>>
        ELSE CASE f.content.decision = "absent" -> <<R("missing_active_decision", a)>>
               [] f.content.decision = "dangling" -> <<>>
               [] f.content.decision \notin {"absent", "dangling", "ok"} ->
                    <<R("active_" \o f.content.decision, a)>>
               [] f.content.decision = "ok" ->
                    If(now < f.content.from, "active_decision_not_yet_valid", a)
                    \o If(now > f.content.until, "active_decision_expired", a)
                    \o If(universe # None /\ f.content.universe # universe,
                          "active_execution_universe_mismatch", a)

(* One artifact's share of the inspection, of a disk that stands still.     *)
InspectArtifact(a, f, now, universe) ==
    CASE a = JsonSnapshotName -> InspectExecutionInputs(f, now)
      [] a = "ledger" -> InspectLedger(f)
      [] a = "trigger_journal" -> InspectJournal(f)
      [] a = "active_decision_store" ->
            InspectActiveStore(f)
            \o (IF Readable(f) THEN InspectActiveDecision(f, now, universe) ELSE <<>>)

(* The whole inspection of a disk that stands still.                        *)
InspectDisk(d, now) ==
    FlattenSeq([i \in DOMAIN ArtifactNames |->
        InspectArtifact(ArtifactNames[i], d[ArtifactNames[i]], now,
                        SnapshotUniverse(d[JsonSnapshotName]))])

-----------------------------------------------------------------------------
(* The verdict.                                                             *)

(* _IRREGULAR_ARTIFACT_OWNED_INSPECTION_REASONS *)
OwnedBy(a) ==
    IF a = JsonSnapshotName THEN R("execution_inputs_invalid", a)
                            ELSE R("unreadable:sqlite_not_a_file", a)

ReasonsOver(Test(_), code) ==
    LET hit == SelectSeq(ArtifactNames, Test)
    IN  [i \in DOMAIN hit |-> R(code, hit[i])]

(* precheck_runtime after the second fingerprints: irregular and changed    *)
(* artifacts are reasons, and an irregular artifact owns the reason the     *)
(* inspection had for it.                                                   *)
Aggregate(before, inspection, after) ==
    LET at(fps, a) == CHOOSE fp \in Range(fps) : fp.name = a
        irregular(a) == at(before, a).present /\ ~at(before, a).regular
        owned == {OwnedBy(a) : a \in {x \in Names : irregular(x)}}
    IN  [inspection |-> IF inspection = <<>> THEN "ok" ELSE "no_go",
         reasons |-> SelectSeq(inspection, LAMBDA r : r \notin owned)
                     \o ReasonsOver(irregular, "precheck_artifact_not_regular_file")
                     \o ReasonsOver(LAMBDA a : at(before, a) # at(after, a), ChangedCode)]

(* The observation the receipt is built from.                               *)
ObservationOf(p) ==
    LET v == Aggregate(p.before, p.reasons, p.after)
    IN  [checkedAt |-> p.now, market |-> "KR", symbol |-> p.settings.symbol,
         enabled |-> p.settings.enabled,
         machine |-> IF v.inspection = "ok" /\ v.reasons = <<>> THEN "pass" ELSE "no_go",
         inspection |-> v.inspection, reasons |-> v.reasons,
         before |-> p.before, after |-> p.after]

-----------------------------------------------------------------------------
(* The steps of a precheck.                                                 *)

Idle == [pc |-> "idle", i |-> 1, now |-> 0, settings |-> None, before |-> <<>>,
         reasons |-> <<>>, universe |-> None, found |-> None, after |-> <<>>,
         mid |-> None, receipt |-> None]

Begin(now) == [Idle EXCEPT !.pc = "before", !.now = now, !.settings = settings]

Count == Len(ArtifactNames)

(* _fingerprint_artifacts, first time.  `mid' records the disk between the  *)
(* two rounds, as history.                                                  *)
FingerprintBefore ==
    /\ s.pc = "before"
    /\ s' = [s EXCEPT !.before = Append(@, FingerprintOf(ArtifactNames[s.i])),
                      !.i = IF s.i = Count THEN 1 ELSE s.i + 1,
                      !.pc = IF s.i = Count THEN "inspect" ELSE "before",
                      !.mid = IF s.i = Count THEN disk ELSE None]

InspectNext == [s EXCEPT !.i = IF s.i = Count THEN 1 ELSE s.i + 1,
                         !.pc = IF s.i = Count THEN "after" ELSE "inspect"]

(* One artifact is inspected; the active decision is read in a step of its  *)
(* own, over a connection of its own.                                       *)
Inspect ==
    /\ s.pc = "inspect"
    /\ LET a == ArtifactNames[s.i]
           f == disk[a]
       IN  IF a = "active_decision_store"
           THEN s' = IF Readable(f)
                     THEN [s EXCEPT !.reasons = @ \o InspectActiveStore(f), !.pc = "decision"]
                     ELSE [InspectNext EXCEPT !.reasons = @ \o InspectActiveStore(f)]
           ELSE s' = [InspectNext EXCEPT
                        !.reasons = @ \o InspectArtifact(a, f, s.now, s.universe),
                        !.universe = IF a = JsonSnapshotName THEN SnapshotUniverse(f) ELSE @]

InspectDecision ==
    /\ s.pc = "decision"
    /\ LET f == disk["active_decision_store"]
       IN  s' = [InspectNext EXCEPT !.reasons = @ \o InspectActiveDecision(f, s.now, s.universe),
                                    !.found = IF f.kind = "regular" THEN f.content.decision ELSE @]

FingerprintAfter ==
    /\ s.pc = "after"
    /\ s' = [s EXCEPT !.after = Append(@, FingerprintOf(ArtifactNames[s.i])),
                      !.i = IF s.i = Count THEN 1 ELSE s.i + 1,
                      !.pc = IF s.i = Count THEN "verdict" ELSE "after"]

(* The receipt is built; the builder could refuse a contradictory           *)
(* observation by raising.                                                  *)
Conclude ==
    /\ s.pc = "verdict"
    /\ s' = [s EXCEPT !.receipt = BuildReceipt(ObservationOf(s)), !.pc = "done"]

(* A fingerprint meets an OSError: it leaves precheck_runtime, and the      *)
(* command ends without a receipt.                                          *)
Unreadable == s.pc \in {"before", "after"} /\ s' = [s EXCEPT !.pc = "raised"]

PrecheckStep ==
    FingerprintBefore \/ Inspect \/ InspectDecision \/ FingerprintAfter \/ Conclude \/ Unreadable

-----------------------------------------------------------------------------
(* The rest of the machine: processes that hold a database open and commit  *)
(* to its log, a snapshot that is replaced, an artifact that goes away.     *)

Open(a) ==
    /\ writes < MaxWrites /\ a \in SqliteArtifactNames
    /\ disk[a].kind = "regular" /\ ~disk[a].side
    /\ disk' = [disk EXCEPT ![a].side = TRUE]
    /\ writes' = writes + 1

(* One commit a session is enough to tell the main file from its log.       *)
Commit(a, c) ==
    /\ disk[a].kind = "regular" /\ disk[a].side /\ disk[a].latest = disk[a].version
    /\ disk' = [disk EXCEPT ![a].content = c, ![a].latest = @ + 1]
    /\ UNCHANGED writes

(* The last connection closes: the log is moved into the main file.  A      *)
(* process that dies leaves its sidecars and this step does not happen.     *)
Close(a) ==
    /\ disk[a].kind = "regular" /\ disk[a].side
    /\ disk' = [disk EXCEPT ![a].side = FALSE, ![a].version = disk[a].latest]
    /\ UNCHANGED writes

Replace(c) ==
    /\ writes < MaxWrites
    /\ disk' = [disk EXCEPT ![JsonSnapshotName] =
                    [kind |-> "regular", version |-> @.version + 1, latest |-> @.latest + 1,
                     content |-> c, side |-> FALSE]]
    /\ writes' = writes + 1

Delete(a) ==
    /\ writes < MaxWrites /\ disk[a].kind # "absent"
    /\ disk' = [disk EXCEPT ![a].kind = "absent", ![a].side = FALSE]
    /\ writes' = writes + 1

Write ==
    \/ \E a \in Names : Open(a) \/ Close(a) \/ Delete(a) \/ \E c \in Contents[a] : Commit(a, c)
    \/ \E c \in Contents[JsonSnapshotName] : Replace(c)

Tick == clock < MaxClock /\ clock' = clock + 1

-----------------------------------------------------------------------------
(* One precheck by itself, while the artifacts are written under it.        *)

precheckVars == <<disk, writes, clock, settings, s>>

PrecheckInit ==
    /\ disk \in FirstDisk /\ writes = 0 /\ clock = 0
    /\ settings \in Settings /\ s = Idle

PrecheckStart == s.pc = "idle" /\ s' = Begin(clock) /\ UNCHANGED <<disk, writes, clock, settings>>

PrecheckNext ==
    \/ PrecheckStart
    \/ PrecheckStep /\ UNCHANGED <<disk, writes, clock, settings>>
    \/ s.pc \notin {"done", "raised"} /\ Write /\ UNCHANGED <<clock, settings, s>>
    \/ s.pc = "idle" /\ Tick /\ UNCHANGED <<disk, writes, settings, s>>

PrecheckSpec == PrecheckInit /\ [][PrecheckNext]_precheckVars

-----------------------------------------------------------------------------
PrecheckPassed == s.pc = "done" /\ s.receipt # None /\ s.receipt.machine = "pass"

Quiescent(fps) == \A i \in DOMAIN fps : fps[i].sidecars = <<>>

(* A PASS over quiescent fingerprints describes one state of the disk,      *)
(* although the artifacts were read one after another under concurrent      *)
(* writers: at the instant between the two rounds of fingerprints all of    *)
(* them were as recorded, and an inspection of that very state finds        *)
(* nothing ("PASS only when the inspection is OK and no fingerprint         *)
(* changed", paper_fast_loop.py:591).                                       *)
PassDescribesOneInstant ==
    PrecheckPassed /\ Quiescent(s.receipt.after) =>
        LET still == [a \in Names |-> [s.mid[a] EXCEPT !.side = FALSE]]
        IN  /\ InspectDisk(still, s.now) = <<>>
            /\ \A i \in DOMAIN ArtifactNames :
                  s.receipt.after[i].sha256 = still[ArtifactNames[i]].version

(* A database whose log holds content the digest cannot see is never part   *)
(* of such a PASS: the digest covers the main file only.                    *)
PassSeesCommittedContent ==
    PrecheckPassed /\ Quiescent(s.receipt.after) =>
        \A a \in Names : s.mid[a].version = s.mid[a].latest

(* Whatever the writers do meanwhile, the observation can be recorded: the  *)
(* receipt builder refuses none that the precheck makes.                    *)
ObservationRecordable == s.pc = "done" => s.receipt # None

=============================================================================
