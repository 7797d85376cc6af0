---------------------------- MODULE PaperDayReview ----------------------------
(***************************************************************************)
(* A paper day as its operator and its reviewer see it: the readiness check *)
(* (ops/check_next_paper_day_readiness.py), the command                     *)
(* (ops/run_attended_paper_day.py) with the envelope it leaves, and the two *)
(* readers of what is on disk: the validator                                *)
(* (ops/validate_paper_day_summary.py) and the report                       *)
(* (ops/render_paper_day_report.py).  The run itself is reduced to its      *)
(* outcome; AttendedPaperDay has its system calls.                          *)
(*                                                                          *)
(* A JSON object is a function from the fields present to their values.     *)
(***************************************************************************)
EXTENDS Naturals, FiniteSets, TLC

CONSTANTS Run, Dir, Reviewer, None,
          MaxCrashes,       \* runs killed
          MaxFaults,        \* writes and releases that fail
          Tree              \* states of the checkout: [git, clean, config, env, args]

VARIABLES
    summary, evidence, envelope, db,    \* Dir -> the artifact, or None
    lock,                               \* Dir -> the run the lock file names, or None
    tree,                               \* the checkout is fit: Git, config and environment
    p,                                  \* Run -> the process
    v,                                  \* Reviewer -> the reader
    crashes, faults

files == <<summary, evidence, envelope, db, lock>>
vars == <<files, tree, p, v, crashes, faults>>

(* Mutant: the fields only an envelope has are not asked for.               *)
EnvelopeOnlyForgotten == {}

EnvelopeOnly == {"pub", "cleanup", "fd", "absent", "reason"}

NotStarted == [pc |-> "idle", dir |-> None, ready |-> FALSE, alone |-> FALSE, summary |-> None,
               pub |-> None, released |-> FALSE, exit |-> None]

NotReading == [pc |-> "idle", kind |-> None, dir |-> None, env |-> None, summary |-> None,
               envelope |-> None, evidence |-> None, verdict |-> None]

Init ==
    /\ summary = [d \in Dir |-> None] /\ evidence = [d \in Dir |-> None]
    /\ envelope = [d \in Dir |-> None] /\ db = [d \in Dir |-> None] /\ lock = [d \in Dir |-> None]
    /\ tree \in Tree
    /\ p = [r \in Run |-> NotStarted] /\ v = [x \in Reviewer |-> NotReading]
    /\ crashes = 0 /\ faults = 0

-----------------------------------------------------------------------------
(* check_next_paper_day_readiness.py                                        *)

(* Mutant: databases of an earlier run are not looked for.                  *)
StaleButDb(d) == {f \in {"summary", "evidence", "envelope"} :
    \/ f = "summary" /\ summary[d] # None
    \/ f = "evidence" /\ evidence[d] # None
    \/ f = "envelope" /\ envelope[d] # None}

Stale(d) == {f \in {"summary", "evidence", "envelope", "db"} :
    \/ f = "summary" /\ summary[d] # None
    \/ f = "evidence" /\ evidence[d] # None
    \/ f = "envelope" /\ envelope[d] # None
    \/ f = "db" /\ (db[d] # None \/ lock[d] # None)}

(* A Git that cannot be asked fails all three of its checks, but only warns *)
(* of a configuration it may track.                                         *)
GitFailures ==
    IF tree.git = "down" THEN {"repo_head_readable", "git_status_clean", "runtime_untracked"}
    ELSE IF tree.clean THEN {} ELSE {"git_status_clean"}

ConfigFailures ==
    CASE tree.config = "missing" -> {"config_exists"}
      [] tree.config = "tracked" /\ tree.git = "ok" -> {"config_untracked"}
      [] OTHER -> {}

(* _env_metadata: present, without surrounding blanks and not a placeholder.*)
EnvFailures == IF tree.env \in {"missing", "placeholder", "padded"} THEN {"env"} ELSE {}

(* evaluate_readiness: date, label, duration and directory must be well     *)
(* formed, and the directory free of an earlier run.                        *)
HardFailures(d) ==
    GitFailures \cup ConfigFailures \cup EnvFailures
    \cup (IF tree.args = "ok" THEN {} ELSE {"run_dir_matches"})
    \cup (IF Stale(d) = {} THEN {} ELSE {"run_dir_no_stale_artifacts"})

(* The operator chooses a run directory and asks.                           *)
Check(r, d) ==
    /\ p[r].pc = "idle"
    /\ p' = [[q \in Run |-> IF p[q].dir = d THEN [p[q] EXCEPT !.alone = FALSE] ELSE p[q]] EXCEPT
               ![r] = [NotStarted EXCEPT
                 !.pc = "checked", !.dir = d, !.ready = (HardFailures(d) = {}),
                 !.alone = \A q \in Run : p[q].dir = d => p[q].pc \in {"ended", "dead"}]]
    /\ UNCHANGED <<files, tree, v, crashes, faults>>

-----------------------------------------------------------------------------
(* run_attended_paper_day.py.  The readiness check is advice: the command   *)
(* may be started whatever it said.                                         *)

Move(r, pc) == p' = [p EXCEPT ![r].pc = pc]

(* What the path validation of the run refuses.                             *)
Occupied(d) == evidence[d] # None \/ summary[d] # None \/ db[d] # None

BuildSummary(r, outcome, nonterminal) ==
    [schema |-> "v1", safety |-> "ok", source |-> "kis_live", run |-> r, outcome |-> outcome,
     nonterminal |-> nonterminal]

(* The payload of an exception: no run, no clauses.                         *)
FailPayload == [outcome |-> "FAIL"]

(* main: the inputs are validated; a refusal leaves a FAIL envelope.        *)
Validate(r) ==
    /\ p[r].pc = "checked"
    /\ IF Occupied(p[r].dir)
       THEN p' = [p EXCEPT ![r].pc = "emit", ![r].summary = FailPayload]
       ELSE Move(r, "begin")
    /\ UNCHANGED <<files, tree, v, crashes, faults>>

Refuse(r) == p' = [p EXCEPT ![r].pc = "emit", ![r].summary = BuildSummary(r, "FAIL", None)]

(* run_attended_paper_day: validated again, and then the lock.              *)
Begin(r) ==
    /\ p[r].pc = "begin"
    /\ IF Occupied(p[r].dir) THEN Refuse(r) ELSE Move(r, "lock")
    /\ UNCHANGED <<files, tree, v, crashes, faults>>

Acquire(r) ==
    LET d == p[r].dir
    IN  /\ p[r].pc = "lock"
        /\ IF lock[d] # None THEN Refuse(r) /\ UNCHANGED lock
           ELSE lock' = [lock EXCEPT ![d] = r] /\ Move(r, "open")
        /\ UNCHANGED <<summary, evidence, envelope, db, tree, v, crashes, faults>>

(* EvidenceRecorder.open: the file must be new; a run that finds one goes   *)
(* on to its finalisation.                                                  *)
OpenEvidence(r) ==
    LET d == p[r].dir
    IN  /\ p[r].pc = "open"
        /\ IF evidence[d] = None
           THEN /\ evidence' = [evidence EXCEPT ![d] = [run |-> r, torn |-> FALSE]]
                /\ Move(r, "build")
           ELSE /\ p' = [p EXCEPT ![r].pc = "publish", ![r].summary = BuildSummary(r, "FAIL", None)]
                /\ UNCHANGED evidence
        /\ UNCHANGED <<summary, envelope, db, lock, tree, v, crashes, faults>>

(* build_diagnostic_stack creates the databases.                            *)
BuildStack(r) ==
    /\ p[r].pc = "build"
    /\ db' = [db EXCEPT ![p[r].dir] = r]
    /\ Move(r, "loop")
    /\ UNCHANGED <<summary, evidence, envelope, lock, tree, v, crashes, faults>>

(* A row is begun or completed: a reader, or a crash, may find half of it.  *)
WriteRow(r) ==
    /\ p[r].pc = "loop"
    /\ evidence' = [evidence EXCEPT ![p[r].dir].torn = ~@]
    /\ UNCHANGED <<summary, envelope, db, lock, tree, p, v, crashes, faults>>

(* The loop ends; the outcome and the journal entries left open.  A start-up *)
(* probe that passes does not look at the journal (_completion_verdict).    *)
Found == {<<"PASS", 0>>, <<"PASS", 1>>, <<"PASS", None>>, <<"NO_GO", 1>>, <<"FAIL", None>>}

Loop(r) ==
    /\ p[r].pc = "loop" /\ ~evidence[p[r].dir].torn
    /\ \E f \in Found :
         p' = [p EXCEPT ![r].pc = "publish", ![r].summary = BuildSummary(r, f[1], f[2])]
    /\ UNCHANGED <<files, tree, v, crashes, faults>>

(* _finalize_run: the summary is published, or the outcome is a failure.    *)
Publish(r) ==
    LET d == p[r].dir  Failed == [p[r].summary EXCEPT !.outcome = "FAIL"]
    IN  /\ p[r].pc = "publish"
        /\ \/ /\ summary[d] = None
              /\ summary' = [summary EXCEPT ![d] = p[r].summary]
              /\ p' = [p EXCEPT ![r].pc = "release", ![r].pub = "WRITTEN"]
              /\ UNCHANGED faults
           \/ /\ IF summary[d] = None THEN faults < MaxFaults /\ faults' = faults + 1
                 ELSE UNCHANGED faults
              /\ p' = [p EXCEPT ![r].pc = "release", ![r].pub = "NOT_WRITTEN", ![r].summary = Failed]
              /\ UNCHANGED summary
        /\ UNCHANGED <<evidence, envelope, db, lock, tree, v, crashes>>

(* The lock is released, or it stays and the PASS becomes a FAIL.           *)
Release(r) ==
    LET d == p[r].dir
        result(ok) == [p[r].summary EXCEPT !.outcome = IF ok THEN @ ELSE "FAIL"] @@
                      [pub |-> p[r].pub, fd |-> TRUE, absent |-> ok,
                       reason |-> IF ok THEN None ELSE "runtime_lock_release_failed",
                       cleanup |-> IF ok THEN "CLEAN" ELSE "INCOMPLETE"]
    IN  /\ p[r].pc = "release"
        /\ \/ /\ lock' = [lock EXCEPT ![d] = None]
              /\ p' = [p EXCEPT ![r].pc = "emit", ![r].summary = result(TRUE), ![r].released = TRUE]
              /\ UNCHANGED faults
           \/ /\ faults < MaxFaults /\ faults' = faults + 1
              /\ p' = [p EXCEPT ![r].pc = "emit", ![r].summary = result(FALSE)]
              /\ UNCHANGED lock
        /\ UNCHANGED <<summary, evidence, envelope, db, tree, v, crashes>>

Has(f, key) == key \in DOMAIN f

(* is_clean_pass                                                            *)
IsCleanPass(f) ==
    /\ f.outcome = "PASS" /\ EnvelopeOnly \subseteq DOMAIN f
    /\ f.pub = "WRITTEN" /\ f.fd /\ f.absent /\ f.reason = None /\ f.cleanup = "CLEAN"

CliExitCode(f) == IF IsCleanPass(f) THEN 0 ELSE 1

(* The result is printed and kept as the envelope, over whatever is there;  *)
(* a write that fails is not reported.                                      *)
Emit(r) ==
    LET f == p[r].summary  d == p[r].dir
    IN  /\ p[r].pc = "emit"
        /\ \/ /\ envelope' = [envelope EXCEPT ![d] = f @@
                                [capture |-> IF Has(f, "run") THEN f.run ELSE None]]
              /\ UNCHANGED faults
           \/ faults < MaxFaults /\ faults' = faults + 1 /\ UNCHANGED envelope
        /\ p' = [p EXCEPT ![r].pc = "ended", ![r].exit = CliExitCode(f)]
        /\ UNCHANGED <<summary, evidence, db, lock, tree, v, crashes>>

Crash(r) ==
    /\ p[r].pc \notin {"idle", "ended", "dead"} /\ crashes < MaxCrashes
    /\ crashes' = crashes + 1
    /\ Move(r, "dead")
    /\ UNCHANGED <<files, tree, v, faults>>

-----------------------------------------------------------------------------
(* The validator and the report read one file after another.                *)

(* _envelope_identity_mismatch: values that are on both sides must agree.   *)
IdentityMismatch(s, e) ==
    /\ s # None /\ e # None /\ Has(s, "run")
    /\ \/ Has(e, "run") /\ e.run # s.run
       \/ Has(e, "capture") /\ e.capture # None /\ e.capture # s.run

(* _scan_evidence, the part the verdict uses.                               *)
ScanEvidence(ev) ==
    [error |-> ev = None, malformed |-> ev # None /\ ev.torn]

Clause(merged, field, expected) == Has(merged, field) => merged[field] = expected

(* classify: what keeps a PASS from being one.                              *)
PassBlocked(s, e, scan) ==
    LET merged == (IF e = None THEN <<>> ELSE e) @@ (IF s = None THEN <<>> ELSE s)
    IN  \/ IdentityMismatch(s, e) \/ s = None \/ scan.error \/ scan.malformed
        \/ ~(\A f \in {"schema", "safety", "source", "nonterminal"} : Has(merged, f))
        \/ ~(merged.nonterminal = 0 \/ merged.nonterminal = None)
        \/ ~(EnvelopeOnly \subseteq DOMAIN merged)
        \/ ~Clause(merged, "pub", "WRITTEN") \/ ~Clause(merged, "cleanup", "CLEAN")
        \/ ~Clause(merged, "fd", TRUE) \/ ~Clause(merged, "absent", TRUE)
        \/ ~Clause(merged, "reason", None)

(* classify: the verdict.                                                   *)
Classify(s, e, scan) ==
    LET merged == (IF e = None THEN <<>> ELSE e) @@ (IF s = None THEN <<>> ELSE s)
        outcome == IF Has(merged, "outcome") THEN merged.outcome ELSE None
    IN  CASE outcome = "FAIL" -> "FAIL"
          [] outcome = "NO_GO" -> "NO_GO"
          [] outcome = "PASS" -> IF PassBlocked(s, e, scan) THEN "NEEDS_REVIEW" ELSE "PASS"
          [] OTHER -> "NEEDS_REVIEW"

(* run_validate, main: an envelope that was named and cannot be read ends   *)
(* the validator with NEEDS_REVIEW.                                         *)
RunValidate(x) ==
    IF v[x].env # None /\ v[x].envelope = None THEN "NEEDS_REVIEW"
    ELSE Classify(v[x].summary, v[x].envelope, ScanEvidence(v[x].evidence))

(* build_report: the same envelope is treated as absent.                    *)
BuildReport(x) == Classify(v[x].summary, v[x].envelope, ScanEvidence(v[x].evidence))

(* The reviewer names a run directory, and an envelope or none; it may be   *)
(* that of another directory.                                               *)
Review(x) ==
    /\ v[x].pc = "idle"
    /\ \E d \in Dir, e \in Dir \cup {None}, kind \in {"validator", "report"} :
         v' = [v EXCEPT ![x] = [NotReading EXCEPT !.pc = "envelope", !.kind = kind, !.dir = d,
                                  !.env = e, !.summary = summary[d]]]
    /\ UNCHANGED <<files, tree, p, crashes, faults>>

ReadEnvelope(x) ==
    /\ v[x].pc = "envelope"
    /\ v' = [v EXCEPT ![x].pc = "evidence",
                      ![x].envelope = IF v[x].env = None THEN None ELSE envelope[v[x].env]]
    /\ UNCHANGED <<files, tree, p, crashes, faults>>

ReadEvidence(x) ==
    /\ v[x].pc = "evidence"
    /\ v' = [v EXCEPT ![x].pc = "verdict", ![x].evidence = evidence[v[x].dir]]
    /\ UNCHANGED <<files, tree, p, crashes, faults>>

Verdict(x) ==
    /\ v[x].pc = "verdict"
    /\ v' = [v EXCEPT ![x].pc = "done",
                      ![x].verdict = IF v[x].kind = "validator" THEN RunValidate(x) ELSE BuildReport(x)]
    /\ UNCHANGED <<files, tree, p, crashes, faults>>

-----------------------------------------------------------------------------
Process(r) ==
    \/ \E d \in Dir : Check(r, d)
    \/ Validate(r) \/ Begin(r) \/ Acquire(r) \/ OpenEvidence(r) \/ BuildStack(r) \/ WriteRow(r) \/ Loop(r) \/ Publish(r) \/ Release(r) \/ Emit(r)
    \/ Crash(r)

Read(x) == Review(x) \/ ReadEnvelope(x) \/ ReadEvidence(x) \/ Verdict(x)

Next == (\E r \in Run : Process(r)) \/ (\E x \in Reviewer : Read(x))

Spec == Init /\ [][Next]_vars

-----------------------------------------------------------------------------
(* "It can never be PASS" (docs/PAPER_DAY_OPERATOR_RUNBOOK.md): a reader    *)
(* that says PASS has the summary of a run that exited 0 and whose lock is  *)
(* gone, whatever envelope it was given and whatever ran meanwhile          *)
(* (classify, _envelope_identity_mismatch against is_clean_pass).           *)
PassIsCleanRun ==
    \A x \in Reviewer : v[x].verdict = "PASS" =>
        LET r == v[x].summary.run IN p[r].exit = 0 /\ p[r].released /\ lock[p[r].dir] # r

(* The converse: a run that exited 0 and left no open journal entry passes  *)
(* the review of its own files, once its envelope is there (is_clean_pass   *)
(* against classify).                                                       *)
CleanRunPasses ==
    \A x \in Reviewer, r \in Run :
        /\ v[x].pc = "done" /\ v[x].summary # None /\ v[x].summary.run = r
        /\ p[r].exit = 0 /\ v[x].summary.nonterminal # 1
        /\ v[x].envelope # None /\ Has(v[x].envelope, "run") /\ v[x].envelope.run = r
        => v[x].verdict = "PASS"

(* The validator and the report pass the same runs, when both were given an *)
(* envelope and read the same files (run_validate against build_report).    *)
SamePasses ==
    \A x, y \in Reviewer :
        /\ v[x].pc = "done" /\ v[y].pc = "done"
        /\ \A f \in {"dir", "env", "summary", "envelope", "evidence"} : v[x][f] = v[y][f]
        => (v[x].verdict = "PASS" <=> v[y].verdict = "PASS")

(* A run whose directory was READY, and which nobody else has chosen since, *)
(* is admitted, and everything it leaves in the directory is its own        *)
(* (evaluate_readiness against _validate_runtime_paths and lock.acquire).   *)
ReadyRunStartsClean ==
    \A r \in Run : p[r].ready /\ p[r].alone =>
        LET d == p[r].dir
        IN  /\ p[r].summary # FailPayload
            /\ evidence[d] # None => evidence[d].run = r
            /\ summary[d] # None => summary[d].run = r
            /\ db[d] # None => db[d] = r
            /\ p[r].pc = "emit" => p[r].pub # None

=============================================================================
