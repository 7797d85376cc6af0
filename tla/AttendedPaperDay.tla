--------------------------- MODULE AttendedPaperDay ---------------------------
(***************************************************************************)
(* One attended paper day (src/composition/attended_paper_day.py): several  *)
(* runs of the command share one pilot DB directory, and with it one lock   *)
(* file, and may name the same outputs.  A run is admitted, takes the lock, *)
(* opens its evidence and its databases, runs, and is finalised: databases  *)
(* closed, last evidence record, summary published, lock released.          *)
(*                                                                          *)
(* Each system call may fail, with an OSError ("err"), another exception    *)
(* ("exc"), an interrupt or another fatal, or an interrupt delivered when   *)
(* the call has taken effect ("late").  The process may be killed at any    *)
(* step, and an operator clears the lock of a run that is over.             *)
(***************************************************************************)
EXTENDS Naturals, FiniteSets, TLAPS

CONSTANTS
    Run,                \* the processes
    Path,               \* output locations: an evidence and a summary each
    Ino,                \* inode numbers of the lock's directory
    Unmet,              \* the sets of criteria a completed loop may leave unmet
    MaxFaults,          \* bound on the calls that fail in a behaviour
    MaxCrashes,         \* bound on the processes killed
    OperatorCareful,    \* the operator clears only locks of runs that are over
    None

Fatal == {"interrupt", "fatal", "late"}

(* What a completed market loop may lack, in the order of the verdict.      *)
Criteria == <<"nonterminal_journal", "reconcile_required", "journal_uncertain",
              "resource_close_failure", "subscription_rejected", "transport_not_ready",
              "trade_not_observed", "quote_not_observed", "health_not_ready",
              "trigger_not_evaluated">>

VARIABLES
    lockFile,   \* .paper_day.lock: the inode, or None
    evidence,   \* Path -> [run, final, closed] or None
    summary,    \* Path -> [run, outcome] or None
    db,         \* the pilot DB directory
    s,          \* Run -> the state of the process
    faults, crashes

vars == <<lockFile, evidence, summary, db, s, faults, crashes>>

NewRun(path, reuse) ==
    [pc |-> "validate", path |-> path, reuse |-> reuse, fd |-> None, identity |-> None,
     outcome |-> "PASS", reason |-> "completed", bodyFatal |-> FALSE, cleanupFatal |-> FALSE,
     ordinary |-> FALSE, evidenceOwned |-> FALSE, stack |-> FALSE, foreignDb |-> FALSE,
     unmet |-> {}, ranLoop |-> FALSE,
     published |-> FALSE, uncertain |-> FALSE, primary |-> FALSE, synced |-> FALSE,
     publication |-> None, fdClosed |-> FALSE, absent |-> FALSE, release |-> None,
     returned |-> None]

Init ==
    /\ lockFile = None
    /\ evidence = [p \in Path |-> None]
    /\ summary = [p \in Path |-> None]
    /\ db = [files |-> FALSE, sidecar |-> FALSE, nonterminal |-> FALSE]
    /\ \E path \in [Run -> Path], reuse \in [Run -> BOOLEAN] :
          s = [r \in Run |-> NewRun(path[r], reuse[r])]
    /\ faults = 0
    /\ crashes = 0

(* The outcome of a call: "ok", or one of the faults while the bound lasts. *)
Outcome(kinds) == {"ok"} \cup IF faults < MaxFaults THEN kinds ELSE {}

Counted(f) == faults' = faults + IF f = "ok" THEN 0 ELSE 1

Over(r) == s[r].pc \in {"ended", "killed"}

OutcomeForStopReason(reason) ==
    IF reason \in {"health_not_ready", "transport_not_ready", "invalid_session_window",
                   "subscription_rejected", "trade_not_observed", "quote_not_observed",
                   "trigger_not_evaluated", "journal_uncertain", "reconcile_required",
                   "nonterminal_journal", "resource_close_failure", "runtime_lock_exists"}
    THEN "NO_GO" ELSE "FAIL"

(* A result returned from memory: nothing was written.                      *)
Refused(t, reason) ==
    [t EXCEPT !.pc = "ended", !.outcome = OutcomeForStopReason(reason), !.reason = reason,
              !.returned = "memory"]

(* An exception leaves run_attended_paper_day.                              *)
Raised(t) == [t EXCEPT !.pc = "ended", !.returned = "raised"]

(* The body stopped with a sanitized reason, or by a fatal.                 *)
Stopped(t, reason, outcome) == [t EXCEPT !.pc = "handler", !.reason = reason, !.outcome = outcome]

BodyFatal(t) == [t EXCEPT !.pc = "close", !.bodyFatal = TRUE]

-----------------------------------------------------------------------------
(* Admission.                                                               *)

InputsValid(t) ==
    /\ ~db.sidecar
    /\ db.files => t.reuse
    /\ evidence[t.path] = None
    /\ summary[t.path] = None

(* Phase 1: the configuration and the paths, before anything is held.       *)
Validate(r) ==
    /\ s[r].pc = "validate"
    /\ s' = [s EXCEPT ![r] = IF InputsValid(@) THEN [@ EXCEPT !.pc = "lock"]
                             ELSE Refused(@, "invalid_input")]
    /\ UNCHANGED <<lockFile, evidence, summary, db, faults, crashes>>

FreeIno == Ino \ ({s[r].fd : r \in Run} \cup IF lockFile = None THEN {} ELSE {lockFile.ino})

(* Mutant: the lock is opened without O_EXCL.                               *)
MayCreateShared == TRUE

(* os.open with O_CREAT | O_EXCL *)
MayCreate == lockFile = None

(* Phase 2, PilotRuntimeLock.acquire: the parent directory, and the         *)
(* create-new open (an interrupt may arrive once the file is there).        *)
LockOpen(r) ==
    /\ s[r].pc = "lock"
    /\ \E f \in Outcome({"err", "exc", "interrupt", "late"}) :
       \E i \in IF lockFile = None THEN FreeIno ELSE {lockFile.ino} :
         /\ Counted(f)
         /\ lockFile' = IF f \in {"ok", "late"} /\ lockFile = None THEN [ino |-> i, by |-> r]
                        ELSE lockFile
         /\ s' = [s EXCEPT ![r] =
              CASE f = "err" -> Refused(@, "runtime_lock_failed")
                [] f = "exc" -> Refused(@, "runtime_lock_acquire_uncertain")
                [] f \in Fatal -> Raised(@)
                [] f = "ok" /\ ~MayCreate -> Refused(@, "runtime_lock_exists")
                [] OTHER -> [@ EXCEPT !.pc = "lockwrite", !.fd = i]]
    /\ UNCHANGED <<evidence, summary, db, crashes>>

(* The inode is read and the lock written: then, and only then, is the lock *)
(* this run's to release.                                                   *)
LockWrite(r) ==
    /\ s[r].pc = "lockwrite"
    /\ \E fstat \in Outcome({"err", "interrupt"}) :
       \E write \in IF fstat = "ok" THEN Outcome({"err", "interrupt"}) ELSE {"ok"} :
         LET f == IF fstat = "ok" THEN write ELSE fstat
             identity == IF fstat = "ok" THEN s[r].fd ELSE None IN
         /\ Counted(f)
         /\ s' = [s EXCEPT ![r] = [@ EXCEPT !.pc = IF f = "ok" THEN "evidence" ELSE "abort",
                                            !.identity = identity,
                                            !.bodyFatal = f \in Fatal]]
    /\ UNCHANGED <<lockFile, evidence, summary, db, crashes>>

CleanRollback(closed, gone) == closed /\ gone

(* _abort_partial_acquire: close, then unlink an inode known to be ours.    *)
LockAbort(r) ==
    /\ s[r].pc = "abort"
    /\ \E f \in Outcome({"err", "interrupt"}), call \in {"close", "unlink"} :
         LET ours == s[r].identity # None /\ lockFile # None /\ lockFile.ino = s[r].identity
             unlinked == ours /\ (f = "ok" \/ call = "close")
             t == [s[r] EXCEPT !.fd = None, !.identity = None] IN
         /\ Counted(f)
         /\ lockFile' = IF unlinked THEN None ELSE lockFile
         /\ s' = [s EXCEPT ![r] =
              IF s[r].bodyFatal \/ f \in Fatal THEN Raised(t)
              ELSE Refused(t, IF CleanRollback(f = "ok" \/ call = "unlink",
                                               unlinked \/ lockFile = None)
                              THEN "runtime_lock_acquire_failed"
                              ELSE "runtime_lock_acquire_uncertain")]
    /\ UNCHANGED <<evidence, summary, db, crashes>>

-----------------------------------------------------------------------------
(* The body.                                                                *)

(* The handlers record failed_closed under suppress(Exception): an ordinary *)
(* failure of the record is swallowed, an interrupt is not.                 *)
HandlerEscapes(f) == f \in Fatal

Handler(r) ==
    /\ s[r].pc = "handler"
    /\ \E f \in Outcome({"err", "interrupt"}) :
         /\ Counted(f)
         /\ s' = [s EXCEPT ![r] = IF HandlerEscapes(f) THEN Raised(@) ELSE [@ EXCEPT !.pc = "close"]]
    /\ UNCHANGED <<lockFile, evidence, summary, db, crashes>>

(* EvidenceRecorder.open creates the file; the first record follows.        *)
OpenEvidence(r) ==
    /\ s[r].pc = "evidence"
    /\ \E f \in Outcome({"err", "interrupt", "fatal"}) :
         LET created == f = "ok" /\ evidence[s[r].path] = None IN
         /\ Counted(f)
         /\ evidence' = IF created
                        THEN [evidence EXCEPT ![s[r].path] = [run |-> r, final |-> None, closed |-> FALSE]]
                        ELSE evidence
         /\ s' = [s EXCEPT ![r] =
              CASE created -> [@ EXCEPT !.pc = "stack", !.evidenceOwned = TRUE]
                [] f = "fatal" -> BodyFatal(@)
                [] f = "interrupt" -> Stopped(@, "graceful_stop", "NO_GO")
                [] OTHER -> Stopped(@, "evidence_failed", "FAIL")]
    /\ UNCHANGED <<lockFile, summary, db, crashes>>

(* build_diagnostic_stack opens three databases, closing what it opened     *)
(* when one fails; then the journal must hold no open fire.                 *)
OpenStack(r) ==
    /\ s[r].pc = "stack"
    /\ \E f \in Outcome({"err", "interrupt", "fatal"}) :
         LET t == [s[r] EXCEPT !.stack = TRUE, !.foreignDb = db.files /\ ~s[r].reuse] IN
         /\ Counted(f)
         /\ db' = [db EXCEPT !.files = TRUE, !.sidecar = @ \/ f = "ok"]
         /\ s' = [s EXCEPT ![r] =
              CASE f = "fatal" -> BodyFatal(@)
                [] f = "interrupt" -> Stopped(@, "graceful_stop", "NO_GO")
                [] f = "err" -> Stopped(@, "db_failed", "FAIL")
                [] f = "ok" /\ db.nonterminal -> Stopped(t, "nonterminal_journal", "NO_GO")
                [] OTHER -> [t EXCEPT !.pc = "body"]]
    /\ UNCHANGED <<lockFile, evidence, summary, crashes>>

(* A startup-only run: offline it is over at once, live the probe must see  *)
(* both subscriptions accepted.                                             *)
StartupOnly(r) ==
    /\ s[r].pc = "body"
    /\ s' = [s EXCEPT ![r] = [@ EXCEPT !.pc = "close", !.reason = "startup_only"]]
    /\ UNCHANGED <<lockFile, evidence, summary, db, faults, crashes>>

(* The reasons the body raises itself: the live session is not open, the    *)
(* source failed.                                                           *)
BodyReason == {"invalid_session_window", "source_failed"}

BodyRefuses(r) ==
    /\ s[r].pc = "body"
    /\ \E reason \in BodyReason :
         s' = [s EXCEPT ![r] = Stopped(@, reason, OutcomeForStopReason(reason))]
    /\ UNCHANGED <<lockFile, evidence, summary, db, faults, crashes>>

(* monitor.run to its end, every applied update through the fast loop.      *)
RunLoop(r) ==
    /\ s[r].pc = "body"
    /\ \E unmet \in Unmet :
         /\ s' = [s EXCEPT ![r] = [@ EXCEPT !.pc = "close", !.ranLoop = TRUE, !.unmet = unmet]]
         /\ db' = [db EXCEPT !.nonterminal = @ \/ "nonterminal_journal" \in unmet]
    /\ UNCHANGED <<lockFile, evidence, summary, faults, crashes>>

(* An order in doubt stops the loop at once and stays in the journal; a     *)
(* source that is exhausted ends it as a failure.                           *)
StopLoop(r) ==
    /\ s[r].pc = "body"
    /\ \E stop \in {<<"journal_uncertain", "NO_GO">>, <<"source_exhausted_after_reconnects", "FAIL">>} :
         /\ s' = [s EXCEPT ![r] = [@ EXCEPT !.pc = "close", !.ranLoop = TRUE,
                                            !.reason = stop[1], !.outcome = stop[2]]]
         /\ db' = [db EXCEPT !.nonterminal = @ \/ stop[1] = "journal_uncertain"]
    /\ UNCHANGED <<lockFile, evidence, summary, faults, crashes>>

BodyFails(r) ==
    /\ s[r].pc = "body"
    /\ \E f \in Outcome({"exc", "interrupt", "fatal"}) \ {"ok"} :
         /\ Counted(f)
         /\ s' = [s EXCEPT ![r] = CASE f = "exc" -> Stopped(@, "internal_runtime_error", "FAIL")
                                    [] f = "interrupt" -> Stopped(@, "graceful_stop", "NO_GO")
                                    [] OTHER -> BodyFatal(@)]
    /\ UNCHANGED <<lockFile, evidence, summary, db, crashes>>

-----------------------------------------------------------------------------
(* _finalize_run.                                                           *)

(* _completion_verdict: the first criterion that is not met.                *)
CompletionVerdict(unmet) ==
    IF unmet = {} THEN <<"PASS", "completed">>
    ELSE LET i == CHOOSE i \in DOMAIN Criteria :
                    Criteria[i] \in unmet /\ \A j \in 1 .. (i - 1) : Criteria[j] \notin unmet
         IN <<"NO_GO", Criteria[i]>>

Judged(t) == t.ranLoop /\ t.outcome = "PASS" /\ ~t.cleanupFatal

(* Every database is closed, whichever fails; the verdict on a loop that    *)
(* completed comes after it.                                                *)
CloseStack(r) ==
    /\ s[r].pc = "close"
    /\ \E f \in IF s[r].stack THEN Outcome({"err", "interrupt"}) ELSE {"ok"} :
         LET closed == CASE f = "err" -> [s[r] EXCEPT !.reason = "resource_close_failure",
                                                      !.outcome = "NO_GO", !.ordinary = TRUE]
                         [] f = "interrupt" -> [s[r] EXCEPT !.cleanupFatal = TRUE]
                         [] OTHER -> s[r]
             verdict == CompletionVerdict(closed.unmet) IN
         /\ Counted(f)
         /\ db' = [db EXCEPT !.sidecar = @ /\ (f # "ok" \/ ~s[r].stack)]
         /\ s' = [s EXCEPT ![r] =
              LET t == [closed EXCEPT !.pc = "lastrecord", !.stack = f # "ok" /\ s[r].stack] IN
              IF Judged(t) THEN [t EXCEPT !.outcome = verdict[1], !.reason = verdict[2]] ELSE t]
    /\ UNCHANGED <<lockFile, evidence, summary, crashes>>

EvidenceFailed(t) == [t EXCEPT !.outcome = "FAIL", !.reason = "evidence_failed", !.ordinary = TRUE]

(* The last record, with the reason as it stands, and the recorder closed.  *)
LastRecord(r) ==
    /\ s[r].pc = "lastrecord"
    /\ \E f \in IF s[r].evidenceOwned THEN Outcome({"err", "interrupt"}) ELSE {"ok"}, call \in {"record", "close"} :
         /\ Counted(f)
         /\ evidence' = IF s[r].evidenceOwned
                        THEN [evidence EXCEPT ![s[r].path] =
                               [@ EXCEPT !.final = IF f = "ok" \/ call = "close" THEN s[r].reason
                                                   ELSE evidence[s[r].path].final,
                                         !.closed = f = "ok" \/ call = "record"]]
                        ELSE evidence
         /\ s' = [s EXCEPT ![r] =
              LET t == [@ EXCEPT !.pc = "publish"] IN
              CASE f = "err" -> EvidenceFailed(t)
                [] f = "interrupt" -> [t EXCEPT !.cleanupFatal = TRUE]
                [] OTHER -> t]
    /\ UNCHANGED <<lockFile, summary, db, crashes>>

-----------------------------------------------------------------------------
(* Publication of the summary: a temporary file, made durable, linked to a  *)
(* destination that must not exist, confirmed, and removed.                 *)

PublishBlocked(t) == t.bodyFatal \/ t.cleanupFatal

(* _publish_summary_create_new up to the link: mkdir, create, write, fsync, *)
(* fstat of the temporary file.                                             *)
WriteTemp(r) ==
    /\ s[r].pc = "publish"
    /\ \E f \in IF PublishBlocked(s[r]) THEN {"ok"} ELSE Outcome({"err", "exc", "interrupt"}) :
         /\ Counted(f)
         /\ s' = [s EXCEPT ![r] =
              IF PublishBlocked(@) THEN [@ EXCEPT !.pc = "release", !.publication = "NOT_WRITTEN"]
              ELSE IF f = "ok" THEN [@ EXCEPT !.pc = "link"]
              ELSE [@ EXCEPT !.pc = "cleantemp", !.primary = f \in {"err", "exc"},
                             !.uncertain = f = "exc", !.cleanupFatal = f \in Fatal]]
    /\ UNCHANGED <<lockFile, evidence, summary, db, crashes>>

(* os.link fails on a destination that exists.                              *)
Linkable(p) == summary[p] = None

(* os.link.  An OSError may hide a link that landed: the destination is     *)
(* looked at, and may be unreadable.  An interrupt may arrive before the    *)
(* link or when it has landed.                                              *)
Link(r) ==
    /\ s[r].pc = "link"
    /\ \E f \in Outcome({"err", "interrupt", "late"}), landed \in BOOLEAN, readable \in BOOLEAN :
         LET lands == Linkable(s[r].path) /\ (f \in {"ok", "late"} \/ (f = "err" /\ landed)) IN
         /\ f # "err" => landed /\ readable
         /\ Counted(f)
         /\ summary' = IF lands THEN [summary EXCEPT ![s[r].path] = [run |-> r, outcome |-> s[r].outcome]]
                       ELSE summary
         /\ s' = [s EXCEPT ![r] =
              CASE lands /\ (f = "ok" \/ (f = "err" /\ readable)) -> [@ EXCEPT !.pc = "confirm", !.published = TRUE]
                [] f \in Fatal -> [@ EXCEPT !.pc = "cleantemp", !.cleanupFatal = TRUE]
                [] OTHER -> [@ EXCEPT !.pc = "cleantemp", !.primary = TRUE,
                                      !.uncertain = f = "err" /\ (~readable \/ summary'[s[r].path] # None)]]
    /\ UNCHANGED <<lockFile, evidence, db, crashes>>

(* The destination is looked at once more, and its directory made durable.  *)
Confirm(r) ==
    /\ s[r].pc = "confirm"
    /\ \E f \in Outcome({"err", "exc", "interrupt"}), call \in {"lstat", "fsync"} :
         /\ Counted(f)
         /\ s' = [s EXCEPT ![r] =
              LET t == [@ EXCEPT !.pc = "cleantemp"] IN
              CASE f = "ok" -> [t EXCEPT !.synced = TRUE]
                [] f = "err" /\ call = "lstat" -> [t EXCEPT !.published = FALSE, !.uncertain = TRUE, !.primary = TRUE]
                [] f = "err" /\ call = "fsync" -> [t EXCEPT !.primary = TRUE]
                [] f = "interrupt" -> [t EXCEPT !.cleanupFatal = TRUE]
                [] OTHER -> t]
    /\ UNCHANGED <<lockFile, evidence, summary, db, crashes>>

PublicationOutcome(t, tempGone) ==
    IF t.published THEN IF tempGone /\ t.synced /\ ~t.primary THEN "WRITTEN" ELSE "PUBLISHED_INCOMPLETE"
    ELSE IF t.uncertain THEN "PUBLICATION_UNCERTAIN" ELSE "NOT_WRITTEN"

(* The temporary file is closed and removed on every path, and the outcome  *)
(* of the publication named; only WRITTEN leaves the run's own outcome.     *)
CleanTemp(r) ==
    /\ s[r].pc = "cleantemp"
    /\ \E f \in Outcome({"err", "interrupt"}) :
         LET publication == PublicationOutcome(s[r], f = "ok") IN
         /\ Counted(f)
         /\ s' = [s EXCEPT ![r] =
              [@ EXCEPT !.pc = "release",
                        !.cleanupFatal = s[r].cleanupFatal \/ f \in Fatal,
                        !.publication = publication,
                        !.outcome = IF publication = "WRITTEN" THEN s[r].outcome ELSE "FAIL",
                        !.reason = CASE publication = "WRITTEN" -> s[r].reason
                                     [] publication = "PUBLISHED_INCOMPLETE" -> "summary_published_incomplete"
                                     [] publication = "PUBLICATION_UNCERTAIN" -> "summary_publication_uncertain"
                                     [] OTHER -> "summary_failed"]]
    /\ UNCHANGED <<lockFile, evidence, summary, db, crashes>>

-----------------------------------------------------------------------------
(* Release of the lock, the last step of every run that was admitted.       *)

IdentityMatches(t) == lockFile.ino = t.identity

(* The fd is given up, closed or not, and a failure noted.                  *)
FdClosed(t, f, call) ==
    [t EXCEPT !.fd = None, !.fdClosed = f = "ok" \/ call = "lstat",
              !.cleanupFatal = t.cleanupFatal \/ f \in Fatal,
              !.release = IF f # "err" THEN None
                          ELSE IF call = "close" THEN "runtime_lock_release_failed"
                          ELSE "runtime_lock_release_uncertain"]

(* The fd is closed and the path looked at, each failure observed alone.    *)
Release(r) ==
    /\ s[r].pc = "release"
    /\ \E f \in Outcome({"err", "interrupt"}), call \in {"close", "lstat"} :
         LET t == FdClosed(s[r], f, call) IN
         /\ Counted(f)
         /\ s' = [s EXCEPT ![r] =
              IF f # "ok" /\ call = "lstat" THEN [t EXCEPT !.pc = "verdict"]
              ELSE IF lockFile = None THEN [t EXCEPT !.pc = "verdict", !.absent = TRUE]
              ELSE IF IdentityMatches(s[r]) THEN [t EXCEPT !.pc = "unlink"]
              ELSE [t EXCEPT !.pc = "verdict",
                             !.release = IF t.release = None THEN "runtime_lock_identity_mismatch"
                                         ELSE t.release]]
    /\ UNCHANGED <<lockFile, evidence, summary, db, crashes>>

(* os.unlink removes what is at the path by then.                           *)
Unlink(r) ==
    /\ s[r].pc = "unlink"
    /\ \E f \in Outcome({"err", "interrupt"}) :
         /\ Counted(f)
         /\ lockFile' = IF f = "ok" THEN None ELSE lockFile
         /\ s' = [s EXCEPT ![r] =
              [@ EXCEPT !.pc = "verdict",
                        !.absent = f = "ok" \/ lockFile = None,
                        !.cleanupFatal = s[r].cleanupFatal \/ f \in Fatal,
                        !.release = IF s[r].release = None /\ f = "err" /\ lockFile # None
                                    THEN "runtime_lock_release_failed" ELSE s[r].release]]
    /\ UNCHANGED <<evidence, summary, db, crashes>>

FatalCleanup(t) == t.bodyFatal \/ t.cleanupFatal

CleanupOutcome(t) ==
    IF FatalCleanup(t) THEN "FATAL"
    ELSE IF t.ordinary \/ t.release # None \/ ~t.fdClosed THEN "INCOMPLETE" ELSE "CLEAN"

(* is_clean_pass *)
IsCleanPass(t) ==
    /\ t.outcome = "PASS"
    /\ t.publication = "WRITTEN"
    /\ t.fdClosed /\ t.absent
    /\ t.release = None
    /\ CleanupOutcome(t) = "CLEAN"

(* A PASS survives only a clean exit; a fatal leaves as an exception.       *)
Verdict(r) ==
    /\ s[r].pc = "verdict"
    /\ s' = [s EXCEPT ![r] =
         IF FatalCleanup(@) THEN Raised(@)
         ELSE [@ EXCEPT !.pc = "ended", !.returned = "envelope",
                        !.outcome = IF s[r].outcome = "PASS" /\ ~IsCleanPass(s[r]) THEN "FAIL"
                                     ELSE s[r].outcome]]
    /\ UNCHANGED <<lockFile, evidence, summary, db, faults, crashes>>

-----------------------------------------------------------------------------
(* The process is killed; its fds close, its files stay.                    *)
Kill(r) ==
    /\ ~Over(r)
    /\ crashes < MaxCrashes
    /\ crashes' = crashes + 1
    /\ s' = [s EXCEPT ![r] = [@ EXCEPT !.pc = "killed", !.fd = None]]
    /\ UNCHANGED <<lockFile, evidence, summary, db, faults>>

(* The operator clears the lock by hand.                                    *)
OperatorUnlocks ==
    /\ lockFile # None
    /\ OperatorCareful => Over(lockFile.by)
    /\ lockFile' = None
    /\ UNCHANGED <<evidence, summary, db, s, faults, crashes>>

RunStep(r) ==
    \/ Validate(r) \/ LockOpen(r) \/ LockWrite(r) \/ LockAbort(r)
    \/ OpenEvidence(r) \/ OpenStack(r) \/ StartupOnly(r) \/ BodyRefuses(r) \/ RunLoop(r)
    \/ StopLoop(r) \/ BodyFails(r) \/ Handler(r)
    \/ CloseStack(r) \/ LastRecord(r) \/ WriteTemp(r) \/ Link(r) \/ Confirm(r) \/ CleanTemp(r)
    \/ Release(r) \/ Unlink(r) \/ Verdict(r)

Next == (\E r \in Run : RunStep(r) \/ Kill(r)) \/ OperatorUnlocks

Spec == Init /\ [][Next]_vars

-----------------------------------------------------------------------------
(* Properties.                                                              *)

Holds(r) == s[r].fd # None /\ ~Over(r)

(* Between the create-new open of the lock and the close of its fd a run is *)
(* alone with the databases: a stale lock, a failed acquire or a kill never *)
(* lets a second run in while the first lives (PilotRuntimeLock).           *)
OneRunHolds == \A q, r \in Run : Holds(q) /\ Holds(r) => q = r

(* Exit 0 says: on disk is this run's own PASS summary, beside its own      *)
(* evidence, complete and closed; its databases are closed, its lock gone,  *)
(* and a market loop met every criterion (is_clean_pass).                   *)
CleanPassIsTrue ==
    \A r \in Run : s[r].returned = "envelope" /\ IsCleanPass(s[r]) =>
        /\ summary[s[r].path] = [run |-> r, outcome |-> "PASS"]
        /\ evidence[s[r].path] = [run |-> r, final |-> s[r].reason, closed |-> TRUE]
        /\ lockFile # None => lockFile.by # r
        /\ ~s[r].stack
        /\ s[r].unmet = {}

(* A PASS on disk is never ahead of the evidence: when the summary appears, *)
(* the last record is written, the recorder closed, and no fatal pending    *)
(* ("An evidence failure yields FAIL/evidence_failed and no PASS summary"). *)
PassHasEvidence ==
    \A p \in Path : summary[p] # None /\ summary[p].outcome = "PASS" =>
        /\ evidence[p] # None /\ evidence[p].run = summary[p].run
        /\ evidence[p].final \in {"completed", "startup_only"} /\ evidence[p].closed
        /\ ~s[summary[p].run].bodyFatal

(* A run that returned while its lock file stands says so: its release, or  *)
(* its acquire, carries a reason (release, _abort_partial_acquire).         *)
ResidueReported ==
    \A r \in Run : s[r].returned \in {"memory", "envelope"} /\ lockFile # None /\ lockFile.by = r =>
        s[r].release # None \/ s[r].reason = "runtime_lock_acquire_uncertain"

(* Outputs are create-new: once a run's evidence or summary is there, no    *)
(* step of any run replaces it, also when both were admitted before either  *)
(* wrote (EvidenceRecorder.open, _publish_summary_create_new).              *)
OutputsKept ==
    \A p \in Path :
        /\ evidence[p] # None => evidence'[p] # None /\ evidence'[p].run = evidence[p].run
        /\ summary[p] # None => summary'[p] = summary[p]

(* The four invariants and the action property together: one run at a time  *)
(* has the databases, exit 0 tells the truth about the files, a PASS on     *)
(* disk is never ahead of its evidence, a run that leaves its lock behind   *)
(* says so, and no step of any run replaces another's outputs, whatever     *)
(* call fails, whoever is killed and whenever the operator clears a stale   *)
(* lock (PilotRuntimeLock, run_attended_paper_day, _finalize_run).          *)
PaperDayTellsTheTruth ==
    /\ [](OneRunHolds /\ CleanPassIsTrue /\ PassHasEvidence /\ ResidueReported)
    /\ [][OutputsKept]_vars

-----------------------------------------------------------------------------
(* The inductive invariant.                                                 *)

(* The reasons a run stops for, a release fails for, how a run returns, and *)
(* what becomes of a publication.                                           *)
Reason ==
    {"completed", "startup_only", "invalid_input", "runtime_lock_failed", "runtime_lock_exists",
     "runtime_lock_acquire_failed", "runtime_lock_acquire_uncertain", "evidence_failed", "db_failed",
     "graceful_stop", "internal_runtime_error", "invalid_session_window", "source_failed",
     "source_exhausted_after_reconnects", "journal_uncertain", "nonterminal_journal",
     "reconcile_required", "resource_close_failure", "subscription_rejected",
     "transport_not_ready", "trade_not_observed", "quote_not_observed", "health_not_ready",
     "trigger_not_evaluated", "summary_published_incomplete", "summary_publication_uncertain",
     "summary_failed"}
ReleaseReason ==
    {"runtime_lock_release_failed", "runtime_lock_release_uncertain", "runtime_lock_identity_mismatch"}
Returned == {"memory", "raised", "envelope"}
Publication == {"WRITTEN", "PUBLISHED_INCOMPLETE", "PUBLICATION_UNCERTAIN", "NOT_WRITTEN"}

LockRecord == [ino : Ino, by : Run]
EvidenceRecord == [run : Run, final : Reason \cup {None}, closed : BOOLEAN]
SummaryRecord == [run : Run, outcome : {"PASS", "NO_GO", "FAIL"}]

CriteriaNames == {Criteria[i] : i \in DOMAIN Criteria}

(* None is no inode, no word and no file; a loop lacks only criteria.       *)
ASSUME DayConstants ==
    /\ None \notin Ino \cup Reason \cup ReleaseReason \cup Returned \cup Publication
    /\ None \notin LockRecord \cup EvidenceRecord \cup SummaryRecord
    /\ Unmet \subseteq SUBSET CriteriaNames
    /\ OperatorCareful \in BOOLEAN

Fields ==
    {"pc", "path", "reuse", "fd", "identity", "outcome", "reason", "bodyFatal", "cleanupFatal",
     "ordinary", "evidenceOwned", "stack", "foreignDb", "unmet", "ranLoop", "published",
     "uncertain", "primary", "synced", "publication", "fdClosed", "absent", "release", "returned"}

RunTypeOK(t) ==
    /\ DOMAIN t = Fields
    /\ t.path \in Path
    /\ t.outcome \in {"PASS", "NO_GO", "FAIL"}
    /\ t.reason \in Reason
    /\ t.unmet \subseteq CriteriaNames

DayTypeOK ==
    /\ lockFile \in LockRecord \cup {None}
    /\ evidence \in [Path -> EvidenceRecord \cup {None}]
    /\ summary \in [Path -> SummaryRecord \cup {None}]
    /\ DOMAIN s = Run
    /\ \A r \in Run : RunTypeOK(s[r])

PassReason == {"completed", "startup_only"}

(* The stretches of a run: before its summary is linked, and from each step *)
(* of the finalisation on.                                                  *)
BeforeLink == {"validate", "lock", "lockwrite", "abort", "evidence", "stack", "body", "handler",
               "close", "lastrecord", "publish", "link"}
LockHeld == (BeforeLink \ {"validate", "lock"}) \cup {"confirm", "cleantemp", "release", "unlink"}
Recorded(t) ==
    \/ t.pc \in {"publish", "link", "confirm", "cleantemp", "release", "unlink", "verdict"}
    \/ t.returned = "envelope"
Closed(t) == t.pc = "lastrecord" \/ Recorded(t)
Finalizing(t) == t.pc = "close" \/ Closed(t)

(* What the state of a run alone says: a PASS that is still standing has    *)
(* its evidence, its databases closed and its criteria met, and a run at    *)
(* its verdict knows its lock gone or has a failure to report.              *)
Course(t) ==
    /\ t.fd # None => t.pc \in (LockHeld \ {"unlink"}) \cup {"ended"}
    /\ t.outcome = "PASS" => t.reason \in PassReason
    /\ t.returned # None => t.pc = "ended"
    /\ t.pc \in {"stack", "body"} => t.evidenceOwned
    /\ t.pc = "handler" => t.outcome # "PASS"
    /\ Finalizing(t) /\ t.outcome = "PASS" /\ ~t.bodyFatal => t.evidenceOwned
    /\ Closed(t) /\ t.outcome = "PASS" /\ ~t.cleanupFatal => ~t.stack /\ t.unmet = {}
    /\ ~t.ranLoop => t.unmet = {}
    /\ t.pc \in BeforeLink => ~t.published
    /\ t.pc = "link" => ~FatalCleanup(t)
    /\ t.absent => t.pc \in {"verdict", "ended", "killed"}
    /\ t.pc = "verdict" => t.absent \/ t.release # None \/ t.cleanupFatal

(* The evidence a run created stays its own, and is complete when a PASS    *)
(* goes on to be published.                                                 *)
EvidenceIsOwn(r) ==
    LET t == s[r]  e == evidence[t.path] IN
    /\ t.evidenceOwned => e # None /\ e.run = r
    /\ Recorded(t) /\ t.outcome = "PASS" /\ ~FatalCleanup(t) => e.final = t.reason /\ e.closed = TRUE

(* A summary a run believes published is its own; one that is its own was   *)
(* linked by it, after its evidence.                                        *)
SummaryIsOwn(r) ==
    LET t == s[r]  e == evidence[t.path]  m == summary[t.path] IN
    /\ t.published /\ t.pc \in {"confirm", "cleantemp"} => m = [run |-> r, outcome |-> t.outcome]
    /\ t.publication = "WRITTEN" /\ t.outcome = "PASS" => m = [run |-> r, outcome |-> "PASS"]
    /\ m # None /\ m.run = r =>
          /\ t.pc \notin BeforeLink
          /\ m.outcome = "PASS" => /\ e # None /\ e.run = r
                                   /\ e.final \in PassReason /\ e.closed = TRUE
                                   /\ ~t.bodyFatal

LockIsOf(r) == lockFile # None /\ lockFile.by = r

(* A lock file of this run is there only between its open and its unlink,   *)
(* unless the run says so or never returned; with a careful operator it is  *)
(* there throughout.                                                        *)
LockAccounted(r) ==
    LET t == s[r] IN
    /\ t.absent \/ t.pc \in {"validate", "lock"} => ~LockIsOf(r)
    /\ t.returned \in {"memory", "envelope"} /\ LockIsOf(r) =>
          t.release # None \/ t.reason = "runtime_lock_acquire_uncertain"
    /\ OperatorCareful /\ t.pc \in LockHeld => LockIsOf(r)

RunInv(r) == Course(s[r]) /\ EvidenceIsOwn(r) /\ SummaryIsOwn(r) /\ LockAccounted(r)

DayInv ==
    /\ DayTypeOK
    /\ \A p \in Path : summary[p] # None => s[summary[p].run].path = p
    /\ \A r \in Run : RunInv(r)

(* What a step of run r may do to the files: it takes or gives up only its  *)
(* own lock, adds to no evidence but its own, and only creates summaries.   *)
LockMoves(r) ==
    /\ lockFile' \in LockRecord \cup {None}
    /\ \/ lockFile' = lockFile
       \/ lockFile' = None /\ (OperatorCareful => lockFile = None \/ lockFile.by = r)
       \/ lockFile = None /\ lockFile' # None /\ lockFile'.by = r

FilesStep(r) ==
    /\ LockMoves(r)
    /\ evidence' \in [Path -> EvidenceRecord \cup {None}]
    /\ summary' \in [Path -> SummaryRecord \cup {None}]
    /\ \A p \in Path : evidence[p] # None =>
          /\ evidence'[p] # None /\ evidence'[p].run = evidence[p].run
          /\ evidence[p].run # r => evidence'[p] = evidence[p]
    /\ \A p \in Path :
          /\ summary[p] # None => summary'[p] = summary[p]
          /\ summary[p] = None /\ summary'[p] # None => summary'[p].run = r /\ p = s[r].path

RunMoves(r) ==
    /\ DOMAIN s' = Run
    /\ \A q \in Run \ {r} : s'[q] = s[q]
    /\ RunTypeOK(s'[r])
    /\ s'[r].path = s[r].path

SameBut(t, u, changed) == \A f \in Fields \ changed : u[f] = t[f]

-----------------------------------------------------------------------------
(* A step of one run leaves every other run's account of the files true.    *)
LEMMA OthersUndisturbed ==
    ASSUME DayInv, NEW r \in Run, RunMoves(r), FilesStep(r), NEW q \in Run, q # r
    PROVE  RunInv(q)'
<1>1. s'[q] = s[q] /\ RunInv(q) /\ RunTypeOK(s[q])
  BY Zenon DEF RunMoves, DayInv, DayTypeOK
<1>2. s[q].path \in Path
  BY <1>1, Zenon DEF RunTypeOK
<1>3. Course(s[q])'
  BY <1>1 DEF RunInv, Course, Finalizing, Closed, Recorded, FatalCleanup
<1>4. EvidenceIsOwn(q)'
  <2>1. s[q].evidenceOwned => evidence'[s[q].path] = evidence[s[q].path]
    BY <1>1, <1>2, Zenon DEF RunInv, EvidenceIsOwn, FilesStep
  <2>2. Recorded(s[q]) /\ s[q].outcome = "PASS" /\ ~FatalCleanup(s[q]) => s[q].evidenceOwned
    BY <1>1, Zenon DEF RunInv, Course, Finalizing, Closed, FatalCleanup
  <2> QED BY <1>1, <2>1, <2>2, Zenon DEF RunInv, EvidenceIsOwn, Recorded, FatalCleanup
<1>5. SummaryIsOwn(q)'
  <2>1. /\ summary[s[q].path] # None => summary'[s[q].path] = summary[s[q].path]
        /\ summary'[s[q].path] # None /\ summary'[s[q].path].run = q => summary[s[q].path] # None
    BY <1>2, Zenon DEF FilesStep
  <2>2. evidence[s[q].path] # None /\ evidence[s[q].path].run = q =>
            evidence'[s[q].path] = evidence[s[q].path]
    BY <1>2, Zenon DEF FilesStep
  <2>3. \A o \in {"PASS", "NO_GO", "FAIL"} : [run |-> q, outcome |-> o] # None
    BY DayConstants DEF SummaryRecord
  <2> QED BY <1>1, <2>1, <2>2, <2>3, Zenon DEF RunInv, SummaryIsOwn, RunTypeOK
<1>6. LockAccounted(q)'
  BY <1>1 DEF RunInv, LockAccounted, LockIsOf, FilesStep, LockMoves
<1> QED BY <1>3, <1>4, <1>5, <1>6, Zenon DEF RunInv

(* So a step has only its own run to account for.                           *)
LEMMA OneRunMoves ==
    ASSUME DayInv, NEW r \in Run, RunMoves(r), FilesStep(r), RunInv(r)'
    PROVE  DayInv' /\ OutputsKept
<1>1. DayTypeOK'
  BY Zenon DEF DayInv, DayTypeOK, RunMoves, FilesStep, LockMoves, RunTypeOK
<1>2. \A p \in Path : summary'[p] # None => s'[summary'[p].run].path = p
  <2> SUFFICES ASSUME NEW p \in Path, summary'[p] # None PROVE s'[summary'[p].run].path = p
    OBVIOUS
  <2>1. \A q \in Run : s'[q].path = s[q].path
    BY Zenon DEF RunMoves
  <2>2. summary'[p].run \in Run
    BY <1>1, Zenon DEF DayTypeOK, SummaryRecord
  <2> QED BY <2>1, <2>2 DEF DayInv, FilesStep
<1>3. OutputsKept
  BY Zenon DEF OutputsKept, FilesStep
<1> QED BY <1>1, <1>2, <1>3, OthersUndisturbed, Zenon DEF DayInv

(* A step that leaves the outputs alone: its run is answerable for them as  *)
(* it was before.                                                           *)
KeepsOutputs(r, u) ==
    LET t == s[r] IN
    /\ u.evidenceOwned = t.evidenceOwned
    /\ Recorded(u) /\ u.outcome = "PASS" /\ ~FatalCleanup(u) =>
          Recorded(t) /\ t.outcome = "PASS" /\ ~FatalCleanup(t) /\ u.reason = t.reason
    /\ u.published /\ u.pc \in {"confirm", "cleantemp"} =>
          t.published /\ t.pc \in {"confirm", "cleantemp"} /\ u.outcome = t.outcome
    /\ u.publication = "WRITTEN" /\ u.outcome = "PASS" =>
          /\ t.outcome = "PASS"
          /\ t.publication = "WRITTEN" \/ (t.published /\ t.pc \in {"confirm", "cleantemp"})
    /\ t.pc \notin BeforeLink => u.pc \notin BeforeLink /\ u.bodyFatal = t.bodyFatal

RunChanges(r, u) ==
    /\ s' = [s EXCEPT ![r] = u]
    /\ RunTypeOK(u) /\ u.path = s[r].path
    /\ Course(u)

LEMMA OutputsAlone ==
    ASSUME DayInv, NEW r \in Run, NEW u, RunChanges(r, u), KeepsOutputs(r, u),
           UNCHANGED <<evidence, summary>>, LockMoves(r), LockAccounted(r)'
    PROVE  DayInv' /\ OutputsKept
<1>1. RunInv(r) /\ RunTypeOK(s[r]) /\ DOMAIN s = Run
  BY Zenon DEF DayInv, DayTypeOK
<1>2. s'[r] = u /\ RunMoves(r)
  BY <1>1, Zenon DEF RunMoves, RunChanges
<1>3. FilesStep(r)
  BY Zenon DEF FilesStep, DayInv, DayTypeOK
<1>4. EvidenceIsOwn(r)'
  BY <1>1, <1>2, Zenon DEF RunInv, EvidenceIsOwn, KeepsOutputs, Recorded, FatalCleanup, RunChanges
<1>5. SummaryIsOwn(r)'
  BY <1>1, <1>2, Zenon DEF RunInv, SummaryIsOwn, KeepsOutputs, RunChanges
<1>6. Course(s[r])'
  BY <1>2 DEF RunChanges, Course, Finalizing, Closed, Recorded, FatalCleanup
<1> QED BY <1>2, <1>3, <1>4, <1>5, <1>6, OneRunMoves, Zenon DEF RunInv

(* A step that leaves the lock file alone too.                              *)
LEMMA FilesAlone ==
    ASSUME DayInv, NEW r \in Run, NEW u, RunChanges(r, u), KeepsOutputs(r, u),
           UNCHANGED <<lockFile, evidence, summary>>,
           u.absent \/ u.pc \in {"validate", "lock"} => ~LockIsOf(r),
           u.returned \in {"memory", "envelope"} /\ LockIsOf(r) =>
              u.release # None \/ u.reason = "runtime_lock_acquire_uncertain",
           u.pc \in LockHeld => s[r].pc \in LockHeld
    PROVE  DayInv' /\ OutputsKept
<1>1. RunInv(r) /\ DOMAIN s = Run
  BY Zenon DEF DayInv, DayTypeOK
<1>2. s'[r] = u
  BY <1>1, Zenon DEF RunChanges
<1>3. LockAccounted(r)'
  BY <1>1, <1>2, Zenon DEF RunInv, LockAccounted, LockIsOf
<1>4. LockMoves(r)
  BY Zenon DEF LockMoves, DayInv, DayTypeOK
<1> QED BY <1>3, <1>4, OutputsAlone, Zenon

-----------------------------------------------------------------------------
(* The ways a run's record changes.                                         *)

(* ... refused, *)
LEMMA RefusedFields ==
    ASSUME NEW t, RunTypeOK(t), NEW reason
    PROVE  /\ DOMAIN Refused(t, reason) = Fields
           /\ Refused(t, reason).pc = "ended"
           /\ Refused(t, reason).outcome = OutcomeForStopReason(reason)
           /\ Refused(t, reason).reason = reason
           /\ Refused(t, reason).returned = "memory"
           /\ SameBut(t, Refused(t, reason), {"pc", "outcome", "reason", "returned"})
BY Zenon DEF Refused, SameBut, Fields, RunTypeOK

(* ... left by an exception, *)
LEMMA RaisedFields ==
    ASSUME NEW t, RunTypeOK(t)
    PROVE  /\ DOMAIN Raised(t) = Fields
           /\ Raised(t).pc = "ended" /\ Raised(t).returned = "raised"
           /\ SameBut(t, Raised(t), {"pc", "returned"})
BY Zenon DEF Raised, SameBut, Fields, RunTypeOK

(* ... stopped in its body with a reason, *)
LEMMA StoppedFields ==
    ASSUME NEW t, RunTypeOK(t), NEW reason, NEW outcome
    PROVE  /\ DOMAIN Stopped(t, reason, outcome) = Fields
           /\ Stopped(t, reason, outcome).pc = "handler"
           /\ Stopped(t, reason, outcome).reason = reason
           /\ Stopped(t, reason, outcome).outcome = outcome
           /\ SameBut(t, Stopped(t, reason, outcome), {"pc", "reason", "outcome"})
BY Zenon DEF Stopped, SameBut, Fields, RunTypeOK

(* ... or by a fatal.                                                       *)
LEMMA BodyFatalFields ==
    ASSUME NEW t, RunTypeOK(t)
    PROVE  /\ DOMAIN BodyFatal(t) = Fields
           /\ BodyFatal(t).pc = "close" /\ BodyFatal(t).bodyFatal = TRUE
           /\ SameBut(t, BodyFatal(t), {"pc", "bodyFatal"})
BY Zenon DEF BodyFatal, SameBut, Fields, RunTypeOK

(* A run that is refused, or left by an exception, is answerable for no     *)
(* more than before, whatever it did to its fd.                             *)
LEMMA EndsEarly ==
    ASSUME DayInv, NEW r \in Run, NEW t, RunTypeOK(t), SameBut(s[r], t, {"fd", "identity"}),
           s[r].returned = None, NEW reason \in Reason, NEW u,
           u = Refused(t, reason) \/ u = Raised(t)
    PROVE  /\ RunTypeOK(u) /\ u.path = s[r].path /\ Course(u) /\ KeepsOutputs(r, u)
           /\ u.pc = "ended"
           /\ u.absent = s[r].absent
           /\ (u.returned = "memory" /\ u.reason = reason) \/ u.returned = "raised"
<1>1. /\ RunTypeOK(s[r]) /\ Course(s[r])
      /\ \A f \in Fields \ {"fd", "identity"} : t[f] = s[r][f]
  BY Zenon DEF DayInv, DayTypeOK, RunInv, SameBut
<1>2. CASE u = Refused(t, reason)
  <2>1. OutcomeForStopReason(reason) \in {"NO_GO", "FAIL"}
    BY Zenon DEF OutcomeForStopReason
  <2>2. /\ DOMAIN u = Fields /\ u.pc = "ended" /\ u.outcome = OutcomeForStopReason(reason)
        /\ u.reason = reason /\ u.returned = "memory"
        /\ \A f \in Fields \ {"pc", "outcome", "reason", "returned"} : u[f] = t[f]
    BY <1>2, RefusedFields DEF SameBut
  <2>3. /\ u.path = s[r].path /\ u.evidenceOwned = s[r].evidenceOwned /\ u.absent = s[r].absent
        /\ u.unmet = s[r].unmet /\ u.ranLoop = s[r].ranLoop /\ u.bodyFatal = s[r].bodyFatal
    BY <1>1, <2>2, Zenon DEF Fields
  <2>4. RunTypeOK(u)
    BY <1>1, <2>1, <2>2, <2>3, Zenon DEF RunTypeOK
  <2>5. Course(u)
    BY <1>1, <2>1, <2>2, <2>3, Zenon DEF Course, Finalizing, Closed, Recorded, BeforeLink, LockHeld
  <2>6. KeepsOutputs(r, u)
    BY <2>1, <2>2, <2>3, Zenon DEF KeepsOutputs, Recorded, BeforeLink
  <2> QED BY <2>2, <2>3, <2>4, <2>5, <2>6, Zenon
<1>3. CASE u = Raised(t)
  <2>1. /\ DOMAIN u = Fields /\ u.pc = "ended" /\ u.returned = "raised"
        /\ \A f \in Fields \ {"pc", "returned"} : u[f] = t[f]
    BY <1>3, RaisedFields, Zenon DEF SameBut
  <2>2. /\ u.path = s[r].path /\ u.evidenceOwned = s[r].evidenceOwned /\ u.absent = s[r].absent
        /\ u.unmet = s[r].unmet /\ u.ranLoop = s[r].ranLoop /\ u.bodyFatal = s[r].bodyFatal
        /\ u.outcome = s[r].outcome /\ u.reason = s[r].reason
        /\ u.publication = s[r].publication
    BY <1>1, <2>1, Zenon DEF Fields
  <2>3. RunTypeOK(u)
    BY <1>1, <2>1, <2>2, Zenon DEF RunTypeOK
  <2>4. Course(u)
    BY <1>1, <2>1, <2>2, Zenon DEF Course, Finalizing, Closed, Recorded, BeforeLink, LockHeld
  <2>5. KeepsOutputs(r, u)
    BY <2>1, <2>2, Zenon DEF KeepsOutputs, Recorded, BeforeLink
  <2> QED BY <2>1, <2>2, <2>3, <2>4, <2>5, Zenon
<1> QED BY <1>2, <1>3, Zenon

(* What the invariant says of one run.                                      *)
LEMMA OfRun ==
    ASSUME DayInv, NEW r \in Run
    PROVE  /\ RunTypeOK(s[r]) /\ DOMAIN s = Run
           /\ Course(s[r]) /\ EvidenceIsOwn(r) /\ SummaryIsOwn(r) /\ LockAccounted(r)
BY Zenon DEF DayInv, DayTypeOK, RunInv

(* A refusal, or an exception, while the files stay as they are.            *)
LEMMA EndsQuietly ==
    ASSUME DayInv, NEW r \in Run, s[r].returned = None, NEW reason \in Reason, NEW u,
           u = Refused(s[r], reason) \/ u = Raised(s[r]), s' = [s EXCEPT ![r] = u],
           UNCHANGED <<lockFile, evidence, summary>>,
           u = Refused(s[r], reason) => ~LockIsOf(r)
    PROVE  DayInv' /\ OutputsKept
<1>1. RunTypeOK(s[r]) /\ LockAccounted(r) /\ SameBut(s[r], s[r], {"fd", "identity"})
  BY OfRun, Zenon DEF SameBut
<1>2. /\ RunTypeOK(u) /\ u.path = s[r].path /\ Course(u) /\ KeepsOutputs(r, u)
      /\ u.pc = "ended" /\ u.absent = s[r].absent
      /\ (u.returned = "memory" /\ u.reason = reason) \/ u.returned = "raised"
  BY <1>1, EndsEarly
<1>3. u.returned # "raised" => ~LockIsOf(r)
  BY <1>1, RaisedFields, Zenon
<1>4. u.absent => ~LockIsOf(r)
  BY <1>1, <1>2, Zenon DEF LockAccounted
<1> QED BY <1>2, <1>3, <1>4, FilesAlone, Zenon DEF RunChanges, LockHeld, BeforeLink

(* Validate: the first look at the paths.                                   *)
LEMMA ValidateKeeps ==
    ASSUME DayInv, NEW r \in Run, Validate(r)
    PROVE  DayInv' /\ OutputsKept
<1>1. /\ RunTypeOK(s[r]) /\ Course(s[r]) /\ LockAccounted(r) /\ s[r].pc = "validate"
      /\ UNCHANGED <<lockFile, evidence, summary>>
  BY OfRun, Zenon DEF Validate
<1>2. s[r].returned = None /\ ~LockIsOf(r)
  BY <1>1, Zenon DEF Course, LockAccounted
<1>3. CASE InputsValid(s[r])
  <2> DEFINE u == [s[r] EXCEPT !.pc = "lock"]
  <2>1. s' = [s EXCEPT ![r] = u]
    BY <1>3, Zenon DEF Validate
  <2>2. DOMAIN u = Fields /\ u.pc = "lock" /\ SameBut(s[r], u, {"pc"})
    BY <1>1, Zenon DEF RunTypeOK, SameBut, Fields
  <2> HIDE DEF u
  <2>3. RunTypeOK(u) /\ u.path = s[r].path
    BY <1>1, <2>2, Zenon DEF RunTypeOK, SameBut, Fields
  <2>4. Course(u)
    BY <1>1, <1>2, <2>2 DEF Course, Finalizing, Closed, Recorded, BeforeLink, LockHeld, SameBut, Fields, FatalCleanup
  <2>5. KeepsOutputs(r, u)
    BY <1>1, <1>2, <2>2, Zenon DEF KeepsOutputs, Recorded, BeforeLink, SameBut, Fields, FatalCleanup
  <2>6. u.returned = None /\ None \notin {"memory", "envelope"}
    BY <1>2, <2>2, DayConstants, Zenon DEF SameBut, Fields, Returned
  <2> QED BY <1>1, <1>2, <2>1, <2>2, <2>3, <2>4, <2>5, <2>6, FilesAlone, Zenon DEF RunChanges, LockHeld
<1>4. CASE ~InputsValid(s[r])
  <2>1. s' = [s EXCEPT ![r] = Refused(s[r], "invalid_input")]
    BY <1>4, Zenon DEF Validate
  <2> QED BY <1>1, <1>2, <2>1, EndsQuietly, Zenon DEF Reason
<1> QED BY <1>3, <1>4, Zenon

(* LockOpen: the create-new open, the only step that takes the lock.        *)
LEMMA LockOpenKeeps ==
    ASSUME DayInv, NEW r \in Run, LockOpen(r)
    PROVE  DayInv' /\ OutputsKept
<1>1. /\ RunTypeOK(s[r]) /\ Course(s[r]) /\ LockAccounted(r) /\ s[r].pc = "lock" /\ DOMAIN s = Run
      /\ UNCHANGED <<evidence, summary>>
  BY OfRun, Zenon DEF LockOpen
<1>2. s[r].returned = None /\ ~LockIsOf(r) /\ ~s[r].absent
  BY <1>1, Zenon DEF Course, LockAccounted
<1>3. PICK f \in {"ok", "err", "exc", "interrupt", "late"},
           i \in IF lockFile = None THEN FreeIno ELSE {lockFile.ino} :
        /\ lockFile' = IF f \in {"ok", "late"} /\ lockFile = None THEN [ino |-> i, by |-> r]
                       ELSE lockFile
        /\ s' = [s EXCEPT ![r] =
              CASE f = "err" -> Refused(@, "runtime_lock_failed")
                [] f = "exc" -> Refused(@, "runtime_lock_acquire_uncertain")
                [] f \in Fatal -> Raised(@)
                [] f = "ok" /\ ~MayCreate -> Refused(@, "runtime_lock_exists")
                [] OTHER -> [@ EXCEPT !.pc = "lockwrite", !.fd = i]]
  BY ZenonT(40) DEF LockOpen, Outcome
<1>4. lockFile = None => [ino |-> i, by |-> r] \in LockRecord
  BY <1>3, Zenon DEF FreeIno, LockRecord
<1>5. LockMoves(r)
  BY <1>3, <1>4, DayConstants, Zenon DEF LockMoves, DayInv, DayTypeOK
<1>6. CASE f \in {"err", "exc", "interrupt"} \/ (f = "ok" /\ lockFile # None)
  <2>1. UNCHANGED <<lockFile, evidence, summary>>
    BY <1>1, <1>3, <1>6, Zenon
  <2>2. PICK reason \in Reason :
          \/ s' = [s EXCEPT ![r] = Refused(s[r], reason)]
          \/ s' = [s EXCEPT ![r] = Raised(s[r])]
    BY <1>3, <1>6, Zenon DEF Fatal, MayCreate, Reason
  <2> QED BY <1>2, <2>1, <2>2, EndsQuietly, Zenon
<1>7. CASE f = "late"
  <2>1. s' = [s EXCEPT ![r] = Raised(s[r])]
    BY <1>3, <1>7, Zenon DEF Fatal
  <2>2. "invalid_input" \in Reason /\ SameBut(s[r], s[r], {"fd", "identity"})
    BY Zenon DEF Reason, SameBut
  <2> DEFINE u == Raised(s[r])
  <2>3. u.returned = "raised"
    BY <1>1, RaisedFields, Zenon
  <2>4. /\ RunTypeOK(u) /\ u.path = s[r].path /\ Course(u) /\ KeepsOutputs(r, u)
        /\ u.pc = "ended" /\ u.absent = s[r].absent
    BY <1>1, <1>2, <2>2, EndsEarly
  <2> HIDE DEF u
  <2>5. s'[r] = u
    BY <1>1, <2>1, Zenon DEF u
  <2>6. LockAccounted(r)'
    BY <1>2, <2>3, <2>4, <2>5, Zenon DEF LockAccounted, LockHeld, BeforeLink
  <2>7. RunChanges(r, u)
    BY <2>1, <2>4, Zenon DEF RunChanges, u
  <2> QED BY <1>1, <1>5, <2>4, <2>6, <2>7, OutputsAlone, Zenon
<1>8. CASE f = "ok" /\ lockFile = None
  <2> DEFINE u == [s[r] EXCEPT !.pc = "lockwrite", !.fd = i]
  <2>1. s' = [s EXCEPT ![r] = u]
    BY <1>3, <1>8, Zenon DEF Fatal, MayCreate
  <2>2. DOMAIN u = Fields /\ u.pc = "lockwrite" /\ SameBut(s[r], u, {"pc", "fd"})
    BY <1>1, Zenon DEF RunTypeOK, SameBut, Fields
  <2>3. s'[r] = u
    BY <1>1, <2>1, Zenon
  <2> HIDE DEF u
  <2>4. RunTypeOK(u) /\ u.path = s[r].path /\ u.returned = None /\ ~u.absent
    BY <1>1, <1>2, <2>2, Zenon DEF RunTypeOK, SameBut, Fields
  <2>5. Course(u)
    BY <1>1, <1>2, <2>2, DayConstants
       DEF Course, Finalizing, Closed, Recorded, BeforeLink, LockHeld, SameBut, Fields, FatalCleanup, Returned
  <2>6. KeepsOutputs(r, u)
    BY <1>1, <1>2, <2>2, DayConstants, Zenon
       DEF KeepsOutputs, Recorded, BeforeLink, SameBut, Fields, FatalCleanup, Returned
  <2>7. LockIsOf(r)'
    BY <1>3, <1>4, <1>8, DayConstants, Zenon DEF LockIsOf
  <2>8. LockAccounted(r)'
    BY <2>2, <2>3, <2>4, <2>7, DayConstants, Zenon DEF LockAccounted, Returned
  <2> QED BY <1>1, <1>5, <2>1, <2>4, <2>5, <2>6, <2>8, OutputsAlone, Zenon DEF RunChanges
<1> QED BY <1>3, <1>6, <1>7, <1>8, Zenon

(* LockWrite: the identity is read and the lock written.                    *)
LEMMA LockWriteKeeps ==
    ASSUME DayInv, NEW r \in Run, LockWrite(r)
    PROVE  DayInv' /\ OutputsKept
<1>1. /\ RunTypeOK(s[r]) /\ Course(s[r]) /\ LockAccounted(r) /\ s[r].pc = "lockwrite"
      /\ UNCHANGED <<lockFile, evidence, summary>>
  BY OfRun, Zenon DEF LockWrite
<1>2. s[r].returned = None /\ ~s[r].absent
  BY <1>1, Zenon DEF Course
<1>3. PICK f, identity :
        s' = [s EXCEPT ![r] = [@ EXCEPT !.pc = IF f = "ok" THEN "evidence" ELSE "abort",
                                        !.identity = identity,
                                        !.bodyFatal = f \in Fatal]]
  BY Zenon DEF LockWrite
<1> DEFINE u == [s[r] EXCEPT !.pc = IF f = "ok" THEN "evidence" ELSE "abort",
                             !.identity = identity,
                             !.bodyFatal = f \in Fatal]
<1>4. s' = [s EXCEPT ![r] = u]
  BY <1>3, Zenon
<1>5. /\ DOMAIN u = Fields /\ u.pc \in {"evidence", "abort"}
      /\ SameBut(s[r], u, {"pc", "identity", "bodyFatal"})
  BY <1>1, Zenon DEF RunTypeOK, SameBut, Fields
<1> HIDE DEF u
<1>6. RunTypeOK(u) /\ u.path = s[r].path /\ u.returned = None /\ ~u.absent
  BY <1>1, <1>2, <1>5, Zenon DEF RunTypeOK, SameBut, Fields
<1>7. Course(u)
  BY <1>1, <1>2, <1>5, DayConstants
     DEF Course, Finalizing, Closed, Recorded, BeforeLink, LockHeld, SameBut, Fields, FatalCleanup, Returned
<1>8. KeepsOutputs(r, u)
  BY <1>1, <1>2, <1>5, DayConstants, Zenon
     DEF KeepsOutputs, Recorded, BeforeLink, SameBut, Fields, FatalCleanup, Returned
<1>9. s[r].pc \in LockHeld /\ u.pc \notin {"validate", "lock"} /\ None \notin {"memory", "envelope"}
  BY <1>1, <1>5, DayConstants, Zenon DEF LockHeld, BeforeLink, Returned
<1> QED BY <1>1, <1>4, <1>6, <1>7, <1>8, <1>9, FilesAlone, Zenon DEF RunChanges

(* LockAbort: a half-made lock is given back, or reported.                  *)
LEMMA LockAbortKeeps ==
    ASSUME DayInv, NEW r \in Run, LockAbort(r)
    PROVE  DayInv' /\ OutputsKept
<1>1. /\ RunTypeOK(s[r]) /\ Course(s[r]) /\ LockAccounted(r) /\ s[r].pc = "abort" /\ DOMAIN s = Run
      /\ UNCHANGED <<evidence, summary>>
  BY OfRun, Zenon DEF LockAbort
<1>2. s[r].returned = None /\ ~s[r].absent /\ (OperatorCareful => LockIsOf(r))
  BY <1>1, Zenon DEF Course, LockAccounted, LockHeld, BeforeLink
<1> DEFINE t == [s[r] EXCEPT !.fd = None, !.identity = None]
<1>3. PICK reason \in Reason :
        /\ \/ s' = [s EXCEPT ![r] = Refused(t, reason)]
           \/ s' = [s EXCEPT ![r] = Raised(t)]
        /\ lockFile' = None \/ lockFile' = lockFile
        /\ reason # "runtime_lock_acquire_uncertain" => lockFile' = None
  <2>1. PICK f \in Outcome({"err", "interrupt"}), call \in {"close", "unlink"} :
          LET ours == s[r].identity # None /\ lockFile # None /\ lockFile.ino = s[r].identity
              unlinked == ours /\ (f = "ok" \/ call = "close") IN
          /\ lockFile' = IF unlinked THEN None ELSE lockFile
          /\ s' = [s EXCEPT ![r] =
               IF s[r].bodyFatal \/ f \in Fatal THEN Raised(t)
               ELSE Refused(t, IF CleanRollback(f = "ok" \/ call = "unlink",
                                                unlinked \/ lockFile = None)
                               THEN "runtime_lock_acquire_failed"
                               ELSE "runtime_lock_acquire_uncertain")]
    BY ZenonT(40) DEF LockAbort
  <2> DEFINE gone == (s[r].identity # None /\ lockFile # None /\ lockFile.ino = s[r].identity
                        /\ (f = "ok" \/ call = "close")) \/ lockFile = None
             reason == IF CleanRollback(f = "ok" \/ call = "unlink", gone)
                       THEN "runtime_lock_acquire_failed" ELSE "runtime_lock_acquire_uncertain"
  <2>2. reason \in Reason
    BY Zenon DEF Reason
  <2>3. lockFile' = None \/ lockFile' = lockFile
    BY <2>1, Zenon
  <2>4. reason # "runtime_lock_acquire_uncertain" => lockFile' = None
    BY <2>1, Zenon DEF CleanRollback
  <2>5. \/ s' = [s EXCEPT ![r] = Refused(t, reason)]
        \/ s' = [s EXCEPT ![r] = Raised(t)]
    <3> HIDE DEF t
    <3> QED BY <2>1, Zenon
  <2> HIDE DEF t, reason
  <2> QED BY <2>2, <2>3, <2>4, <2>5, Zenon
<1>4. RunTypeOK(t) /\ SameBut(s[r], t, {"fd", "identity"})
  BY <1>1, Zenon DEF RunTypeOK, SameBut, Fields
<1> HIDE DEF t
<1>5. PICK u : /\ u = Refused(t, reason) \/ u = Raised(t)
               /\ s' = [s EXCEPT ![r] = u]
  BY <1>3, Zenon
<1>6. /\ RunTypeOK(u) /\ u.path = s[r].path /\ Course(u) /\ KeepsOutputs(r, u)
      /\ u.pc = "ended" /\ u.absent = s[r].absent
      /\ (u.returned = "memory" /\ u.reason = reason) \/ u.returned = "raised"
  BY <1>2, <1>4, <1>5, EndsEarly
<1>7. LockMoves(r)
  BY <1>2, <1>3, Zenon DEF LockMoves, DayInv, DayTypeOK, LockIsOf
<1>8. s'[r] = u
  BY <1>1, <1>5, Zenon
<1>9. LockAccounted(r)'
  BY <1>2, <1>3, <1>6, <1>8, Zenon DEF LockAccounted, LockIsOf, LockHeld, BeforeLink
<1> QED BY <1>1, <1>5, <1>6, <1>7, <1>9, OutputsAlone, Zenon DEF RunChanges

-----------------------------------------------------------------------------
(* The body of a run, up to its last record: what it must show of itself at *)
(* each step.                                                               *)
InBody(u) ==
    /\ u.outcome = "PASS" => u.reason \in PassReason
    /\ u.pc = "body" => u.evidenceOwned
    /\ u.pc = "handler" => u.outcome # "PASS"
    /\ u.pc \in {"close", "lastrecord"} /\ u.outcome = "PASS" /\ ~u.bodyFatal => u.evidenceOwned
    /\ u.pc = "lastrecord" /\ u.outcome = "PASS" /\ ~u.cleanupFatal => ~u.stack /\ u.unmet = {}
    /\ ~u.ranLoop => u.unmet = {}

BodyFields == {"pc", "outcome", "reason", "bodyFatal", "cleanupFatal", "ordinary", "stack",
               "foreignDb", "unmet", "ranLoop"}

LEMMA BodyMoves ==
    ASSUME DayInv, NEW r \in Run, s[r].pc \in {"evidence", "stack", "body", "handler", "close"},
           NEW u, RunTypeOK(u), SameBut(s[r], u, BodyFields), InBody(u),
           u.pc \in {"body", "handler", "close", "lastrecord"},
           u.outcome = "PASS" => s[r].outcome = "PASS",
           s' = [s EXCEPT ![r] = u], UNCHANGED <<lockFile, evidence, summary>>
    PROVE  DayInv' /\ OutputsKept
<1>1. RunTypeOK(s[r]) /\ Course(s[r]) /\ SummaryIsOwn(r) /\ LockAccounted(r)
  BY OfRun, Zenon
<1>2. /\ s[r].pc \in LockHeld /\ s[r].pc \in BeforeLink /\ u.pc \in LockHeld /\ u.pc \in BeforeLink
      /\ None \notin Returned
  BY DayConstants, Zenon DEF LockHeld, BeforeLink
<1>3. s[r].returned = None /\ ~s[r].absent /\ ~s[r].published
  BY <1>1, <1>2, Zenon DEF Course
<1>4. /\ u.path = s[r].path /\ u.returned = None /\ ~u.absent /\ ~u.published
      /\ u.evidenceOwned = s[r].evidenceOwned /\ u.publication = s[r].publication
  BY <1>3, Zenon DEF SameBut, BodyFields, Fields
<1>5. Course(u)
  BY <1>2, <1>4, Zenon DEF Course, InBody, Finalizing, Closed, Recorded, LockHeld, Returned
<1>6. KeepsOutputs(r, u)
  <2>1. ~Recorded(u)
    BY <1>2, <1>4, Zenon DEF Recorded, Returned
  <2> QED BY <1>2, <1>4, <2>1, Zenon DEF KeepsOutputs
<1> QED BY <1>2, <1>4, <1>5, <1>6, FilesAlone, Zenon DEF RunChanges, Returned

(* A run stopped in its body, by a reason or by a fatal.                    *)
LEMMA BodyStops ==
    ASSUME DayInv, NEW r \in Run, s[r].pc \in {"evidence", "stack", "body"},
           NEW t, RunTypeOK(t), SameBut(s[r], t, {"stack", "foreignDb"}),
           NEW reason \in Reason, NEW outcome \in {"NO_GO", "FAIL"}, NEW u,
           u = Stopped(t, reason, outcome) \/ u = BodyFatal(t),
           s' = [s EXCEPT ![r] = u], UNCHANGED <<lockFile, evidence, summary>>
    PROVE  DayInv' /\ OutputsKept
<1>1. /\ RunTypeOK(s[r]) /\ Course(s[r])
      /\ \A f \in Fields \ {"stack", "foreignDb"} : t[f] = s[r][f]
  BY OfRun, Zenon DEF SameBut
<1>2. /\ t.path = s[r].path /\ t.evidenceOwned = s[r].evidenceOwned /\ t.ranLoop = s[r].ranLoop
      /\ t.unmet = s[r].unmet /\ t.outcome = s[r].outcome /\ t.reason = s[r].reason
  BY <1>1, Zenon DEF Fields
<1>3. CASE u = Stopped(t, reason, outcome)
  <2>1. /\ DOMAIN u = Fields /\ u.pc = "handler" /\ u.reason = reason /\ u.outcome = outcome
        /\ \A f \in Fields \ {"pc", "reason", "outcome"} : u[f] = t[f]
    BY <1>3, StoppedFields DEF SameBut
  <2>2. RunTypeOK(u)
    BY <2>1, Zenon DEF RunTypeOK, Fields
  <2>3. SameBut(s[r], u, BodyFields)
    BY <1>1, <2>1, Zenon DEF SameBut, BodyFields, Fields
  <2>4. InBody(u)
    BY <1>1, <1>2, <2>1 DEF InBody, Course, Fields
  <2> QED BY <2>1, <2>2, <2>3, <2>4, BodyMoves, Zenon
<1>4. CASE u = BodyFatal(t)
  <2>1. /\ DOMAIN u = Fields /\ u.pc = "close" /\ u.bodyFatal = TRUE
        /\ \A f \in Fields \ {"pc", "bodyFatal"} : u[f] = t[f]
    BY <1>4, BodyFatalFields, Zenon DEF SameBut
  <2>2. RunTypeOK(u)
    BY <2>1, Zenon DEF RunTypeOK, Fields
  <2>3. SameBut(s[r], u, BodyFields)
    BY <1>1, <2>1, Zenon DEF SameBut, BodyFields, Fields
  <2>4. InBody(u) /\ u.outcome = s[r].outcome
    BY SMTT(30), <1>1, <1>2, <2>1 DEF InBody, Course, Fields
  <2> QED BY <2>1, <2>2, <2>3, <2>4, BodyMoves, Zenon
<1> QED BY <1>3, <1>4, Zenon

(* Handler: failed_closed is recorded, or an interrupt leaves.              *)
LEMMA HandlerKeeps ==
    ASSUME DayInv, NEW r \in Run, Handler(r)
    PROVE  DayInv' /\ OutputsKept
<1>1. /\ RunTypeOK(s[r]) /\ Course(s[r]) /\ s[r].pc = "handler"
      /\ UNCHANGED <<lockFile, evidence, summary>>
  BY OfRun, Zenon DEF Handler
<1>2. s[r].returned = None /\ "graceful_stop" \in Reason
  BY <1>1, Zenon DEF Course, Reason
<1> DEFINE u == [s[r] EXCEPT !.pc = "close"]
<1>3. s' = [s EXCEPT ![r] = Raised(s[r])] \/ s' = [s EXCEPT ![r] = u]
  BY Zenon DEF Handler
<1>4. Raised(s[r]) # Refused(s[r], "graceful_stop")
  BY <1>1, RaisedFields, RefusedFields
<1>5. DOMAIN u = Fields /\ u.pc = "close" /\ SameBut(s[r], u, {"pc"})
  BY <1>1, Zenon DEF RunTypeOK, SameBut, Fields
<1> HIDE DEF u
<1>6. RunTypeOK(u) /\ u.outcome = s[r].outcome /\ SameBut(s[r], u, BodyFields)
  BY <1>1, <1>5, Zenon DEF RunTypeOK, SameBut, Fields, BodyFields
<1>7. InBody(u)
  BY <1>1, <1>5, Zenon DEF InBody, Course, SameBut, Fields
<1>8. CASE s' = [s EXCEPT ![r] = u]
  BY <1>1, <1>5, <1>6, <1>7, <1>8, BodyMoves, Zenon
<1>9. CASE s' = [s EXCEPT ![r] = Raised(s[r])]
  BY <1>1, <1>2, <1>4, <1>9, EndsQuietly, Zenon
<1> QED BY <1>3, <1>8, <1>9, Zenon

(* OpenStack: the databases are opened, whatever the journal holds.         *)
LEMMA OpenStackKeeps ==
    ASSUME DayInv, NEW r \in Run, OpenStack(r)
    PROVE  DayInv' /\ OutputsKept
<1>1. /\ RunTypeOK(s[r]) /\ Course(s[r]) /\ s[r].pc = "stack"
      /\ UNCHANGED <<lockFile, evidence, summary>>
  BY OfRun, Zenon DEF OpenStack
<1> DEFINE t == [s[r] EXCEPT !.stack = TRUE, !.foreignDb = db.files /\ ~s[r].reuse]
           u == [t EXCEPT !.pc = "body"]
<1>2. \/ s' = [s EXCEPT ![r] = BodyFatal(s[r])]
      \/ s' = [s EXCEPT ![r] = Stopped(s[r], "graceful_stop", "NO_GO")]
      \/ s' = [s EXCEPT ![r] = Stopped(s[r], "db_failed", "FAIL")]
      \/ s' = [s EXCEPT ![r] = Stopped(t, "nonterminal_journal", "NO_GO")]
      \/ s' = [s EXCEPT ![r] = u]
  <2>1. PICK f \in Outcome({"err", "interrupt", "fatal"}) :
          s' = [s EXCEPT ![r] =
              CASE f = "fatal" -> BodyFatal(@)
                [] f = "interrupt" -> Stopped(@, "graceful_stop", "NO_GO")
                [] f = "err" -> Stopped(@, "db_failed", "FAIL")
                [] f = "ok" /\ db.nonterminal -> Stopped(t, "nonterminal_journal", "NO_GO")
                [] OTHER -> u]
    BY Zenon DEF OpenStack
  <2> HIDE DEF t, u
  <2>2. CASE db.nonterminal
    BY <2>1, <2>2, Zenon DEF Outcome
  <2>3. CASE ~db.nonterminal
    BY <2>1, <2>3, Zenon DEF Outcome
  <2> QED BY <2>2, <2>3, Zenon
<1>3. RunTypeOK(t) /\ SameBut(s[r], t, {"stack", "foreignDb"})
  BY <1>1, Zenon DEF RunTypeOK, SameBut, Fields
<1> HIDE DEF t
<1>4. DOMAIN u = Fields /\ u.pc = "body" /\ SameBut(t, u, {"pc"})
  BY <1>3, Zenon DEF RunTypeOK, SameBut, Fields
<1> HIDE DEF u
<1>5. RunTypeOK(u) /\ u.outcome = s[r].outcome /\ SameBut(s[r], u, BodyFields)
  BY <1>1, <1>3, <1>4, Zenon DEF RunTypeOK, SameBut, Fields, BodyFields
<1>6. InBody(u)
  BY <1>1, <1>3, <1>4 DEF InBody, Course, SameBut, Fields
<1>7. SameBut(s[r], s[r], {"stack", "foreignDb"})
  BY Zenon DEF SameBut
<1>8. {"graceful_stop", "db_failed", "nonterminal_journal"} \subseteq Reason
  BY Zenon DEF Reason
<1>9. CASE s' = [s EXCEPT ![r] = u]
  BY <1>1, <1>4, <1>5, <1>6, <1>9, BodyMoves, Zenon
<1>10. ASSUME NEW v, RunTypeOK(v), SameBut(s[r], v, {"stack", "foreignDb"}),
              NEW reason \in Reason, NEW outcome \in {"NO_GO", "FAIL"},
              s' = [s EXCEPT ![r] = Stopped(v, reason, outcome)]
       PROVE  DayInv' /\ OutputsKept
  BY <1>1, <1>10, BodyStops, Zenon
<1>11. CASE s' = [s EXCEPT ![r] = BodyFatal(s[r])]
  BY <1>1, <1>7, <1>8, <1>11, BodyStops, Zenon
<1> QED BY <1>1, <1>2, <1>3, <1>7, <1>8, <1>9, <1>10, <1>11, Zenon

(* StartupOnly, RunLoop, StopLoop: the body comes to an end.                *)
LEMMA BodyEndsKeeps ==
    ASSUME DayInv, NEW r \in Run, StartupOnly(r) \/ RunLoop(r) \/ StopLoop(r)
    PROVE  DayInv' /\ OutputsKept
<1>1. /\ RunTypeOK(s[r]) /\ Course(s[r]) /\ s[r].pc = "body"
      /\ UNCHANGED <<lockFile, evidence, summary>>
  BY OfRun, Zenon DEF StartupOnly, RunLoop, StopLoop
<1>2. ASSUME NEW u, s' = [s EXCEPT ![r] = u], DOMAIN u = Fields, u.pc = "close",
             SameBut(s[r], u, {"pc", "ranLoop", "unmet", "outcome", "reason"}),
             u.outcome \in {"PASS", "NO_GO", "FAIL"}, u.outcome = "PASS" => s[r].outcome = "PASS",
             u.reason \in Reason, u.outcome = "PASS" => u.reason \in PassReason,
             u.unmet \subseteq CriteriaNames, ~u.ranLoop => u.unmet = {}
      PROVE  DayInv' /\ OutputsKept
  <2>1. RunTypeOK(u) /\ SameBut(s[r], u, BodyFields)
    BY <1>1, <1>2, Zenon DEF RunTypeOK, SameBut, Fields, BodyFields
  <2>2. InBody(u)
    BY <1>1, <1>2, Zenon DEF InBody, Course, SameBut, Fields
  <2> QED BY <1>1, <1>2, <2>1, <2>2, BodyMoves, Zenon
<1>3. CASE StartupOnly(r)
  <2> DEFINE u == [s[r] EXCEPT !.pc = "close", !.reason = "startup_only"]
  <2>1. s' = [s EXCEPT ![r] = u]
    BY <1>3, Zenon DEF StartupOnly
  <2>2. /\ DOMAIN u = Fields /\ u.pc = "close" /\ u.reason = "startup_only"
        /\ SameBut(s[r], u, {"pc", "reason"})
    BY <1>1, Zenon DEF RunTypeOK, SameBut, Fields
  <2>3. "startup_only" \in Reason /\ "startup_only" \in PassReason
    BY Zenon DEF Reason, PassReason
  <2> HIDE DEF u
  <2>4. /\ u.outcome = s[r].outcome /\ u.unmet = s[r].unmet /\ u.ranLoop = s[r].ranLoop
        /\ SameBut(s[r], u, {"pc", "ranLoop", "unmet", "outcome", "reason"})
    BY <2>2, Zenon DEF SameBut, Fields
  <2> QED BY <1>1, <1>2, <2>1, <2>2, <2>3, <2>4, Zenon DEF RunTypeOK, Course
<1>4. CASE RunLoop(r)
  <2>1. PICK unmet \in Unmet :
          s' = [s EXCEPT ![r] = [@ EXCEPT !.pc = "close", !.ranLoop = TRUE, !.unmet = unmet]]
    BY <1>4, Zenon DEF RunLoop
  <2> DEFINE u == [s[r] EXCEPT !.pc = "close", !.ranLoop = TRUE, !.unmet = unmet]
  <2>2. s' = [s EXCEPT ![r] = u]
    BY <2>1, Zenon
  <2>3. /\ DOMAIN u = Fields /\ u.pc = "close" /\ u.ranLoop = TRUE /\ u.unmet = unmet
        /\ SameBut(s[r], u, {"pc", "ranLoop", "unmet"})
    BY <1>1, Zenon DEF RunTypeOK, SameBut, Fields
  <2>4. unmet \subseteq CriteriaNames
    BY DayConstants, Zenon
  <2> HIDE DEF u
  <2>5. /\ u.outcome = s[r].outcome /\ u.reason = s[r].reason
        /\ SameBut(s[r], u, {"pc", "ranLoop", "unmet", "outcome", "reason"})
    BY <2>3, Zenon DEF SameBut, Fields
  <2> QED BY <1>1, <1>2, <2>2, <2>3, <2>4, <2>5, Zenon DEF RunTypeOK, Course
<1>5. CASE StopLoop(r)
  <2>1. PICK reason \in Reason, outcome \in {"NO_GO", "FAIL"} :
          s' = [s EXCEPT ![r] = [@ EXCEPT !.pc = "close", !.ranLoop = TRUE,
                                          !.reason = reason, !.outcome = outcome]]
    <3>1. PICK stop \in {<<"journal_uncertain", "NO_GO">>, <<"source_exhausted_after_reconnects", "FAIL">>} :
            s' = [s EXCEPT ![r] = [@ EXCEPT !.pc = "close", !.ranLoop = TRUE,
                                            !.reason = stop[1], !.outcome = stop[2]]]
      BY <1>5, Zenon DEF StopLoop
    <3>2. stop[1] \in Reason /\ stop[2] \in {"NO_GO", "FAIL"}
      BY DEF Reason
    <3> QED BY <3>1, <3>2, Zenon
  <2> DEFINE u == [s[r] EXCEPT !.pc = "close", !.ranLoop = TRUE, !.reason = reason, !.outcome = outcome]
  <2>2. s' = [s EXCEPT ![r] = u]
    BY <2>1, Zenon
  <2>3. /\ DOMAIN u = Fields /\ u.pc = "close" /\ u.ranLoop = TRUE /\ u.reason = reason
        /\ u.outcome = outcome /\ SameBut(s[r], u, {"pc", "ranLoop", "outcome", "reason"})
    BY <1>1, Zenon DEF RunTypeOK, SameBut, Fields
  <2> HIDE DEF u
  <2>4. u.unmet = s[r].unmet /\ SameBut(s[r], u, {"pc", "ranLoop", "unmet", "outcome", "reason"})
    BY <2>3, Zenon DEF SameBut, Fields
  <2> QED BY <1>1, <1>2, <2>2, <2>3, <2>4, Zenon DEF RunTypeOK
<1> QED BY <1>3, <1>4, <1>5, Zenon

(* BodyRefuses, BodyFails: the body is cut short.                           *)
LEMMA BodyCutKeeps ==
    ASSUME DayInv, NEW r \in Run, BodyRefuses(r) \/ BodyFails(r)
    PROVE  DayInv' /\ OutputsKept
<1>1. /\ RunTypeOK(s[r]) /\ s[r].pc = "body" /\ SameBut(s[r], s[r], {"stack", "foreignDb"})
      /\ UNCHANGED <<lockFile, evidence, summary>>
  BY OfRun, Zenon DEF BodyRefuses, BodyFails, SameBut
<1>2. PICK reason \in Reason, outcome \in {"NO_GO", "FAIL"} :
        \/ s' = [s EXCEPT ![r] = Stopped(s[r], reason, outcome)]
        \/ s' = [s EXCEPT ![r] = BodyFatal(s[r])]
  <2>1. {"internal_runtime_error", "graceful_stop"} \cup BodyReason \subseteq Reason
    BY Zenon DEF Reason, BodyReason
  <2>2. \A reason : OutcomeForStopReason(reason) \in {"NO_GO", "FAIL"}
    BY Zenon DEF OutcomeForStopReason
  <2>3. CASE BodyRefuses(r)
    BY <2>1, <2>2, <2>3, Zenon DEF BodyRefuses
  <2>4. CASE BodyFails(r)
    BY <2>1, <2>4, Zenon DEF BodyFails
  <2> QED BY <2>3, <2>4, Zenon
<1>3. CASE s' = [s EXCEPT ![r] = Stopped(s[r], reason, outcome)]
  BY <1>1, <1>3, BodyStops, Zenon
<1>4. CASE s' = [s EXCEPT ![r] = BodyFatal(s[r])]
  BY <1>1, <1>2, <1>4, BodyStops, Zenon
<1> QED BY <1>2, <1>3, <1>4, Zenon

(* OpenEvidence: the evidence file is created, or the body stops.           *)
LEMMA OpenEvidenceKeeps ==
    ASSUME DayInv, NEW r \in Run, OpenEvidence(r)
    PROVE  DayInv' /\ OutputsKept
<1>1. /\ RunTypeOK(s[r]) /\ Course(s[r]) /\ SummaryIsOwn(r) /\ LockAccounted(r) /\ DOMAIN s = Run
      /\ s[r].pc = "evidence" /\ s[r].path \in Path /\ evidence \in [Path -> EvidenceRecord \cup {None}]
      /\ UNCHANGED <<lockFile, summary>>
  BY OfRun, Zenon DEF OpenEvidence, RunTypeOK, DayInv, DayTypeOK
<1> DEFINE u == [s[r] EXCEPT !.pc = "stack", !.evidenceOwned = TRUE]
           e == [run |-> r, final |-> None, closed |-> FALSE]
<1>2. PICK f \in {"ok", "err", "interrupt", "fatal"} :
        LET created == f = "ok" /\ evidence[s[r].path] = None IN
        /\ evidence' = IF created THEN [evidence EXCEPT ![s[r].path] = e] ELSE evidence
        /\ s' = [s EXCEPT ![r] =
              CASE created -> u
                [] f = "fatal" -> BodyFatal(@)
                [] f = "interrupt" -> Stopped(@, "graceful_stop", "NO_GO")
                [] OTHER -> Stopped(@, "evidence_failed", "FAIL")]
  BY Zenon DEF OpenEvidence, Outcome
<1>3. CASE ~(f = "ok" /\ evidence[s[r].path] = None)
  <2>1. UNCHANGED <<lockFile, evidence, summary>>
    BY <1>1, <1>2, <1>3, Zenon
  <2>2. \/ s' = [s EXCEPT ![r] = BodyFatal(s[r])]
        \/ s' = [s EXCEPT ![r] = Stopped(s[r], "graceful_stop", "NO_GO")]
        \/ s' = [s EXCEPT ![r] = Stopped(s[r], "evidence_failed", "FAIL")]
    BY <1>2, <1>3, Zenon
  <2>3. {"graceful_stop", "evidence_failed"} \subseteq Reason /\ SameBut(s[r], s[r], {"stack", "foreignDb"})
    BY Zenon DEF Reason, SameBut
  <2>4. ASSUME NEW reason \in Reason, NEW outcome \in {"NO_GO", "FAIL"},
               s' = [s EXCEPT ![r] = Stopped(s[r], reason, outcome)]
        PROVE  DayInv' /\ OutputsKept
    BY <1>1, <2>1, <2>3, <2>4, BodyStops, Zenon
  <2>5. CASE s' = [s EXCEPT ![r] = BodyFatal(s[r])]
    BY <1>1, <2>1, <2>3, <2>5, BodyStops, Zenon
  <2> QED BY <2>2, <2>3, <2>4, <2>5, Zenon
<1>4. CASE f = "ok" /\ evidence[s[r].path] = None
  <2>1. s' = [s EXCEPT ![r] = u] /\ evidence' = [evidence EXCEPT ![s[r].path] = e]
    BY <1>2, <1>4, Zenon
  <2>2. DOMAIN u = Fields /\ u.pc = "stack" /\ u.evidenceOwned = TRUE
        /\ SameBut(s[r], u, {"pc", "evidenceOwned"})
    BY <1>1, Zenon DEF RunTypeOK, SameBut, Fields
  <2>3. s'[r] = u
    BY <1>1, <2>1, Zenon
  <2>4. e \in EvidenceRecord /\ e.run = r /\ e # None
    <3>1. e \in EvidenceRecord /\ e.run = r
      BY Zenon DEF EvidenceRecord
    <3> QED BY <3>1, DayConstants, Zenon
  <2>5. evidence'[s[r].path] = e /\ \A p \in Path \ {s[r].path} : evidence'[p] = evidence[p]
    BY <1>1, <2>1, Zenon
  <2> HIDE DEF u, e
  <2>6. RunTypeOK(u) /\ u.path = s[r].path /\ u.returned = s[r].returned /\ u.absent = s[r].absent
    BY <1>1, <2>2, Zenon DEF RunTypeOK, SameBut, Fields
  <2>7. s[r].returned = None /\ ~s[r].absent /\ ~s[r].published
    BY <1>1, Zenon DEF Course, BeforeLink
  <2>8. Course(u)
    BY SMTT(30), <1>1, <2>2, <2>7, DayConstants
       DEF Course, Finalizing, Closed, Recorded, BeforeLink, LockHeld, SameBut, Fields, FatalCleanup, Returned
  <2>9. RunMoves(r)
    BY <1>1, <2>1, <2>3, <2>6, Zenon DEF RunMoves
  <2>10. FilesStep(r)
    BY <1>1, <1>4, <2>1, <2>4, <2>5, Zenon DEF FilesStep, LockMoves, DayInv, DayTypeOK
  <2>11. EvidenceIsOwn(r)'
    BY <2>2, <2>3, <2>4, <2>5, <2>6, <2>7, DayConstants DEF EvidenceIsOwn, Recorded, Returned
  <2>12. SummaryIsOwn(r)'
    BY <1>1, <2>2, <2>3, <2>6, <2>7 DEF SummaryIsOwn, SameBut, Fields, BeforeLink
  <2>13. LockAccounted(r)'
    BY <1>1, <2>2, <2>3, <2>6, <2>7, DayConstants, Zenon
       DEF LockAccounted, LockIsOf, LockHeld, BeforeLink, Returned
  <2>14. Course(s[r])'
    BY <2>3, <2>8 DEF Course, Finalizing, Closed, Recorded, FatalCleanup
  <2> QED BY <2>9, <2>10, <2>11, <2>12, <2>13, <2>14, OneRunMoves, Zenon DEF RunInv
<1> QED BY <1>3, <1>4, Zenon

(* _completion_verdict says PASS only of a loop that lacks nothing, and     *)
(* otherwise names the first criterion that is not met.                     *)
LEMMA VerdictNamesACriterion ==
    ASSUME NEW unmet, unmet \subseteq CriteriaNames
    PROVE  \/ CompletionVerdict(unmet) = <<"PASS", "completed">> /\ unmet = {}
           \/ \E c \in unmet : CompletionVerdict(unmet) = <<"NO_GO", c>>
<1>1. CASE unmet = {}
  BY <1>1, Zenon DEF CompletionVerdict
<1>2. CASE unmet # {}
  <2> DEFINE First(i) == Criteria[i] \in unmet /\ \A j \in 1 .. (i - 1) : Criteria[j] \notin unmet
  <2>1. DOMAIN Criteria = 1 .. 10
    BY DEF Criteria
  <2>2. PICK k \in 1 .. 10 : Criteria[k] \in unmet
    BY <1>2, <2>1, Zenon DEF CriteriaNames
  <2>3. \E i \in 1 .. 10 : First(i)
    <3> SUFFICES ASSUME \A i \in 1 .. 10 : ~First(i) PROVE FALSE
      OBVIOUS
    <3> DEFINE met(n) == \A j \in 1 .. n : Criteria[j] \notin unmet
    <3>1. met(0)
      OBVIOUS
    <3>2. ASSUME NEW n \in 0 .. 9, met(n) PROVE met(n + 1)
      BY <3>2
    <3>3. met(10)
      <4> HIDE DEF met
      <4> QED BY <3>1, <3>2
    <3> QED BY <2>2, <3>3, Zenon
  <2>4. First(CHOOSE i \in DOMAIN Criteria : First(i))
    BY <2>1, <2>3, Zenon
  <2> QED BY <1>2, <2>4, Zenon DEF CompletionVerdict
<1> QED BY <1>1, <1>2, Zenon

(* CloseStack: the databases are closed and a completed loop is judged.     *)
LEMMA CloseStackKeeps ==
    ASSUME DayInv, NEW r \in Run, CloseStack(r)
    PROVE  DayInv' /\ OutputsKept
<1>1. /\ RunTypeOK(s[r]) /\ Course(s[r]) /\ s[r].pc = "close"
      /\ UNCHANGED <<lockFile, evidence, summary>>
  BY OfRun, Zenon DEF CloseStack
<1> DEFINE closed(f) == CASE f = "err" -> [s[r] EXCEPT !.reason = "resource_close_failure",
                                                       !.outcome = "NO_GO", !.ordinary = TRUE]
                          [] f = "interrupt" -> [s[r] EXCEPT !.cleanupFatal = TRUE]
                          [] OTHER -> s[r]
           t(f) == [closed(f) EXCEPT !.pc = "lastrecord", !.stack = f # "ok" /\ s[r].stack]
           verdict(f) == CompletionVerdict(closed(f).unmet)
           judged(f) == [t(f) EXCEPT !.outcome = verdict(f)[1], !.reason = verdict(f)[2]]
<1>2. PICK f \in {"ok", "err", "interrupt"} :
        s' = [s EXCEPT ![r] = IF Judged(t(f)) THEN judged(f) ELSE t(f)]
  <2>1. PICK f \in IF s[r].stack THEN Outcome({"err", "interrupt"}) ELSE {"ok"} :
          s' = [s EXCEPT ![r] =
                  LET v == [closed(f) EXCEPT !.pc = "lastrecord", !.stack = f # "ok" /\ s[r].stack] IN
                  IF Judged(v) THEN [v EXCEPT !.outcome = verdict(f)[1], !.reason = verdict(f)[2]] ELSE v]
    BY Zenon DEF CloseStack
  <2>2. f \in {"ok", "err", "interrupt"}
    <3>1. CASE s[r].stack
      BY <3>1, Zenon DEF Outcome
    <3>2. CASE ~s[r].stack
      BY <3>2, Zenon
    <3> QED BY <3>1, <3>2, Zenon
  <2> QED BY <2>1, <2>2, Zenon
<1>3. /\ DOMAIN closed(f) = Fields
      /\ SameBut(s[r], closed(f), {"reason", "outcome", "ordinary", "cleanupFatal"})
      /\ f = "err" => closed(f).outcome = "NO_GO" /\ closed(f).reason = "resource_close_failure"
      /\ f # "err" => closed(f).outcome = s[r].outcome /\ closed(f).reason = s[r].reason
      /\ f = "interrupt" => closed(f).cleanupFatal = TRUE
  <2>1. CASE f = "err"
    BY <1>1, <2>1, Zenon DEF RunTypeOK, SameBut, Fields
  <2>2. CASE f = "interrupt"
    BY <1>1, <2>2, Zenon DEF RunTypeOK, SameBut, Fields
  <2>3. CASE f = "ok"
    BY <1>1, <2>3, Zenon DEF RunTypeOK, SameBut, Fields
  <2> QED BY <2>1, <2>2, <2>3, Zenon
<1> HIDE DEF closed
<1>4. /\ DOMAIN t(f) = Fields /\ t(f).pc = "lastrecord" /\ t(f).stack = (f # "ok" /\ closed(f).stack)
      /\ SameBut(closed(f), t(f), {"pc", "stack"})
  BY <1>3, Zenon DEF SameBut, Fields
<1> HIDE DEF t
<1>5. /\ DOMAIN judged(f) = Fields /\ judged(f).outcome = verdict(f)[1] /\ judged(f).reason = verdict(f)[2]
      /\ SameBut(t(f), judged(f), {"outcome", "reason"})
  BY <1>4, Zenon DEF SameBut, Fields
<1> HIDE DEF judged
<1>6. closed(f).unmet = s[r].unmet /\ s[r].unmet \subseteq CriteriaNames
  BY <1>1, <1>3, Zenon DEF SameBut, Fields, RunTypeOK
<1>7. /\ verdict(f)[1] \in {"PASS", "NO_GO"} /\ verdict(f)[2] \in Reason
      /\ verdict(f)[1] = "PASS" => verdict(f)[2] = "completed" /\ s[r].unmet = {}
  <2>1. CriteriaNames \subseteq Reason /\ "completed" \in Reason
    BY DEF CriteriaNames, Criteria, Reason
  <2> QED BY <1>6, <2>1, VerdictNamesACriterion
<1> HIDE DEF verdict
<1>8. PICK u : u = (IF Judged(t(f)) THEN judged(f) ELSE t(f)) /\ s' = [s EXCEPT ![r] = u]
  BY <1>2, Zenon
<1>9. /\ DOMAIN u = Fields /\ u.pc = "lastrecord" /\ u.stack = (f # "ok" /\ closed(f).stack)
      /\ u.unmet = s[r].unmet /\ u.ranLoop = s[r].ranLoop /\ u.path = s[r].path
      /\ u.evidenceOwned = s[r].evidenceOwned /\ u.bodyFatal = s[r].bodyFatal
      /\ SameBut(s[r], u, BodyFields)
  BY SMTT(30), <1>3, <1>4, <1>5, <1>8 DEF SameBut, Fields, BodyFields
<1>10. /\ t(f).outcome = closed(f).outcome /\ t(f).reason = closed(f).reason
       /\ t(f).cleanupFatal = closed(f).cleanupFatal /\ t(f).ranLoop = s[r].ranLoop
       /\ u.cleanupFatal = closed(f).cleanupFatal
  BY SMTT(30), <1>3, <1>4, <1>5, <1>8 DEF SameBut, Fields
<1>11. CASE Judged(t(f))
  <2>1. u.outcome = verdict(f)[1] /\ u.reason = verdict(f)[2]
    BY <1>5, <1>8, <1>11, Zenon
  <2>2. f = "ok" /\ s[r].outcome = "PASS" /\ u.stack = FALSE
    BY <1>3, <1>9, <1>10, <1>11, Zenon DEF Judged
  <2>3. RunTypeOK(u)
    BY <1>1, <1>7, <1>9, <2>1, Zenon DEF RunTypeOK
  <2>4. InBody(u)
    BY <1>1, <1>7, <1>9, <2>1, <2>2, Zenon DEF InBody, Course, Finalizing, PassReason
  <2> QED BY <1>1, <1>8, <1>9, <2>2, <2>3, <2>4, BodyMoves, Zenon
<1>12. CASE ~Judged(t(f))
  <2>1. u.outcome = closed(f).outcome /\ u.reason = closed(f).reason
    BY <1>8, <1>10, <1>12, Zenon
  <2>2. RunTypeOK(u)
    BY SMTT(30), <1>1, <1>3, <1>9, <2>1 DEF RunTypeOK, Reason
  <2>3. u.outcome = "PASS" => f # "err" /\ s[r].outcome = "PASS" /\ u.reason = s[r].reason
    BY <1>3, <2>1, Zenon
  <2>4. u.outcome = "PASS" /\ ~u.cleanupFatal => f = "ok" /\ ~s[r].ranLoop
    BY <1>3, <1>10, <1>12, <2>1, <2>3, Zenon DEF Judged
  <2>5. InBody(u)
    BY <1>1, <1>9, <2>3, <2>4, Zenon DEF InBody, Course, Finalizing
  <2> QED BY <1>1, <1>8, <1>9, <2>2, <2>3, <2>5, BodyMoves, Zenon
<1> QED BY <1>11, <1>12, Zenon

(* LastRecord: the run completes and closes the evidence it created.        *)
LEMMA LastRecordKeeps ==
    ASSUME DayInv, NEW r \in Run, LastRecord(r)
    PROVE  DayInv' /\ OutputsKept
<1>1. /\ RunTypeOK(s[r]) /\ Course(s[r]) /\ EvidenceIsOwn(r) /\ SummaryIsOwn(r) /\ LockAccounted(r)
      /\ DOMAIN s = Run /\ s[r].pc = "lastrecord" /\ s[r].path \in Path
      /\ evidence \in [Path -> EvidenceRecord \cup {None}] /\ UNCHANGED <<lockFile, summary>>
  BY OfRun, Zenon DEF LastRecord, RunTypeOK, DayInv, DayTypeOK
<1>2. s[r].returned = None /\ ~s[r].absent /\ ~s[r].published
  BY <1>1, Zenon DEF Course, BeforeLink
<1> DEFINE t == [s[r] EXCEPT !.pc = "publish"]
           after(f) == CASE f = "err" -> EvidenceFailed(t)
                         [] f = "interrupt" -> [t EXCEPT !.cleanupFatal = TRUE]
                         [] OTHER -> t
           e(f, call) == [evidence[s[r].path] EXCEPT
                            !.final = IF f = "ok" \/ call = "close" THEN s[r].reason ELSE @,
                            !.closed = f = "ok" \/ call = "record"]
<1>3. PICK f \in {"ok", "err", "interrupt"}, call \in {"record", "close"} :
        /\ s' = [s EXCEPT ![r] = after(f)]
        /\ s[r].evidenceOwned => evidence' = [evidence EXCEPT ![s[r].path] = e(f, call)]
        /\ ~s[r].evidenceOwned => evidence' = evidence
  <2>1. CASE s[r].evidenceOwned
    <3>1. PICK f \in Outcome({"err", "interrupt"}), call \in {"record", "close"} :
            /\ s' = [s EXCEPT ![r] = after(f)]
            /\ evidence' = [evidence EXCEPT ![s[r].path] = e(f, call)]
      BY <2>1, Zenon DEF LastRecord
    <3>2. f \in {"ok", "err", "interrupt"}
      BY <3>1, Zenon DEF Outcome
    <3> QED BY <2>1, <3>1, <3>2, Zenon
  <2>2. CASE ~s[r].evidenceOwned
    BY <2>2, Zenon DEF LastRecord
  <2> QED BY <2>1, <2>2, Zenon
<1> DEFINE u == after(f)
<1>4. DOMAIN t = Fields /\ t.pc = "publish" /\ SameBut(s[r], t, {"pc"})
  BY <1>1, Zenon DEF RunTypeOK, SameBut, Fields
<1> HIDE DEF t
<1>5. /\ DOMAIN u = Fields /\ SameBut(t, u, {"outcome", "reason", "ordinary", "cleanupFatal"})
      /\ f = "err" => u.outcome = "FAIL" /\ u.reason = "evidence_failed"
      /\ f # "err" => u.outcome = t.outcome /\ u.reason = t.reason
      /\ f = "interrupt" => u.cleanupFatal = TRUE
      /\ f # "interrupt" => u.cleanupFatal = t.cleanupFatal
  <2>1. CASE f = "err"
    BY <1>4, <2>1, Zenon DEF SameBut, Fields, EvidenceFailed
  <2>2. CASE f = "interrupt"
    BY <1>4, <2>2, Zenon DEF SameBut, Fields
  <2>3. CASE f = "ok"
    BY <1>4, <2>3, Zenon DEF SameBut, Fields
  <2> QED BY <2>1, <2>2, <2>3, Zenon
<1>6. s' = [s EXCEPT ![r] = u] /\ s'[r] = u
  BY <1>1, <1>3, Zenon
<1> HIDE DEF after, u
<1>7. /\ u.pc = "publish" /\ u.path = s[r].path /\ u.returned = None /\ ~u.absent /\ ~u.published
      /\ u.evidenceOwned = s[r].evidenceOwned /\ u.stack = s[r].stack /\ u.unmet = s[r].unmet
      /\ u.ranLoop = s[r].ranLoop /\ u.bodyFatal = s[r].bodyFatal /\ u.publication = s[r].publication
      /\ u.outcome = "PASS" => f # "err" /\ s[r].outcome = "PASS" /\ u.reason = s[r].reason
      /\ ~u.cleanupFatal => f # "interrupt" /\ ~s[r].cleanupFatal
  BY SMTT(30), <1>2, <1>4, <1>5 DEF SameBut, Fields
<1>8. RunTypeOK(u)
  BY <1>1, <1>4, <1>5, <1>7 DEF RunTypeOK, SameBut, Fields, Reason
<1>9. Course(u)
  BY <1>1, <1>7, DayConstants, Zenon
     DEF Course, Finalizing, Closed, Recorded, BeforeLink, LockHeld, FatalCleanup, Returned
<1>10. /\ RunMoves(r) /\ LockAccounted(r)'
  BY <1>1, <1>6, <1>7, <1>8, DayConstants, Zenon
     DEF RunMoves, LockAccounted, LockIsOf, LockHeld, BeforeLink, Returned
<1>11. SummaryIsOwn(r)'
  BY <1>1, <1>6, <1>7, Zenon DEF SummaryIsOwn, BeforeLink
<1>12. Course(s[r])'
  BY <1>6, <1>9 DEF Course, Finalizing, Closed, Recorded, FatalCleanup
<1>13. CASE ~s[r].evidenceOwned
  <2>1. evidence' = evidence
    BY <1>3, <1>13, Zenon
  <2>2. FilesStep(r)
    BY <1>1, <2>1, Zenon DEF FilesStep, LockMoves, DayInv, DayTypeOK
  <2>3. EvidenceIsOwn(r)'
    BY <1>1, <1>6, <1>7, <1>13, <2>1, Zenon DEF EvidenceIsOwn, Recorded, FatalCleanup, Course, Finalizing, Closed
  <2> QED BY <1>10, <1>11, <1>12, <2>2, <2>3, OneRunMoves, Zenon DEF RunInv
<1>14. CASE s[r].evidenceOwned
  <2>1. /\ evidence[s[r].path] \in EvidenceRecord /\ evidence[s[r].path].run = r
        /\ s[r].reason \in Reason
    BY <1>1, <1>14, Zenon DEF EvidenceIsOwn, RunTypeOK
  <2> DEFINE w == e(f, call)
  <2>2. /\ w \in EvidenceRecord /\ w.run = r
        /\ f = "ok" => w.final = s[r].reason /\ w.closed = TRUE
    BY <2>1, Zenon DEF EvidenceRecord
  <2>3. w # None
    BY <2>2, DayConstants, Zenon
  <2>4. evidence' = [evidence EXCEPT ![s[r].path] = w]
    BY <1>3, <1>14, Zenon
  <2> HIDE DEF w, e
  <2>5. evidence'[s[r].path] = w /\ \A p \in Path \ {s[r].path} : evidence'[p] = evidence[p]
    BY <1>1, <2>4, Zenon
  <2>6. FilesStep(r)
    BY <1>1, <2>1, <2>2, <2>3, <2>4, <2>5, Zenon DEF FilesStep, LockMoves, DayInv, DayTypeOK
  <2>7. EvidenceIsOwn(r)'
    BY SMTT(30), <1>3, <1>6, <1>7, <2>2, <2>3, <2>5 DEF EvidenceIsOwn, FatalCleanup
  <2> QED BY <1>10, <1>11, <1>12, <2>6, <2>7, OneRunMoves, Zenon DEF RunInv
<1> QED BY <1>13, <1>14, Zenon

(* A step of the publication that changes no file: the run goes on, or is   *)
(* marked down.                                                             *)
PublicationFields ==
    {"pc", "primary", "uncertain", "cleanupFatal", "published", "synced", "publication", "outcome", "reason"}

PublicationGoesOn(t, u) ==
    /\ DOMAIN u = Fields /\ SameBut(t, u, PublicationFields)
    /\ u.pc \in {"cleantemp", "release"} \/ (t.pc = "publish" /\ u.pc = "link" /\ ~FatalCleanup(u))
    /\ u.outcome \in {t.outcome, "FAIL"} /\ u.reason \in Reason
    /\ u.outcome = "PASS" => u.reason = t.reason
    /\ u.outcome = t.outcome \/ u.pc # "cleantemp"
    /\ t.cleanupFatal => u.cleanupFatal
    /\ u.published => t.published
    /\ u.publication = "WRITTEN" => t.publication = "WRITTEN" \/ (t.published /\ t.pc = "cleantemp")

LEMMA PublicationMoves ==
    ASSUME DayInv, NEW r \in Run, s[r].pc \in {"publish", "link", "confirm", "cleantemp"}, NEW u,
           PublicationGoesOn(s[r], u), s' = [s EXCEPT ![r] = u],
           UNCHANGED <<lockFile, evidence, summary>>
    PROVE  DayInv' /\ OutputsKept
<1>1. RunTypeOK(s[r]) /\ Course(s[r]) /\ LockAccounted(r) /\ s[r].returned = None /\ ~s[r].absent
  BY OfRun, Zenon DEF Course
<1>2. /\ u.path = s[r].path /\ u.returned = None /\ ~u.absent /\ u.fd = s[r].fd
      /\ u.evidenceOwned = s[r].evidenceOwned /\ u.stack = s[r].stack /\ u.unmet = s[r].unmet
      /\ u.ranLoop = s[r].ranLoop /\ u.bodyFatal = s[r].bodyFatal
  BY <1>1 DEF PublicationGoesOn, SameBut, Fields, PublicationFields
<1>3. RunTypeOK(u)
  BY <1>1, <1>2, Zenon DEF RunTypeOK, PublicationGoesOn
<1>4. s[r].published => s[r].pc \in {"confirm", "cleantemp"}
  BY <1>1, Zenon DEF Course, BeforeLink
<1>5. Course(u)
  BY <1>1, <1>2, <1>4, DayConstants, Zenon
     DEF Course, PublicationGoesOn, Finalizing, Closed, Recorded, BeforeLink, LockHeld, FatalCleanup, Returned
<1>6. KeepsOutputs(r, u)
  BY <1>1, <1>2, <1>4, DayConstants, Zenon
     DEF KeepsOutputs, PublicationGoesOn, Recorded, BeforeLink, FatalCleanup, Returned
<1>7. s[r].pc \in LockHeld /\ u.pc \notin {"validate", "lock"} /\ None \notin {"memory", "envelope"}
  BY DayConstants, Zenon DEF PublicationGoesOn, LockHeld, BeforeLink, Returned
<1> QED BY <1>2, <1>3, <1>5, <1>6, <1>7, FilesAlone, Zenon DEF RunChanges

(* WriteTemp: the temporary file, or no publication after a fatal.          *)
LEMMA WriteTempKeeps ==
    ASSUME DayInv, NEW r \in Run, WriteTemp(r)
    PROVE  DayInv' /\ OutputsKept
<1>1. /\ RunTypeOK(s[r]) /\ Course(s[r]) /\ s[r].pc = "publish"
      /\ UNCHANGED <<lockFile, evidence, summary>>
  BY OfRun, Zenon DEF WriteTemp
<1>2. CASE PublishBlocked(s[r])
  <2> DEFINE u == [s[r] EXCEPT !.pc = "release", !.publication = "NOT_WRITTEN"]
  <2>1. s' = [s EXCEPT ![r] = u]
    BY <1>2, Zenon DEF WriteTemp
  <2>2. PublicationGoesOn(s[r], u)
    BY <1>1, Zenon DEF PublicationGoesOn, SameBut, Fields, PublicationFields, RunTypeOK
  <2> QED BY <1>1, <2>1, <2>2, PublicationMoves, Zenon
<1>3. CASE ~PublishBlocked(s[r])
  <2> DEFINE go == [s[r] EXCEPT !.pc = "link"]
             stop(f) == [s[r] EXCEPT !.pc = "cleantemp", !.primary = f \in {"err", "exc"},
                                     !.uncertain = f = "exc", !.cleanupFatal = f \in Fatal]
  <2>1. PICK f : s' = [s EXCEPT ![r] = IF f = "ok" THEN go ELSE stop(f)]
    BY <1>3, Zenon DEF WriteTemp
  <2>2. CASE f = "ok"
    <3>1. PublicationGoesOn(s[r], go)
      BY <1>1, <1>3, Zenon DEF PublicationGoesOn, SameBut, Fields, PublicationFields, RunTypeOK, PublishBlocked, FatalCleanup
    <3> QED BY <1>1, <2>1, <2>2, <3>1, PublicationMoves, Zenon
  <2>3. CASE f # "ok"
    <3>1. PublicationGoesOn(s[r], stop(f))
      BY <1>1, <1>3, Zenon DEF PublicationGoesOn, SameBut, Fields, PublicationFields, RunTypeOK, PublishBlocked
    <3> HIDE DEF stop
    <3> QED BY <1>1, <2>1, <2>3, <3>1, PublicationMoves, Zenon
  <2> QED BY <2>2, <2>3, Zenon
<1> QED BY <1>2, <1>3, Zenon

(* Confirm: the destination is looked at again and made durable.            *)
LEMMA ConfirmKeeps ==
    ASSUME DayInv, NEW r \in Run, Confirm(r)
    PROVE  DayInv' /\ OutputsKept
<1>1. /\ RunTypeOK(s[r]) /\ s[r].pc = "confirm" /\ UNCHANGED <<lockFile, evidence, summary>>
  BY OfRun, Zenon DEF Confirm
<1> DEFINE t == [s[r] EXCEPT !.pc = "cleantemp"]
           after(f, call) ==
              CASE f = "ok" -> [t EXCEPT !.synced = TRUE]
                [] f = "err" /\ call = "lstat" -> [t EXCEPT !.published = FALSE, !.uncertain = TRUE, !.primary = TRUE]
                [] f = "err" /\ call = "fsync" -> [t EXCEPT !.primary = TRUE]
                [] f = "interrupt" -> [t EXCEPT !.cleanupFatal = TRUE]
                [] OTHER -> t
<1>2. PICK f \in {"ok", "err", "exc", "interrupt"}, call \in {"lstat", "fsync"} :
        s' = [s EXCEPT ![r] = after(f, call)]
  BY Zenon DEF Confirm, Outcome
<1>3. DOMAIN t = Fields /\ t.pc = "cleantemp" /\ SameBut(s[r], t, {"pc"})
  BY <1>1, Zenon DEF RunTypeOK, SameBut, Fields
<1> HIDE DEF t
<1> DEFINE u == after(f, call)
<1>4. /\ DOMAIN u = Fields /\ SameBut(t, u, {"synced", "published", "uncertain", "primary", "cleanupFatal"})
      /\ u.published = t.published \/ u.published = FALSE
      /\ u.cleanupFatal = t.cleanupFatal \/ u.cleanupFatal = TRUE
  <2>1. CASE f = "ok"
    BY <1>3, <2>1, Zenon DEF SameBut, Fields
  <2>2. CASE f = "err" /\ call = "lstat"
    BY <1>3, <2>2, Zenon DEF SameBut, Fields
  <2>3. CASE f = "err" /\ call = "fsync"
    BY <1>3, <2>3, Zenon DEF SameBut, Fields
  <2>4. CASE f = "interrupt"
    BY <1>3, <2>4, Zenon DEF SameBut, Fields
  <2>5. CASE f = "exc"
    BY <1>3, <2>5, Zenon DEF SameBut, Fields
  <2> QED BY <2>1, <2>2, <2>3, <2>4, <2>5, Zenon
<1>5. s' = [s EXCEPT ![r] = u]
  BY <1>2, Zenon
<1> HIDE DEF after, u
<1>6. PublicationGoesOn(s[r], u)
  <2>1. SameBut(s[r], u, PublicationFields)
    BY <1>3, <1>4, Zenon DEF SameBut, Fields, PublicationFields
  <2>2. /\ u.pc = "cleantemp" /\ u.outcome = s[r].outcome /\ u.reason = s[r].reason
        /\ u.publication = s[r].publication /\ (u.published => s[r].published)
        /\ s[r].cleanupFatal => u.cleanupFatal
    BY <1>3, <1>4, Zenon DEF SameBut, Fields
  <2> QED BY <1>1, <1>4, <2>1, <2>2, Zenon DEF PublicationGoesOn, RunTypeOK
<1> QED BY <1>1, <1>5, <1>6, PublicationMoves, Zenon

(* CleanTemp: the publication is named; only WRITTEN leaves a PASS.         *)
LEMMA CleanTempKeeps ==
    ASSUME DayInv, NEW r \in Run, CleanTemp(r)
    PROVE  DayInv' /\ OutputsKept
<1>1. /\ RunTypeOK(s[r]) /\ s[r].pc = "cleantemp" /\ UNCHANGED <<lockFile, evidence, summary>>
  BY OfRun, Zenon DEF CleanTemp
<1> DEFINE reason(pub) == CASE pub = "WRITTEN" -> s[r].reason
                            [] pub = "PUBLISHED_INCOMPLETE" -> "summary_published_incomplete"
                            [] pub = "PUBLICATION_UNCERTAIN" -> "summary_publication_uncertain"
                            [] OTHER -> "summary_failed"
           after(f, pub) == [s[r] EXCEPT !.pc = "release",
                                    !.cleanupFatal = s[r].cleanupFatal \/ f \in Fatal,
                                    !.publication = pub,
                                    !.outcome = IF pub = "WRITTEN" THEN s[r].outcome ELSE "FAIL",
                                    !.reason = reason(pub)]
<1>2. PICK f : s' = [s EXCEPT ![r] = after(f, PublicationOutcome(s[r], f = "ok"))]
  BY Zenon DEF CleanTemp
<1> DEFINE pub == PublicationOutcome(s[r], f = "ok")
<1>3. pub = "WRITTEN" => s[r].published
  <2>1. CASE s[r].published
    BY <2>1, Zenon
  <2>2. CASE ~s[r].published
    <3>1. pub = IF s[r].uncertain THEN "PUBLICATION_UNCERTAIN" ELSE "NOT_WRITTEN"
      BY <2>2, Zenon DEF PublicationOutcome
    <3>2. CASE s[r].uncertain
      BY <3>1, <3>2, Zenon
    <3>3. CASE ~s[r].uncertain
      BY <3>1, <3>3, Zenon
    <3> QED BY <3>2, <3>3, Zenon
  <2> QED BY <2>1, <2>2, Zenon
<1> HIDE DEF pub
<1> DEFINE u == after(f, pub)
<1>4. s' = [s EXCEPT ![r] = u]
  BY <1>2, Zenon DEF pub
<1>5. /\ pub = "WRITTEN" => reason(pub) = s[r].reason
      /\ reason(pub) \in Reason
  <2>1. s[r].reason \in Reason
    BY <1>1, Zenon DEF RunTypeOK
  <2>2. CASE pub = "WRITTEN"
    BY <2>1, <2>2, Zenon
  <2>3. CASE pub = "PUBLISHED_INCOMPLETE"
    BY <2>3, Zenon DEF Reason
  <2>4. CASE pub = "PUBLICATION_UNCERTAIN"
    BY <2>4, Zenon DEF Reason
  <2>5. CASE pub \notin {"WRITTEN", "PUBLISHED_INCOMPLETE", "PUBLICATION_UNCERTAIN"}
    BY <2>5, Zenon DEF Reason
  <2> QED BY <2>2, <2>3, <2>4, <2>5, Zenon
<1> HIDE DEF reason
<1>6. /\ DOMAIN u = Fields /\ SameBut(s[r], u, PublicationFields) /\ u.published = s[r].published
      /\ u.pc = "release" /\ u.publication = pub /\ u.reason = reason(pub)
      /\ pub = "WRITTEN" => u.outcome = s[r].outcome
      /\ pub # "WRITTEN" => u.outcome = "FAIL"
      /\ s[r].cleanupFatal => u.cleanupFatal
  BY <1>1, Zenon DEF RunTypeOK, SameBut, Fields, PublicationFields
<1> HIDE DEF after, u
<1>7. PublicationGoesOn(s[r], u)
  BY <1>1, <1>3, <1>5, <1>6, Zenon DEF PublicationGoesOn
<1> QED BY <1>1, <1>4, <1>7, PublicationMoves, Zenon

(* Link: the summary appears under the run's own name, after its evidence.  *)
LEMMA LinkKeeps ==
    ASSUME DayInv, NEW r \in Run, Link(r)
    PROVE  DayInv' /\ OutputsKept
<1>1. /\ RunTypeOK(s[r]) /\ Course(s[r]) /\ EvidenceIsOwn(r) /\ SummaryIsOwn(r) /\ LockAccounted(r)
      /\ DOMAIN s = Run /\ s[r].pc = "link" /\ s[r].path \in Path
      /\ summary \in [Path -> SummaryRecord \cup {None}] /\ UNCHANGED <<lockFile, evidence>>
  BY OfRun, Zenon DEF Link, RunTypeOK, DayInv, DayTypeOK
<1>2. s[r].returned = None /\ ~s[r].absent /\ ~s[r].published /\ ~FatalCleanup(s[r])
  BY <1>1, Zenon DEF Course, BeforeLink
<1> DEFINE m == [run |-> r, outcome |-> s[r].outcome]
           linked == [s[r] EXCEPT !.pc = "confirm", !.published = TRUE]
           cut == [s[r] EXCEPT !.pc = "cleantemp", !.cleanupFatal = TRUE]
           failed(doubt) == [s[r] EXCEPT !.pc = "cleantemp", !.primary = TRUE, !.uncertain = doubt]
<1>3. PICK lands \in BOOLEAN, doubt \in BOOLEAN :
        /\ lands => summary[s[r].path] = None /\ summary' = [summary EXCEPT ![s[r].path] = m]
        /\ ~lands => summary' = summary
        /\ \/ lands /\ s' = [s EXCEPT ![r] = linked]
           \/ s' = [s EXCEPT ![r] = cut]
           \/ s' = [s EXCEPT ![r] = failed(doubt)]
  <2>1. PICK f \in Outcome({"err", "interrupt", "late"}), landed \in BOOLEAN, readable \in BOOLEAN :
          LET lands == Linkable(s[r].path) /\ (f \in {"ok", "late"} \/ (f = "err" /\ landed)) IN
          /\ f # "err" => landed /\ readable
          /\ Counted(f)
          /\ summary' = IF lands THEN [summary EXCEPT ![s[r].path] = [run |-> r, outcome |-> s[r].outcome]]
                        ELSE summary
          /\ s' = [s EXCEPT ![r] =
              CASE lands /\ (f = "ok" \/ (f = "err" /\ readable)) -> [@ EXCEPT !.pc = "confirm", !.published = TRUE]
                [] f \in Fatal -> [@ EXCEPT !.pc = "cleantemp", !.cleanupFatal = TRUE]
                [] OTHER -> [@ EXCEPT !.pc = "cleantemp", !.primary = TRUE,
                                      !.uncertain = f = "err" /\ (~readable \/ summary'[s[r].path] # None)]]
    BY Zenon DEF Link
  <2> DEFINE doubt == f = "err" /\ (~readable \/ summary'[s[r].path] # None)
             lands == Linkable(s[r].path) /\ (f \in {"ok", "late"} \/ (f = "err" /\ landed))
  <2> HIDE DEF m, linked, cut, failed
  <2>2. /\ lands => summary' = [summary EXCEPT ![s[r].path] = m]
        /\ ~lands => summary' = summary
    BY <2>1, Zenon DEF m
  <2>3. \/ lands /\ s' = [s EXCEPT ![r] = linked]
        \/ s' = [s EXCEPT ![r] = cut]
        \/ s' = [s EXCEPT ![r] = failed(doubt)]
    <3> HIDE DEF doubt
    <3>1. s' = [s EXCEPT ![r] = CASE lands /\ (f = "ok" \/ (f = "err" /\ readable)) -> linked
                                  [] f \in Fatal -> cut
                                  [] OTHER -> failed(doubt)]
      BY <2>1, Zenon DEF doubt, linked, cut, failed
    <3>2. CASE lands /\ (f = "ok" \/ (f = "err" /\ readable))
      BY <3>1, <3>2, Zenon DEF Fatal
    <3>3. CASE ~(lands /\ (f = "ok" \/ (f = "err" /\ readable)))
      <4> HIDE DEF lands
      <4> QED BY <3>1, <3>3, Zenon
    <3> QED BY <3>2, <3>3, Zenon
  <2>4. lands \in BOOLEAN /\ doubt \in BOOLEAN /\ (lands => summary[s[r].path] = None)
    BY Zenon DEF Linkable
  <2> HIDE DEF lands, doubt
  <2> QED BY <2>2, <2>3, <2>4, Zenon
<1>4. m \in SummaryRecord /\ m.run = r /\ m.outcome = s[r].outcome
  BY <1>1, Zenon DEF SummaryRecord, RunTypeOK
<1>5. m # None
  BY <1>4, DayConstants, Zenon
<1>6. /\ lands => summary'[s[r].path] = m /\ \A p \in Path \ {s[r].path} : summary'[p] = summary[p]
      /\ summary[s[r].path] # None => summary'[s[r].path] = summary[s[r].path]
  BY <1>1, <1>3, Zenon
<1>7. FilesStep(r)
  BY <1>1, <1>3, <1>4, <1>5, <1>6 DEF FilesStep, LockMoves, DayInv, DayTypeOK
<1>8. PICK u :
        /\ s' = [s EXCEPT ![r] = u] /\ DOMAIN u = Fields
        /\ SameBut(s[r], u, {"pc", "published", "cleanupFatal", "primary", "uncertain"})
        /\ (u.pc = "confirm" /\ lands) \/ (u.pc = "cleantemp" /\ u.published = s[r].published)
  <2> HIDE DEF m
  <2>1. /\ DOMAIN linked = Fields /\ linked.pc = "confirm"
        /\ SameBut(s[r], linked, {"pc", "published", "cleanupFatal", "primary", "uncertain"})
    BY <1>1, Zenon DEF RunTypeOK, SameBut, Fields
  <2>2. /\ DOMAIN cut = Fields /\ cut.pc = "cleantemp" /\ cut.published = s[r].published
        /\ SameBut(s[r], cut, {"pc", "published", "cleanupFatal", "primary", "uncertain"})
    BY <1>1, Zenon DEF RunTypeOK, SameBut, Fields
  <2>3. /\ DOMAIN failed(doubt) = Fields /\ failed(doubt).pc = "cleantemp" /\ failed(doubt).published = s[r].published
        /\ SameBut(s[r], failed(doubt), {"pc", "published", "cleanupFatal", "primary", "uncertain"})
    BY <1>1, Zenon DEF RunTypeOK, SameBut, Fields
  <2> DEFINE v == failed(doubt)
  <2> HIDE DEF linked, cut, failed, v
  <2>4. DOMAIN v = Fields /\ v.pc = "cleantemp" /\ v.published = s[r].published
        /\ SameBut(s[r], v, {"pc", "published", "cleanupFatal", "primary", "uncertain"})
    BY <2>3, Zenon DEF v
  <2>5. \/ lands /\ s' = [s EXCEPT ![r] = linked]
        \/ s' = [s EXCEPT ![r] = cut]
        \/ s' = [s EXCEPT ![r] = v]
    BY <1>3, Zenon DEF v
  <2>6. CASE lands /\ s' = [s EXCEPT ![r] = linked]
    BY <2>1, <2>6, Zenon
  <2>7. CASE s' = [s EXCEPT ![r] = cut]
    BY <2>2, <2>7, Zenon
  <2>8. CASE s' = [s EXCEPT ![r] = v]
    BY <2>4, <2>8, Zenon
  <2> QED BY <2>5, <2>6, <2>7, <2>8, Zenon
<1> HIDE DEF m, linked, cut, failed
<1>9. /\ u.path = s[r].path /\ u.returned = None /\ ~u.absent /\ u.fd = s[r].fd
      /\ u.outcome = s[r].outcome /\ u.reason = s[r].reason /\ u.publication = s[r].publication
      /\ u.evidenceOwned = s[r].evidenceOwned /\ u.stack = s[r].stack /\ u.unmet = s[r].unmet
      /\ u.ranLoop = s[r].ranLoop /\ u.bodyFatal = s[r].bodyFatal /\ u.release = s[r].release
      /\ s'[r] = u
  BY <1>1, <1>2, <1>8, Zenon DEF SameBut, Fields
<1>10. RunTypeOK(u) /\ RunMoves(r)
  BY <1>1, <1>8, <1>9, Zenon DEF RunTypeOK, RunMoves
<1>11. Course(s[r])'
  BY <1>1, <1>2, <1>8, <1>9, DayConstants, Zenon
     DEF Course, Finalizing, Closed, Recorded, BeforeLink, LockHeld, FatalCleanup, Returned
<1>12. EvidenceIsOwn(r)'
  BY <1>1, <1>2, <1>8, <1>9, Zenon DEF EvidenceIsOwn, Recorded, FatalCleanup
<1>13. s[r].outcome = "PASS" =>
         LET e == evidence[s[r].path] IN
         e # None /\ e.run = r /\ e.final \in PassReason /\ e.closed = TRUE /\ ~s[r].bodyFatal
  BY <1>1, <1>2, Zenon DEF EvidenceIsOwn, Course, Finalizing, Closed, Recorded, FatalCleanup
<1>14. SummaryIsOwn(r)'
  <2>1. summary[s[r].path] # None => summary[s[r].path].run # r
    BY <1>1, Zenon DEF SummaryIsOwn, BeforeLink
  <2>2. s[r].publication = "WRITTEN" => s[r].outcome # "PASS"
    <3>1. [run |-> r, outcome |-> "PASS"] \in SummaryRecord /\ [run |-> r, outcome |-> "PASS"].run = r
      BY Zenon DEF SummaryRecord
    <3>2. [run |-> r, outcome |-> "PASS"] # None
      BY <3>1, DayConstants, Zenon
    <3> QED BY <1>1, <2>1, <3>1, <3>2, Zenon DEF SummaryIsOwn
  <2>3. u.published /\ u.pc \in {"confirm", "cleantemp"} => lands
    BY <1>2, <1>8, Zenon
  <2>4. m = [run |-> r, outcome |-> u.outcome]
    BY <1>9, Zenon DEF m
  <2>5. CASE lands
    <3>1. s'[r] = u /\ summary'[u.path] = m /\ evidence' = evidence
      BY <1>1, <1>3, <1>6, <1>9, <2>5, Zenon
    <3>2. u.pc \notin BeforeLink
      BY <1>8, Zenon DEF BeforeLink
    <3>3. m.outcome = "PASS" =>
             LET e == evidence'[u.path] IN
             e # None /\ e.run = r /\ e.final \in PassReason /\ e.closed = TRUE /\ ~u.bodyFatal
      BY <1>4, <1>9, <1>13, <3>1, Zenon
    <3>4. ~(u.publication = "WRITTEN" /\ u.outcome = "PASS")
      BY <1>9, <2>2, Zenon
    <3> QED BY <2>4, <3>1, <3>2, <3>3, <3>4, Zenon DEF SummaryIsOwn
  <2>6. CASE ~lands
    <3>1. s'[r] = u /\ summary'[u.path] = summary[s[r].path] /\ evidence' = evidence
      BY <1>1, <1>3, <1>9, <2>6, Zenon
    <3> QED BY <1>9, <2>1, <2>2, <2>3, <2>6, <3>1, Zenon DEF SummaryIsOwn
  <2> QED BY <2>5, <2>6, Zenon
<1>15. LockAccounted(r)'
  BY <1>1, <1>8, <1>9, DayConstants, Zenon DEF LockAccounted, LockIsOf, LockHeld, BeforeLink, Returned
<1> QED BY <1>7, <1>10, <1>11, <1>12, <1>14, <1>15, OneRunMoves, Zenon DEF RunInv

(* A step of the release: the outputs stay, and a run that gets to its      *)
(* verdict knows its lock gone or has something to report.                  *)
ReleaseFields == {"pc", "fd", "fdClosed", "cleanupFatal", "release", "absent"}

ReleaseGoesOn(t, u) ==
    /\ DOMAIN u = Fields /\ SameBut(t, u, ReleaseFields)
    /\ u.pc \in {"verdict", "unlink"}
    /\ u.fd = None
    /\ t.cleanupFatal => u.cleanupFatal
    /\ u.absent => u.pc = "verdict"
    /\ u.pc = "verdict" => u.absent \/ u.release # None \/ u.cleanupFatal

LEMMA ReleaseMoves ==
    ASSUME DayInv, NEW r \in Run, s[r].pc \in {"release", "unlink"}, NEW u,
           ReleaseGoesOn(s[r], u), s' = [s EXCEPT ![r] = u],
           UNCHANGED <<evidence, summary>>, LockMoves(r),
           u.absent => lockFile' = None, u.pc = "unlink" => lockFile' = lockFile
    PROVE  DayInv' /\ OutputsKept
<1>1. /\ RunTypeOK(s[r]) /\ Course(s[r]) /\ LockAccounted(r) /\ DOMAIN s = Run
      /\ s[r].returned = None
  BY OfRun, Zenon DEF Course
<1>2. /\ u.path = s[r].path /\ u.returned = None /\ u.outcome = s[r].outcome /\ u.reason = s[r].reason
      /\ u.evidenceOwned = s[r].evidenceOwned /\ u.stack = s[r].stack /\ u.unmet = s[r].unmet
      /\ u.ranLoop = s[r].ranLoop /\ u.bodyFatal = s[r].bodyFatal
      /\ u.published = s[r].published /\ u.publication = s[r].publication
  BY <1>1, Zenon DEF ReleaseGoesOn, SameBut, Fields, ReleaseFields
<1>3. RunTypeOK(u)
  BY <1>1, <1>2, Zenon DEF RunTypeOK, ReleaseGoesOn
<1>4. Course(u)
  BY <1>1, <1>2, DayConstants, Zenon
     DEF Course, ReleaseGoesOn, Finalizing, Closed, Recorded, BeforeLink, LockHeld, FatalCleanup, Returned
<1>5. KeepsOutputs(r, u)
  BY <1>1, <1>2, DayConstants, Zenon
     DEF KeepsOutputs, ReleaseGoesOn, Recorded, BeforeLink, FatalCleanup, Returned
<1>6. LockAccounted(r)'
  <2>1. s'[r] = u
    BY <1>1, Zenon
  <2> QED BY <1>1, <1>2, <2>1, DayConstants, Zenon
          DEF LockAccounted, LockIsOf, ReleaseGoesOn, LockHeld, BeforeLink, Returned
<1> QED BY <1>2, <1>3, <1>4, <1>5, <1>6, OutputsAlone, Zenon DEF RunChanges

(* Release: the fd closed, the path looked at.                              *)
LEMMA ReleaseKeeps ==
    ASSUME DayInv, NEW r \in Run, Release(r)
    PROVE  DayInv' /\ OutputsKept
<1>1. /\ RunTypeOK(s[r]) /\ Course(s[r]) /\ s[r].pc = "release" /\ UNCHANGED <<lockFile, evidence, summary>>
      /\ lockFile \in LockRecord \cup {None}
  BY OfRun, Zenon DEF Release, DayInv, DayTypeOK
<1>2. ~s[r].absent /\ LockMoves(r)
  BY <1>1, Zenon DEF Course, LockMoves
<1>3. None \notin ReleaseReason
  BY DayConstants, Zenon
<1>4. PICK f \in Outcome({"err", "interrupt"}), call \in {"close", "lstat"} :
        LET t == FdClosed(s[r], f, call) IN
        s' = [s EXCEPT ![r] =
              IF f # "ok" /\ call = "lstat" THEN [t EXCEPT !.pc = "verdict"]
              ELSE IF lockFile = None THEN [t EXCEPT !.pc = "verdict", !.absent = TRUE]
              ELSE IF IdentityMatches(s[r]) THEN [t EXCEPT !.pc = "unlink"]
              ELSE [t EXCEPT !.pc = "verdict",
                             !.release = IF t.release = None THEN "runtime_lock_identity_mismatch"
                                         ELSE t.release]]
  BY Zenon DEF Release
<1> DEFINE v == FdClosed(s[r], f, call)
           u == IF f # "ok" /\ call = "lstat" THEN [v EXCEPT !.pc = "verdict"]
                ELSE IF lockFile = None THEN [v EXCEPT !.pc = "verdict", !.absent = TRUE]
                ELSE IF IdentityMatches(s[r]) THEN [v EXCEPT !.pc = "unlink"]
                ELSE [v EXCEPT !.pc = "verdict",
                               !.release = IF v.release = None THEN "runtime_lock_identity_mismatch"
                                           ELSE v.release]
<1>5. /\ DOMAIN v = Fields /\ SameBut(s[r], v, {"fd", "fdClosed", "cleanupFatal", "release"}) /\ v.fd = None
      /\ s[r].cleanupFatal => v.cleanupFatal
      /\ f = "interrupt" => v.cleanupFatal
      /\ f = "err" => v.release \in ReleaseReason
  BY <1>1, Zenon DEF FdClosed, RunTypeOK, SameBut, Fields, Fatal, ReleaseReason
<1>6. s' = [s EXCEPT ![r] = u] /\ f \in {"ok", "err", "interrupt"}
  BY <1>4, Zenon DEF Outcome
<1> HIDE DEF v
<1>7. ~v.absent
  BY <1>2, <1>5, Zenon DEF SameBut, Fields
<1>8. /\ DOMAIN u = Fields /\ SameBut(v, u, {"pc", "absent", "release"})
      /\ u.pc = "unlink" => ~u.absent
      /\ u.pc \in {"verdict", "unlink"}
      /\ u.absent => u.pc = "verdict" /\ lockFile = None
      /\ u.pc = "verdict" => \/ u.absent = TRUE
                             \/ u.release # None
                             \/ f = "interrupt"
  <2>1. CASE f # "ok" /\ call = "lstat"
    BY <1>3, <1>5, <1>6, <1>7, <2>1, Zenon DEF SameBut, Fields
  <2>2. CASE ~(f # "ok" /\ call = "lstat") /\ lockFile = None
    BY <1>5, <1>7, <2>2, Zenon DEF SameBut, Fields
  <2>3. CASE ~(f # "ok" /\ call = "lstat") /\ lockFile # None /\ IdentityMatches(s[r])
    BY <1>5, <1>7, <2>3, Zenon DEF SameBut, Fields
  <2>4. CASE ~(f # "ok" /\ call = "lstat") /\ lockFile # None /\ ~IdentityMatches(s[r])
    <3> DEFINE w == [v EXCEPT !.pc = "verdict",
                              !.release = IF v.release = None THEN "runtime_lock_identity_mismatch"
                                          ELSE v.release]
    <3>1. u = w
      BY <2>4, Zenon
    <3>2. DOMAIN w = Fields /\ SameBut(v, w, {"pc", "absent", "release"}) /\ w.pc = "verdict" /\ w.absent = v.absent
      BY <1>5, Zenon DEF SameBut, Fields
    <3>3. w.release # None
      BY <1>3, <1>5, Zenon DEF Fields, ReleaseReason
    <3> HIDE DEF u, w
    <3> QED BY <1>7, <3>1, <3>2, <3>3, Zenon
  <2> QED BY <2>1, <2>2, <2>3, <2>4, Zenon
<1> HIDE DEF u
<1>9. ReleaseGoesOn(s[r], u)
  <2>1. SameBut(s[r], u, ReleaseFields) /\ u.fd = None /\ u.cleanupFatal = v.cleanupFatal
    BY <1>5, <1>8, Zenon DEF SameBut, Fields, ReleaseFields
  <2> QED BY <1>5, <1>8, <2>1, Zenon DEF ReleaseGoesOn
<1> QED BY <1>1, <1>2, <1>6, <1>8, <1>9, ReleaseMoves, Zenon

(* Unlink: with a careful operator what is at the path is this run's lock.  *)
LEMMA UnlinkKeeps ==
    ASSUME DayInv, NEW r \in Run, Unlink(r)
    PROVE  DayInv' /\ OutputsKept
<1>1. /\ RunTypeOK(s[r]) /\ Course(s[r]) /\ LockAccounted(r) /\ s[r].pc = "unlink"
      /\ UNCHANGED <<evidence, summary>> /\ lockFile \in LockRecord \cup {None}
  BY OfRun, Zenon DEF Unlink, DayInv, DayTypeOK
<1> DEFINE after(f) ==
              [s[r] EXCEPT !.pc = "verdict",
                           !.absent = f = "ok" \/ lockFile = None,
                           !.cleanupFatal = s[r].cleanupFatal \/ f \in Fatal,
                           !.release = IF s[r].release = None /\ f = "err" /\ lockFile # None
                                       THEN "runtime_lock_release_failed" ELSE s[r].release]
<1>2. PICK f \in Outcome({"err", "interrupt"}) :
        /\ lockFile' = IF f = "ok" THEN None ELSE lockFile
        /\ s' = [s EXCEPT ![r] = after(f)]
  BY Zenon DEF Unlink
<1> DEFINE u == after(f)
<1>3. None # "runtime_lock_release_failed"
  BY DayConstants, Zenon DEF ReleaseReason
<1>4. /\ DOMAIN u = Fields /\ SameBut(s[r], u, {"pc", "cleanupFatal", "release", "absent"})
      /\ u.pc = "verdict"
      /\ u.absent = (f = "ok" \/ lockFile = None)
      /\ s[r].cleanupFatal \/ f = "interrupt" => u.cleanupFatal
      /\ f = "err" /\ lockFile # None => u.release # None
  BY <1>1, <1>3, Zenon DEF RunTypeOK, SameBut, Fields, Fatal
<1>5. s' = [s EXCEPT ![r] = u] /\ f \in {"ok", "err", "interrupt"}
  BY <1>2, Zenon DEF Outcome
<1> HIDE DEF after, u
<1>6. LockMoves(r)
  BY <1>1, <1>2, Zenon DEF LockMoves, LockAccounted, LockIsOf, LockHeld
<1>7. SameBut(s[r], u, ReleaseFields) /\ u.fd = s[r].fd
  BY <1>4, Zenon DEF SameBut, Fields, ReleaseFields
<1>8. s[r].fd = None
  BY <1>1, Zenon DEF Course
<1>9. ReleaseGoesOn(s[r], u)
  BY <1>4, <1>5, <1>7, <1>8, Zenon DEF ReleaseGoesOn
<1> QED BY <1>1, <1>2, <1>4, <1>5, <1>6, <1>9, ReleaseMoves, Zenon

(* Verdict: a run that returns with its lock in place has said so.          *)
LEMMA VerdictKeeps ==
    ASSUME DayInv, NEW r \in Run, Verdict(r)
    PROVE  DayInv' /\ OutputsKept
<1>1. /\ RunTypeOK(s[r]) /\ Course(s[r]) /\ LockAccounted(r) /\ s[r].pc = "verdict"
      /\ UNCHANGED <<lockFile, evidence, summary>>
  BY OfRun, Zenon DEF Verdict
<1>2. s[r].returned = None /\ s[r].fd = None
  BY <1>1, Zenon DEF Course, LockHeld, BeforeLink
<1>3. CASE FatalCleanup(s[r])
  <2>1. s' = [s EXCEPT ![r] = Raised(s[r])]
    BY <1>3, Zenon DEF Verdict
  <2>2. "completed" \in Reason /\ Raised(s[r]) # Refused(s[r], "completed")
    <3>1. Raised(s[r]).returned = "raised"
      BY <1>1, Zenon DEF Raised, RunTypeOK, Fields
    <3>2. Refused(s[r], "completed").returned = "memory"
      BY <1>1, Zenon DEF Refused, RunTypeOK, Fields
    <3> QED BY <3>1, <3>2, Zenon DEF Reason
  <2> QED BY <1>1, <1>2, <2>1, <2>2, EndsQuietly, Zenon
<1>4. CASE ~FatalCleanup(s[r])
  <2> DEFINE u == [s[r] EXCEPT !.pc = "ended", !.returned = "envelope",
                               !.outcome = IF s[r].outcome = "PASS" /\ ~IsCleanPass(s[r]) THEN "FAIL"
                                           ELSE s[r].outcome]
  <2>1. s' = [s EXCEPT ![r] = u]
    BY <1>4, Zenon DEF Verdict
  <2>2. /\ DOMAIN u = Fields /\ SameBut(s[r], u, {"pc", "returned", "outcome"})
        /\ u.pc = "ended" /\ u.returned = "envelope" /\ u.outcome \in {s[r].outcome, "FAIL"}
    BY <1>1, Zenon DEF RunTypeOK, SameBut, Fields
  <2> HIDE DEF u
  <2>3. /\ u.path = s[r].path /\ u.reason = s[r].reason /\ u.fd = None /\ u.absent = s[r].absent
        /\ u.evidenceOwned = s[r].evidenceOwned /\ u.stack = s[r].stack /\ u.unmet = s[r].unmet
        /\ u.ranLoop = s[r].ranLoop /\ u.bodyFatal = s[r].bodyFatal /\ u.cleanupFatal = s[r].cleanupFatal
        /\ u.published = s[r].published /\ u.publication = s[r].publication /\ u.release = s[r].release
    BY <1>2, <2>2, Zenon DEF SameBut, Fields
  <2>4. RunTypeOK(u)
    BY <1>1, <2>2, <2>3, Zenon DEF RunTypeOK
  <2>5. Course(u)
    BY <1>1, <2>2, <2>3, Zenon DEF Course, Finalizing, Closed, Recorded, BeforeLink, FatalCleanup
  <2>6. KeepsOutputs(r, u)
    BY <1>1, <1>4, <2>2, <2>3, Zenon DEF KeepsOutputs, Recorded, BeforeLink, FatalCleanup
  <2>7. /\ u.absent => ~LockIsOf(r)
        /\ LockIsOf(r) => u.release # None
    BY <1>1, <1>4, <2>3, Zenon DEF Course, LockAccounted, FatalCleanup
  <2>8. u.pc \notin LockHeld /\ u.pc \notin {"validate", "lock"}
    BY <2>2, Zenon DEF LockHeld, BeforeLink
  <2> QED BY <1>1, <2>1, <2>3, <2>4, <2>5, <2>6, <2>7, <2>8, FilesAlone, Zenon DEF RunChanges
<1> QED BY <1>3, <1>4, Zenon

(* Kill: the files stay as they are, and nothing is returned.               *)
LEMMA KillKeeps ==
    ASSUME DayInv, NEW r \in Run, Kill(r)
    PROVE  DayInv' /\ OutputsKept
<1> DEFINE u == [s[r] EXCEPT !.pc = "killed", !.fd = None]
<1>1. /\ RunTypeOK(s[r]) /\ Course(s[r]) /\ LockAccounted(r) /\ s[r].pc \notin {"ended", "killed"}
      /\ UNCHANGED <<lockFile, evidence, summary>> /\ s' = [s EXCEPT ![r] = u]
  BY OfRun, Zenon DEF Kill, Over
<1>2. s[r].returned = None /\ None \notin Returned
  BY <1>1, DayConstants, Zenon DEF Course
<1>3. DOMAIN u = Fields /\ SameBut(s[r], u, {"pc", "fd"}) /\ u.pc = "killed" /\ u.fd = None
  BY <1>1, Zenon DEF RunTypeOK, SameBut, Fields
<1> HIDE DEF u
<1>4. /\ u.path = s[r].path /\ u.reason = s[r].reason /\ u.absent = s[r].absent /\ u.outcome = s[r].outcome
      /\ u.evidenceOwned = s[r].evidenceOwned /\ u.stack = s[r].stack /\ u.unmet = s[r].unmet
      /\ u.ranLoop = s[r].ranLoop /\ u.bodyFatal = s[r].bodyFatal /\ u.cleanupFatal = s[r].cleanupFatal
      /\ u.published = s[r].published /\ u.publication = s[r].publication /\ u.returned = None
  BY <1>2, <1>3, Zenon DEF SameBut, Fields
<1>5. RunTypeOK(u)
  BY <1>1, <1>3, <1>4, Zenon DEF RunTypeOK
<1>6. Course(u)
  BY <1>1, <1>2, <1>3, <1>4, Zenon DEF Course, Finalizing, Closed, Recorded, BeforeLink, Returned
<1>7. KeepsOutputs(r, u)
  BY <1>1, <1>2, <1>3, <1>4, Zenon DEF KeepsOutputs, Recorded, BeforeLink, Returned
<1>8. /\ u.absent => ~LockIsOf(r)
      /\ u.returned \notin {"memory", "envelope"}
      /\ u.pc \notin LockHeld /\ u.pc \notin {"validate", "lock"}
  BY <1>1, <1>2, <1>3, <1>4, Zenon DEF LockAccounted, LockHeld, BeforeLink, Returned
<1> QED BY <1>1, <1>4, <1>5, <1>6, <1>7, <1>8, FilesAlone, Zenon DEF RunChanges

(* OperatorUnlocks: a careful operator takes no lock from a live run.       *)
LEMMA OperatorKeeps ==
    ASSUME DayInv, OperatorUnlocks
    PROVE  DayInv' /\ OutputsKept
<1>1. lockFile # None /\ lockFile' = None /\ UNCHANGED <<evidence, summary, s>>
  BY Zenon DEF OperatorUnlocks
<1>2. DayTypeOK' /\ OutputsKept
  BY <1>1, Zenon DEF DayInv, DayTypeOK, OutputsKept
<1>3. ASSUME NEW r \in Run
      PROVE  RunInv(r)'
  <2>1. Course(s[r]) /\ EvidenceIsOwn(r) /\ SummaryIsOwn(r) /\ LockAccounted(r)
    BY OfRun
  <2>2. Course(s[r])'
    BY <1>1, <2>1, Zenon
  <2>3. EvidenceIsOwn(r)'
    BY <1>1, <2>1, Zenon DEF EvidenceIsOwn
  <2>4. SummaryIsOwn(r)'
    BY <1>1, <2>1, Zenon DEF SummaryIsOwn
  <2>5. OperatorCareful => s[r].pc \notin LockHeld
    BY <2>1, Zenon DEF OperatorUnlocks, Over, LockAccounted, LockIsOf, LockHeld, BeforeLink
  <2>6. LockAccounted(r)'
    BY <1>1, <2>5, Zenon DEF LockAccounted, LockIsOf
  <2> QED BY <2>2, <2>3, <2>4, <2>6, Zenon DEF RunInv
<1> QED BY <1>1, <1>2, <1>3, Zenon DEF DayInv

-----------------------------------------------------------------------------
LEMMA DayStarts == Init => DayInv
<1> SUFFICES ASSUME Init PROVE DayInv
  OBVIOUS
<1>1. PICK path \in [Run -> Path], reuse \in [Run -> BOOLEAN] :
        s = [r \in Run |-> NewRun(path[r], reuse[r])]
  BY Zenon DEF Init
<1>2. lockFile = None /\ evidence = [p \in Path |-> None] /\ summary = [p \in Path |-> None]
  BY Zenon DEF Init
<1>3. None \notin Returned \cup Publication
  BY DayConstants, Zenon
<1>4. ASSUME NEW r \in Run
      PROVE  RunTypeOK(s[r]) /\ RunInv(r)
  <2> DEFINE t == NewRun(path[r], reuse[r])
  <2>1. s[r] = t /\ path[r] \in Path
    BY <1>1, Zenon
  <2>2. /\ DOMAIN t = Fields /\ t.pc = "validate" /\ t.path = path[r] /\ t.outcome = "PASS"
        /\ t.reason = "completed" /\ t.fd = None /\ t.returned = None /\ t.publication = None
        /\ t.unmet = {} /\ ~t.evidenceOwned /\ ~t.published /\ ~t.absent
    BY Zenon DEF NewRun, Fields
  <2> HIDE DEF t
  <2>3. RunTypeOK(t)
    BY <2>1, <2>2, Zenon DEF RunTypeOK, Reason
  <2>4. Course(t)
    BY <1>3, <2>2, Zenon DEF Course, PassReason, Finalizing, Closed, Recorded, Returned
  <2>5. EvidenceIsOwn(r) /\ SummaryIsOwn(r) /\ LockAccounted(r)
    BY <1>2, <1>3, <2>1, <2>2, Zenon
       DEF EvidenceIsOwn, SummaryIsOwn, LockAccounted, LockIsOf, Recorded, Returned, Publication,
           LockHeld, BeforeLink
  <2> QED BY <2>1, <2>3, <2>4, <2>5, Zenon DEF RunInv
<1> QED BY <1>1, <1>2, <1>4, Zenon DEF DayInv, DayTypeOK

LEMMA DaySteps ==
    ASSUME DayInv, [Next]_vars
    PROVE  DayInv' /\ (OutputsKept \/ UNCHANGED vars)
<1>1. CASE UNCHANGED vars
  <2>1. DayTypeOK'
    BY <1>1, Zenon DEF vars, DayInv, DayTypeOK
  <2>2. ASSUME NEW r \in Run
        PROVE  RunInv(r)'
    <3>1. s' = s /\ evidence' = evidence /\ summary' = summary /\ lockFile' = lockFile
      BY <1>1, Zenon DEF vars
    <3>2. RunInv(r)
      BY Zenon DEF DayInv
    <3>3. Course(s[r])'
      BY <3>1, <3>2, Zenon DEF RunInv
    <3>4. EvidenceIsOwn(r)'
      BY <3>1, <3>2, Zenon DEF RunInv, EvidenceIsOwn
    <3>5. SummaryIsOwn(r)'
      BY <3>1, <3>2, Zenon DEF RunInv, SummaryIsOwn
    <3>6. LockAccounted(r)'
      BY <3>1, <3>2, Zenon DEF RunInv, LockAccounted, LockIsOf
    <3> QED BY <3>3, <3>4, <3>5, <3>6, Zenon DEF RunInv
  <2>3. (\A p \in Path : summary[p] # None => s[summary[p].run].path = p)'
    BY <1>1, Zenon DEF vars, DayInv
  <2>4. DayInv'
    BY <2>1, <2>2, <2>3, Zenon DEF DayInv
  <2> QED BY <1>1, <2>4, Zenon
<1>2. CASE OperatorUnlocks
  BY <1>2, OperatorKeeps, Zenon
<1>3. ASSUME NEW r \in Run, Kill(r)
      PROVE  DayInv' /\ OutputsKept
  BY <1>3, KillKeeps, Zenon
<1>4. ASSUME NEW r \in Run, RunStep(r)
      PROVE  DayInv' /\ OutputsKept
  <2>1. CASE Validate(r) \/ LockOpen(r) \/ LockWrite(r) \/ LockAbort(r)
    BY <2>1, ValidateKeeps, LockOpenKeeps, LockWriteKeeps, LockAbortKeeps, Zenon
  <2>2. CASE OpenEvidence(r) \/ OpenStack(r) \/ Handler(r)
    BY <2>2, OpenEvidenceKeeps, OpenStackKeeps, HandlerKeeps, Zenon
  <2>3. CASE StartupOnly(r) \/ RunLoop(r) \/ StopLoop(r)
    BY <2>3, BodyEndsKeeps, Zenon
  <2>4. CASE BodyRefuses(r) \/ BodyFails(r)
    BY <2>4, BodyCutKeeps, Zenon
  <2>5. CASE CloseStack(r) \/ LastRecord(r) \/ WriteTemp(r) \/ Link(r) \/ Confirm(r) \/ CleanTemp(r)
    BY <2>5, CloseStackKeeps, LastRecordKeeps, WriteTempKeeps, LinkKeeps, ConfirmKeeps, CleanTempKeeps, Zenon
  <2>6. CASE Release(r) \/ Unlink(r) \/ Verdict(r)
    BY <2>6, ReleaseKeeps, UnlinkKeeps, VerdictKeeps, Zenon
  <2> QED BY <1>4, <2>1, <2>2, <2>3, <2>4, <2>5, <2>6, Zenon DEF RunStep
<1> QED BY <1>1, <1>2, <1>3, <1>4 DEF Next

(* The accounts of all the runs stay true, whatever call fails, whoever is  *)
(* killed, however many runs share the directory and the outputs, and       *)
(* whether or not the operator is careful.                                  *)
THEOREM RunsAccounted == Spec => []DayInv
<1>1. Init => DayInv
  BY DayStarts, Zenon
<1>2. DayInv /\ [Next]_vars => DayInv'
  BY DaySteps, Zenon
<1> QED BY <1>1, <1>2, PTL DEF Spec

(* What the accounts say to someone who looks at the files.                 *)
LEMMA AccountsTellTheTruth ==
    ASSUME DayInv
    PROVE  CleanPassIsTrue /\ PassHasEvidence /\ ResidueReported
<1>1. CleanPassIsTrue
  <2> SUFFICES ASSUME NEW r \in Run, s[r].returned = "envelope", IsCleanPass(s[r])
               PROVE  /\ summary[s[r].path] = [run |-> r, outcome |-> "PASS"]
                      /\ evidence[s[r].path] = [run |-> r, final |-> s[r].reason, closed |-> TRUE]
                      /\ lockFile # None => lockFile.by # r
                      /\ ~s[r].stack
                      /\ s[r].unmet = {}
    BY Zenon DEF CleanPassIsTrue
  <2>1. /\ RunTypeOK(s[r]) /\ Course(s[r]) /\ EvidenceIsOwn(r) /\ SummaryIsOwn(r) /\ LockAccounted(r)
        /\ evidence[s[r].path] \in EvidenceRecord \cup {None}
    BY OfRun, Zenon DEF DayInv, DayTypeOK, RunTypeOK
  <2>2. /\ s[r].outcome = "PASS" /\ s[r].publication = "WRITTEN" /\ s[r].absent
        /\ ~FatalCleanup(s[r])
    BY Zenon DEF IsCleanPass, CleanupOutcome
  <2>3. /\ evidence[s[r].path].final = s[r].reason /\ evidence[s[r].path].closed = TRUE
        /\ evidence[s[r].path] # None /\ evidence[s[r].path].run = r
    BY <2>1, <2>2, Zenon DEF EvidenceIsOwn, Course, Finalizing, Closed, Recorded, FatalCleanup
  <2>4. evidence[s[r].path] = [run |-> r, final |-> s[r].reason, closed |-> TRUE]
    BY <2>1, <2>3, Zenon DEF EvidenceRecord
  <2> QED BY <2>1, <2>2, <2>4, Zenon
          DEF SummaryIsOwn, LockAccounted, LockIsOf, Course, Closed, Recorded, FatalCleanup
<1>2. PassHasEvidence
  <2> SUFFICES ASSUME NEW p \in Path, summary[p] # None, summary[p].outcome = "PASS"
               PROVE  /\ evidence[p] # None /\ evidence[p].run = summary[p].run
                      /\ evidence[p].final \in {"completed", "startup_only"} /\ evidence[p].closed
                      /\ ~s[summary[p].run].bodyFatal
    BY Zenon DEF PassHasEvidence
  <2> DEFINE q == summary[p].run
  <2>1. q \in Run /\ s[q].path = p
    BY Zenon DEF DayInv, DayTypeOK, SummaryRecord
  <2>2. SummaryIsOwn(q)
    BY <2>1, OfRun, Zenon
  <2> QED BY <2>1, <2>2, Zenon DEF SummaryIsOwn, PassReason
<1>3. ResidueReported
  BY OfRun, Zenon DEF ResidueReported, LockAccounted, LockIsOf
<1> QED BY <1>1, <1>2, <1>3, Zenon

(* Exit 0 is true, no PASS is ahead of its evidence and a lock left behind  *)
(* is reported, in every reachable state (is_clean_pass, _finalize_run,     *)
(* PilotRuntimeLock.release), also when an operator removes the lock of a   *)
(* live run.                                                                *)
THEOREM FilesTellTheTruth == Spec => [](CleanPassIsTrue /\ PassHasEvidence /\ ResidueReported)
BY RunsAccounted, AccountsTellTheTruth, PTL

(* No step of any run replaces evidence or a summary that is there          *)
(* (EvidenceRecorder.open, _publish_summary_create_new).                    *)
THEOREM OutputsNeverReplaced == Spec => [][OutputsKept]_vars
<1>1. DayInv /\ [Next]_vars => [OutputsKept]_vars
  BY DaySteps, Zenon
<1> QED BY <1>1, RunsAccounted, PTL DEF Spec

LEMMA CarefulRunsAlone ==
    ASSUME DayInv, OperatorCareful
    PROVE  OneRunHolds
<1> SUFFICES ASSUME NEW q \in Run, NEW r \in Run, Holds(q), Holds(r) PROVE q = r
  BY Zenon DEF OneRunHolds
<1>1. \A w \in Run : Holds(w) => LockIsOf(w)
  BY OfRun, Zenon DEF Holds, Over, Course, LockAccounted
<1> QED BY <1>1, Zenon DEF LockIsOf

(* With an operator who removes only the locks of runs that are over, one   *)
(* run at a time has the databases: the lock file is the run's own from its *)
(* create-new open to its unlink.                                           *)
THEOREM PaperDayHonest ==
    ASSUME OperatorCareful
    PROVE  Spec => PaperDayTellsTheTruth
<1>1. DayInv => OneRunHolds /\ CleanPassIsTrue /\ PassHasEvidence /\ ResidueReported
  BY CarefulRunsAlone, AccountsTellTheTruth, Zenon
<1> QED BY <1>1, RunsAccounted, OutputsNeverReplaced, PTL DEF PaperDayTellsTheTruth

=============================================================================
