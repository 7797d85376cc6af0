------------------------------ MODULE FastLoopCli ------------------------------
(***************************************************************************)
(* ops/run_paper_fast_loop.py: one command line with twelve modes.  A run   *)
(* resolves its mode, refuses arguments that do not belong to it, reads     *)
(* standard input and the settings as the mode needs them, calls one        *)
(* function of the composition and reports.                                 *)
(*                                                                         *)
(* args      the command line: mode flags, --json, --config, the maximum    *)
(*           age and the manual confirmations                               *)
(* touched   what the run has read: stdin, config, environ, clock, state    *)
(* result    what the called function returned, or None                     *)
(* out       the report, or None; exit is "raised" when an exception leaves *)
(*           main                                                           *)
(***************************************************************************)
EXTENDS Integers, FiniteSets

CONSTANTS
    None,
    CommandLines    \* the command lines tried

VARIABLES args, pc, touched, result, out, exit

vars == <<args, pc, touched, result, out, exit>>

Confirmations == {"declared", "writers_stopped", "live_forbidden"}

VerifyReceipt == "verify-precheck-receipt"
VerifyIntent == "verify-operator-approval-intent"
VerifyEligibility == "verify-approval-consumption-eligibility-artifact"
Freshness == "freshness-preflight-activation-candidate"
BuildIntent == "build-operator-approval-intent"
Revalidate == "revalidate-activation-candidate"
FinalPreflight == "final-preflight-activation-candidate"

Modes == {"run", "inspect-existing", "precheck-runtime", VerifyReceipt, Revalidate, FinalPreflight,
          Freshness, BuildIntent, VerifyIntent, VerifyEligibility, "replay", "validate-only"}

VerifyModes == {VerifyReceipt, VerifyIntent, VerifyEligibility}
ReceiptModes == {Revalidate, FinalPreflight, Freshness, BuildIntent}

(* Modes whose reports are always JSON and have a shape of their own. *)
StrictModes == {BuildIntent, VerifyIntent, VerifyEligibility}

ResolveMode(a) == IF a.modes = {} THEN "validate-only" ELSE CHOOSE m \in a.modes : TRUE

Mode == ResolveMode(args)

Report(outcome, mode, reason) ==
    [outcome |-> outcome, mode |-> mode, reason |-> reason, digest |-> FALSE, json |-> args.json \/ mode \in StrictModes]

(* The report of a failure before the work: its outcome depends on the mode. *)
InputFail(mode, reason) ==
    Report(CASE mode \in {VerifyReceipt, VerifyIntent} -> "INVALID"
             [] mode \in {Revalidate, FinalPreflight, Freshness} -> "NO_GO"
             [] OTHER -> "FAIL", mode, reason)

-----------------------------------------------------------------------------
(* The arguments.                                                           *)

ModeConflict(a) ==
    InputFail(CASE VerifyEligibility \in a.modes -> VerifyEligibility
                [] VerifyEligibility \notin a.modes /\ VerifyIntent \in a.modes -> VerifyIntent
                [] a.modes \cap {VerifyEligibility, VerifyIntent} = {} /\ BuildIntent \in a.modes -> BuildIntent
                [] OTHER -> None,
              "mode_conflict")

ForeignArguments(a) == a.config # None \/ a.maxAge # None \/ a.confirms # {}

(* Mutant: only the verify modes refuse confirmations. *)
StrayConfirmationInVerify(a) == ResolveMode(a) \in VerifyModes /\ a.confirms # {}

StrayConfirmation(a) == ResolveMode(a) # BuildIntent /\ a.confirms # {}

StrayMaxAge(a) == ResolveMode(a) \notin {Freshness, BuildIntent} /\ a.maxAge # None

ParseMaxAge(raw) == IF raw = None THEN "input_missing" ELSE IF raw = "other" THEN "input_invalid" ELSE None

(* What the modes with a policy refuse before they read the receipt. *)
Unprepared(a) ==
    LET mode == ResolveMode(a)
    IN  IF mode \notin {Freshness, BuildIntent} THEN None
        ELSE IF ParseMaxAge(a.maxAge) # None THEN InputFail(mode, ParseMaxAge(a.maxAge))
        ELSE IF mode = BuildIntent /\ a.confirms # Confirmations THEN InputFail(mode, "confirmation_missing")
        ELSE None

(* What main refuses before it reads anything: None, or the report. *)
Refusal(a) ==
    LET mode == ResolveMode(a)
    IN  IF "run" \in a.modes THEN Report("NO_GO", "run", "live_run_not_implemented")
        ELSE IF Cardinality(a.modes) > 1 THEN ModeConflict(a)
        ELSE IF mode \in StrictModes /\ ~a.json THEN InputFail(mode, "json_required")
        ELSE IF mode \in {VerifyIntent, VerifyEligibility} /\ ForeignArguments(a)
             THEN InputFail(mode, "argument_not_applicable")
        ELSE IF StrayConfirmation(a) \/ StrayMaxAge(a) THEN Report("FAIL", None, "argument_not_applicable")
        ELSE IF mode = BuildIntent /\ a.config = None THEN InputFail(mode, "config_required")
        ELSE Unprepared(a)

-----------------------------------------------------------------------------
(* The steps of main.                                                       *)

End(report, code) ==
    /\ out' = report /\ exit' = code /\ pc' = "ended"

Raise ==
    /\ out' = None /\ exit' = "raised" /\ pc' = "ended"

AfterArguments(mode) == IF mode \in VerifyModes \cup ReceiptModes THEN "stdin" ELSE "settings"

Arguments ==
    /\ pc = "arguments"
    /\ IF Refusal(args) # None THEN End(Refusal(args), IF "run" \in args.modes THEN "2" ELSE "1")
       ELSE /\ pc' = AfterArguments(Mode)
            /\ UNCHANGED <<out, exit>>
    /\ UNCHANGED <<args, touched, result>>

(* Standard input is a document, or it is unreadable, empty, too large, not *)
(* text, not JSON, too deep or has a key twice.                             *)
ReadStdin ==
    /\ pc = "stdin"
    /\ touched' = touched \cup {"stdin"}
    /\ \/ /\ pc' = IF Mode \in ReceiptModes THEN "settings" ELSE "work"
          /\ UNCHANGED <<out, exit>>
       \/ End(InputFail(Mode, "input_error"), "1")
    /\ UNCHANGED <<args, result>>

SettingsEnviron(mode) == IF mode \in ReceiptModes \cup {"precheck-runtime"} THEN {} ELSE {"environ"}

LoadSettings ==
    /\ pc = "settings"
    /\ touched' = touched \cup {"config"} \cup SettingsEnviron(Mode)
    /\ IF args.config = "broken"
       THEN End(IF Mode \in ReceiptModes THEN InputFail(Mode, "config_invalid") ELSE Report("FAIL", None, "config_error"), "1")
       ELSE /\ pc' = "work"
            /\ UNCHANGED <<out, exit>>
    /\ UNCHANGED <<args, result>>

Reads(mode) ==
    CASE mode \in VerifyModes -> {}
      [] mode = Revalidate -> {"state"}
      [] mode = "validate-only" -> {"clock", "state"}
      [] mode = "replay" -> {}
      [] OTHER -> {"clock", "state"}

(* What the called function may give: a result that passes or not, one that *)
(* contradicts itself, an error, an error for want of memory.  Candidate    *)
(* evidence may pass and the intent of it not be made.                      *)
Gives(mode) ==
    {"good", "bad", "error", "memory"}
    \cup (IF mode = VerifyEligibility THEN {"malformed"} ELSE {})
    \cup (IF mode = BuildIntent THEN {"not_created"} ELSE {})

Passed(r) == r = "good"

(* The reports.  The digest is the one of the evidence, the intent or the   *)
(* artifact; the receipt and intent verifiers hand through what they read.  *)
ValidateSummary(r) == Report(IF Passed(r) THEN "PASS" ELSE "FAIL", "validate-only", None)
InspectSummary(r) == Report(IF Passed(r) THEN "PASS" ELSE "NO_GO", "inspect-existing", None)
PrecheckSummary(r) == Report(IF Passed(r) THEN "PASS" ELSE "NO_GO", "precheck-runtime", None)
RevalidateSummary(r) == Report(IF Passed(r) THEN "PASS" ELSE "NO_GO", Revalidate, None)
FinalPreflightSummary(r) == Report(IF Passed(r) THEN "PASS" ELSE "NO_GO", FinalPreflight, None)
VerifyReceiptSummary(r) == Report(IF Passed(r) THEN "VALID" ELSE "INVALID", VerifyReceipt, None)
VerifyIntentSummary(r) == Report(IF Passed(r) THEN "VALID" ELSE "INVALID", VerifyIntent, None)
ReplaySummary(r) == Report("PASS", "replay", None)

(* The evidence digest is shown only when all passed. *)
FreshnessSummary(r) == [Report(IF Passed(r) THEN "PASS" ELSE "NO_GO", Freshness, None) EXCEPT !.digest = Passed(r)]

(* The envelope without digests, and the one with them. *)
IntentNoGo(r) == Report("NO_GO", BuildIntent, r)
IntentPassSummary == [Report("PASS", BuildIntent, None) EXCEPT !.digest = TRUE]

(* A result that breaks its own invariants is reported as invalid. *)
EligibilitySummary(r) ==
    IF r = "good" THEN [Report("VALID", VerifyEligibility, None) EXCEPT !.digest = TRUE]
    ELSE Report("INVALID", VerifyEligibility, "invalid_field")

Summary(mode, r) ==
    CASE mode = "validate-only" -> ValidateSummary(r)
      [] mode = "inspect-existing" -> InspectSummary(r)
      [] mode = "precheck-runtime" -> PrecheckSummary(r)
      [] mode = "replay" -> ReplaySummary(r)
      [] mode = Revalidate -> RevalidateSummary(r)
      [] mode = FinalPreflight -> FinalPreflightSummary(r)
      [] mode = Freshness -> FreshnessSummary(r)
      [] mode = BuildIntent -> IF Passed(r) THEN IntentPassSummary ELSE IntentNoGo(r)
      [] mode = VerifyReceipt -> VerifyReceiptSummary(r)
      [] mode = VerifyIntent -> VerifyIntentSummary(r)
      [] mode = VerifyEligibility -> EligibilitySummary(r)

(* An error is reported; memory errors leave the strict modes, and any      *)
(* error leaves the validation, which calls without a handler.              *)
Escapes(mode, r) ==
    \/ r = "memory" /\ mode \in StrictModes
    \/ r \in {"error", "memory"} /\ mode = "validate-only"

ErrorReport(mode) ==
    IF mode = BuildIntent THEN Report("NO_GO", mode, "upstream_error")
    ELSE IF mode = VerifyEligibility THEN Report("INVALID", mode, "invalid_field")
    ELSE IF mode \in VerifyModes \cup ReceiptModes THEN InputFail(mode, "error")
    ELSE Report("FAIL", None, "error")

Work ==
    /\ pc = "work"
    /\ touched' = touched \cup Reads(Mode)
    /\ \E r \in Gives(Mode) :
         /\ Mode = "replay" => r # "bad"
         /\ result' = r
         /\ IF Escapes(Mode, r) THEN Raise
            ELSE IF r \in {"error", "memory"} THEN End(ErrorReport(Mode), "1")
            ELSE End(Summary(Mode, r), IF Summary(Mode, r).outcome \in {"PASS", "VALID"} THEN "0" ELSE "1")
    /\ UNCHANGED args

Init ==
    /\ args \in CommandLines
    /\ pc = "arguments" /\ touched = {} /\ result = None /\ out = None /\ exit = None

Next == Arguments \/ ReadStdin \/ LoadSettings \/ Work

Spec == Init /\ [][Next]_vars

-----------------------------------------------------------------------------
(* The three verify modes: whatever is on the command line, they read        *)
(* standard input only: no config, environment, clock or database.          *)
VerifyReadsStdinOnly == args.modes \subseteq VerifyModes /\ args.modes # {} => touched \subseteq {"stdin"}

(* A manual confirmation on the command line is used or refused: a run that  *)
(* got past its arguments with one builds an intent and has all three.      *)
ConfirmationsNotSwallowed ==
    touched # {} /\ args.confirms # {} => args.modes = {BuildIntent} /\ args.confirms = Confirmations

(* build-operator-approval-intent: an intent is printed only on an explicit  *)
(* config, a maximum age and the three confirmations, with the evidence     *)
(* passing and the intent made; nothing is read before all are given.       *)
IntentNeedsAll ==
    args.modes = {BuildIntent} =>
        /\ touched # {} => args.json /\ args.config # None /\ args.maxAge = "digits" /\ args.confirms = Confirmations
        /\ exit = "0" => result = "good"

(* Exit code 0 and a digest in the report both mean that the called          *)
(* function passed; every other ended run says so with another code.        *)
ZeroMeansPassed ==
    pc = "ended" => /\ exit = "0" <=> result = "good"
                    /\ out # None => (out.digest => result = "good")

(* The modes that produce or check a receipt load the settings with an empty *)
(* environment, so no credential of it can reach them.                      *)
EnvironUnread == args.modes \cap (VerifyModes \cup ReceiptModes \cup {"precheck-runtime"}) # {} => "environ" \notin touched

(* Consumers of the strict modes parse their reports: whenever one of the    *)
(* flags was given and the live run was not asked for, the report is JSON   *)
(* and of a strict mode that was asked for, conflicts included.             *)
StrictReport ==
    out # None /\ args.modes \cap StrictModes # {} /\ "run" \notin args.modes
    => out.json /\ out.mode \in args.modes \cap StrictModes
==============================================================================
