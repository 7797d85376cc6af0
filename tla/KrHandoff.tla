------------------------------ MODULE KrHandoff -----------------------------
(***************************************************************************)
(* The hand-off bundle of the KR intake (ops/preflight_kr_end_to_end_      *)
(* intake.py, validate_kr_end_to_end_preflight_plan.py, build_ and         *)
(* verify_kr_end_to_end_handoff_manifest.py).  Four command line tools     *)
(* that share a directory:                                                 *)
(*   preflight  checks the operator's inputs and writes a structured plan, *)
(*              a summary and a markdown plan, one file after the other;   *)
(*   validator  checks the structured plan and writes a report;            *)
(*   builder    indexes the files into a manifest of sizes and digests,    *)
(*              verifies it and only then puts it in place;                *)
(*   verifier   checks the files against the manifest and writes a report. *)
(* They run while the operator edits the inputs, files are altered by hand *)
(* and a tool may be killed between two steps.  A digest is the content;   *)
(* a content is [kind, gen, size, ...] where gen numbers the edit of the   *)
(* inputs it was made from (every edit shows in every output).  Temporary  *)
(* files are not modelled: they are renamed into place.                    *)
(***************************************************************************)
EXTENDS Naturals, FiniteSets, Sequences, SequencesExt

CONSTANTS None,            \* the absent file
          Inputs,          \* what the operator may write: the input files
          PreflightArgs, ValidatorArgs, BuilderArgs, VerifierArgs,
                           \* the command lines, as records
          Outside,         \* the files outside the base directory
          MaxRuns,         \* [tool -> runs]
          MaxTampers, MaxEdits

VARIABLES files, input, gen, preflight, validator, builder, verifier, runs, tampers
vars == <<files, input, gen, preflight, validator, builder, verifier, runs, tampers>>

Roles == <<"summary", "md", "plan", "report">>
Outputs == Range(Roles) \cup {"manifest", "vreport"}
Tools == {"preflight", "validator", "builder", "verifier"}

-----------------------------------------------------------------------------
(* preflight.  The input is a record: toml, universe and mapping are "ok", *)
(* "missing" or "bad", covered says that the mapping covers the universe,  *)
(* optional maps the optional artifacts to "unlisted", "ok", "missing" or  *)
(* "bad", and promotes says that a path holds "config/universe" or "cp ".  *)

(* load_kr_end_to_end_preflight_manifest                                   *)
ManifestLoads(in) == in.toml = "ok"

(* _validate_provider_mapping_pair                                         *)
MappingPairOk(in) == in.universe = "ok" /\ in.mapping = "ok" /\ in.covered

(* _validate_optional_file, _validate_jsonl_file, _validate_json_object_   *)
(* file, _validate_text_file: there, and parsing as what it should be; the *)
(* store is only looked for.                                               *)
ArtifactFileOk(a, state) == state = "ok" \/ (a = "store" /\ state = "bad")

(* _validate_optional_artifacts: an artifact that is not listed is only    *)
(* warned about.                                                           *)
OptionalOk(in) ==
    \A a \in DOMAIN in.optional :
        in.optional[a] # "unlisted" => ArtifactFileOk(a, in.optional[a])

(* _build_followup_steps: sources the operator has not listed are fetched  *)
(* by a step of their own.                                                 *)
FollowupSteps(in) ==
    LET when(a, id) == IF in.optional[a] = "unlisted" THEN <<id>> ELSE <<>>
    IN  <<"validate-provider-mapping">>
        \o when("price", "price-smoke") \o when("dart", "dart-smoke")
        \o when("combined", "concatenate-jsonl")
        \o <<"research-source-intake-validate-only", "combined-context-smoke",
             "date-md-smoke", "scout-manual-packet">>

(* The script of a step; the concatenation is a manual step without one.   *)
ScriptOf(id) ==
    CASE id = "validate-provider-mapping" -> "validate_provider_mapping"
      [] id = "price-smoke" -> "run_kr_real_price_smoke"
      [] id = "dart-smoke" -> "run_kr_real_dart_smoke"
      [] id = "concatenate-jsonl" -> "none"
      [] id = "research-source-intake-validate-only" -> "research_source_intake"
      [] id = "combined-context-smoke" -> "build_kr_real_combined_context_smoke"
      [] id = "date-md-smoke" -> "run_date_md_smoke"
      [] id = "scout-manual-packet" -> "build_scout_manual_packet"
      [] OTHER -> "unknown"

FollowupAllowlist ==
    {"validate_provider_mapping", "run_kr_real_price_smoke", "run_kr_real_dart_smoke",
     "research_source_intake", "build_kr_real_combined_context_smoke", "run_date_md_smoke",
     "build_scout_manual_packet"}

(* _validate_structured_plan_steps and _validate_followup_command_allowlist. *)
StepsAllowlisted(steps) ==
    \A i \in DOMAIN steps : ScriptOf(steps[i]) \in FollowupAllowlist \cup {"none"}

(* _render_structured_plan_json, the summary, _render_plan_markdown.       *)
PlanContent(in, g) == [kind |-> "plan", gen |-> g, size |-> 1, steps |-> FollowupSteps(in),
                        promotes |-> in.promotes]
SummaryContent(g, planned) == [kind |-> "summary", gen |-> g, size |-> 1, planned |-> planned]
MarkdownContent(g) == [kind |-> "md", gen |-> g, size |-> 1]

(* A tool that has ended, with whatever exit code, is idle again.          *)
Idle == [pc |-> "idle"]


(* _write_output: an existing file is replaced only when forced.           *)
MayWrite(f, force) == files[f] = None \/ force

(* run_kr_end_to_end_preflight: reads and checks everything first.         *)
PreflightCheck(outs, emit, force) ==
    /\ preflight.pc = "idle" /\ runs["preflight"] < MaxRuns["preflight"]
    /\ runs' = [runs EXCEPT !["preflight"] = @ + 1]
    /\ preflight' =
         IF ManifestLoads(input) /\ MappingPairOk(input) /\ OptionalOk(input)
            /\ (emit => StepsAllowlisted(FollowupSteps(input)))
         THEN [pc |-> "plan", outs |-> outs, emit |-> emit, force |-> force,
               gen |-> gen, in |-> input]
         ELSE Idle
    /\ UNCHANGED <<files, input, gen, validator, builder, verifier, tampers>>

(* One write of the tool: skipped when the output is not asked for, an     *)
(* error when the file is there and may not be replaced.                   *)
PreflightWrite(pc, f, wanted, content, next) ==
    /\ preflight.pc = pc
    /\ files' = IF wanted /\ MayWrite(f, preflight.force)
                THEN [files EXCEPT ![f] = content] ELSE files
    /\ preflight' = IF wanted => MayWrite(f, preflight.force) THEN next ELSE Idle
    /\ UNCHANGED <<input, gen, validator, builder, verifier, runs, tampers>>

Planned == "plan" \in preflight.outs /\ preflight.emit

PreflightPlan ==
    /\ preflight.pc = "plan"
    /\ PreflightWrite("plan", "plan", Planned, PlanContent(preflight.in, preflight.gen),
                      [preflight EXCEPT !.pc = "summary"])

PreflightSummary ==
    /\ preflight.pc = "summary"
    /\ PreflightWrite("summary", "summary", "summary" \in preflight.outs,
                      SummaryContent(preflight.gen, Planned), [preflight EXCEPT !.pc = "md"])

PreflightMarkdown ==
    /\ preflight.pc = "md"
    /\ PreflightWrite("md", "md", "md" \in preflight.outs, MarkdownContent(preflight.gen),
                      Idle)

-----------------------------------------------------------------------------
(* validator                                                               *)
CanonicalSteps ==
    <<"validate-provider-mapping", "price-smoke", "dart-smoke", "concatenate-jsonl",
      "research-source-intake-validate-only", "combined-context-smoke", "date-md-smoke",
      "scout-manual-packet">>

(* _validate_step_ids: known, once each, in the canonical order.           *)
StepIdsOk(ids) == ids = SelectSeq(CanonicalSteps, LAMBDA id : id \in Range(ids))

(* _validate_sensitive_string: a command that names config/universe, or    *)
(* holds "cp ", is taken for a promotion of generated files.               *)
CommandsSafe(c) == ~c.promotes

(* load_structured_preflight_plan and _validate_top_level: a JSON object   *)
(* of the right mode whose steps are allowed.  An altered plan still is    *)
(* one; a drifted one has another mode, a malformed one does not parse.    *)
PlanValid(c) ==
    /\ c # None
    /\ c.kind = "plan"
    /\ Len(c.steps) > 0
    /\ StepsAllowlisted(c.steps)
    /\ StepIdsOk(c.steps)
    /\ CommandsSafe(c)

(* _build_validation_report: counts and ids of the plan that was read.     *)
ReportContent(c) == [kind |-> "report", gen |-> c.gen, size |-> 1, steps |-> c.steps]

ValidatorRead(out, force) ==
    /\ validator.pc = "idle" /\ runs["validator"] < MaxRuns["validator"]
    /\ runs' = [runs EXCEPT !["validator"] = @ + 1]
    /\ validator' = IF PlanValid(files["plan"])
                    THEN IF out THEN [pc |-> "write", plan |-> files["plan"], force |-> force]
                         ELSE Idle
                    ELSE Idle
    /\ UNCHANGED <<files, input, gen, preflight, builder, verifier, tampers>>

ValidatorWrite ==
    /\ validator.pc = "write"
    /\ files' = IF MayWrite("report", validator.force)
                THEN [files EXCEPT !["report"] = ReportContent(validator.plan)] ELSE files
    /\ validator' = Idle
    /\ UNCHANGED <<input, gen, preflight, builder, verifier, runs, tampers>>

-----------------------------------------------------------------------------
(* builder and verifier                                                    *)

(* _validate_structured_plan_payload and its neighbours: a JSON artifact   *)
(* parses and is of the mode of its role; markdown is only hashed.         *)
PayloadOk(role, c) == role = "md" \/ c.kind = role

Contained(f, base) == base => f \notin Outside

(* _index_artifact *)
Indexable(role, c) == c # None /\ PayloadOk(role, c)

(* _verify_artifact_entry: inside the base, there, of the recorded size    *)
(* and digest, and still of the mode of its role.                          *)
EntryHolds(role, entry, c, base) ==
    /\ Contained(role, base)
    /\ c # None
    /\ c.size = entry.size
    /\ c = entry
    /\ PayloadOk(role, c)

(* load_handoff_manifest: the file is there and parses.                    *)
HandoffLoads(m) == m # None /\ m.kind # "malformed"

(* _validate_artifact_entry_schema *)
EntrySchemaOk(role, entry) == role \in Range(Roles) /\ entry.size > 0

(* _validate_manifest_schema and _validate_artifact_roles.                 *)
ManifestSchemaOk(m) ==
    /\ m.kind = "manifest"
    /\ DOMAIN m.entries # {}
    /\ \A r \in DOMAIN m.entries : EntrySchemaOk(r, m.entries[r])

ManifestContent(entries) == [kind |-> "manifest", gen |-> 0, size |-> 1, entries |-> entries]

Ordered(roles) == SelectSeq(Roles, LAMBDA r : r \in roles)

(* build_kr_end_to_end_handoff_manifest: containment before any read.      *)
BuilderStart(roles, base, force) ==
    /\ builder.pc = "idle" /\ runs["builder"] < MaxRuns["builder"]
    /\ runs' = [runs EXCEPT !["builder"] = @ + 1]
    /\ builder' = IF Contained("manifest", base) /\ \A r \in roles : Contained(r, base)
                  THEN [pc |-> "index", todo |-> Ordered(roles), roles |-> roles,
                        entries |-> << >>, base |-> base, force |-> force,
                        together |-> << >>]
                  ELSE Idle
    /\ UNCHANGED <<files, input, gen, preflight, validator, verifier, tampers>>

(* build_handoff_manifest, one artifact at a time.  together (not in the   *)
(* code) keeps what all the artifacts were when the last one was read.     *)
BuilderIndex ==
    /\ builder.pc = "index"
    /\ LET r == Head(builder.todo)
       IN  builder' =
             IF Indexable(r, files[r])
             THEN [builder EXCEPT
                     !.todo = IF Tail(@) = <<>> THEN Ordered(builder.roles) ELSE Tail(@),
                     !.pc = IF Tail(builder.todo) = <<>> THEN "exists" ELSE "index",
                     !.entries = Append(@, files[r]),
                     !.together = [q \in builder.roles |-> files[q]]]
             ELSE Idle
    /\ UNCHANGED <<files, input, gen, preflight, validator, verifier, runs, tampers>>

(* _write_manifest_output: not over an existing manifest unless forced.    *)
BuilderExists ==
    /\ builder.pc = "exists"
    /\ builder' = IF MayWrite("manifest", builder.force)
                  THEN [builder EXCEPT !.pc = "verify"] ELSE Idle
    /\ UNCHANGED <<files, input, gen, preflight, validator, verifier, runs, tampers>>

EntryOf(roles, entries, r) ==
    entries[CHOOSE i \in DOMAIN entries : Ordered(roles)[i] = r]

(* The temporary manifest is verified artifact by artifact.                *)
BuilderVerify ==
    /\ builder.pc = "verify"
    /\ LET r == Head(builder.todo)
       IN  builder' =
             IF EntryHolds(r, EntryOf(builder.roles, builder.entries, r), files[r], builder.base)
             THEN [builder EXCEPT !.todo = Tail(@),
                                  !.pc = IF Tail(builder.todo) = <<>> THEN "commit" ELSE "verify"]
             ELSE Idle
    /\ UNCHANGED <<files, input, gen, preflight, validator, verifier, runs, tampers>>

BuilderCommit ==
    /\ builder.pc = "commit"
    /\ files' = [files EXCEPT !["manifest"] =
                   ManifestContent([r \in builder.roles |->
                                      EntryOf(builder.roles, builder.entries, r)])]
    /\ builder' = Idle
    /\ UNCHANGED <<input, gen, preflight, validator, verifier, runs, tampers>>

(* verify_kr_end_to_end_handoff_manifest: the manifest, its schema, then   *)
(* every entry in turn.                                                    *)
VerifierStart(out, base, force) ==
    /\ verifier.pc = "idle" /\ runs["verifier"] < MaxRuns["verifier"]
    /\ runs' = [runs EXCEPT !["verifier"] = @ + 1]
    /\ LET m == files["manifest"]
       IN  verifier' =
             IF Contained("manifest", base) /\ HandoffLoads(m) /\ ManifestSchemaOk(m)
             THEN [pc |-> "verify", out |-> out, base |-> base, force |-> force,
                   entries |-> m.entries, todo |-> Ordered(DOMAIN m.entries),
                   read |-> [r \in DOMAIN m.entries |-> None]]
             ELSE Idle
    /\ UNCHANGED <<files, input, gen, preflight, validator, builder, tampers>>

(* read (not in the code) keeps what was read.                             *)
VerifierEntry ==
    /\ verifier.pc = "verify"
    /\ LET r == Head(verifier.todo)
       IN  verifier' =
             IF EntryHolds(r, verifier.entries[r], files[r], verifier.base)
             THEN [verifier EXCEPT !.todo = Tail(@), !.read[r] = files[r],
                                   !.pc = IF Tail(verifier.todo) = <<>> THEN "report" ELSE "verify"]
             ELSE Idle
    /\ UNCHANGED <<files, input, gen, preflight, validator, builder, runs, tampers>>

(* run_verify_kr_end_to_end_handoff_manifest: the report, if asked for.    *)
VerificationReport(entries) ==
    [kind |-> "vreport", gen |-> 0, size |-> 1, roles |-> Ordered(DOMAIN entries)]

(* _validate_verification_report_payload: the report lists the verified    *)
(* roles, once each, in the canonical order.                               *)
ReportPayloadOk(report) ==
    /\ report.kind = "vreport"
    /\ Len(report.roles) > 0
    /\ report.roles = Ordered(Range(report.roles))

VerifierReport ==
    /\ verifier.pc = "report"
    /\ LET may == /\ ReportPayloadOk(VerificationReport(verifier.entries))
                  /\ Contained("vreport", verifier.base)
                  /\ MayWrite("vreport", verifier.force)
       IN  /\ files' = IF verifier.out /\ may
                       THEN [files EXCEPT !["vreport"] = VerificationReport(verifier.entries)]
                       ELSE files
           /\ verifier' = IF verifier.out => may THEN [verifier EXCEPT !.pc = "ok"] ELSE Idle
    /\ UNCHANGED <<input, gen, preflight, validator, builder, runs, tampers>>

-----------------------------------------------------------------------------
(* The operator and the world.                                             *)
VerifierEnds ==
    /\ verifier.pc = "ok"
    /\ verifier' = Idle
    /\ UNCHANGED <<files, input, gen, preflight, validator, builder, runs, tampers>>

(* The preflight is killed between two of its files; what it had renamed   *)
(* into place stays.  The other tools write one file, in their last step.  *)
Killed ==
    /\ preflight.pc \in {"summary", "md"} /\ tampers < MaxTampers
    /\ tampers' = tampers + 1
    /\ preflight' = Idle
    /\ UNCHANGED <<files, input, gen, validator, builder, verifier, runs>>

Edit ==
    /\ gen < MaxEdits
    /\ gen' = gen + 1
    /\ input' \in Inputs
    /\ UNCHANGED <<files, preflight, validator, builder, verifier, runs, tampers>>

(* By hand, a file is deleted, broken, or altered keeping mode and size.   *)
Altered(c) ==
    {None, [kind |-> "malformed", gen |-> 99, size |-> 2], [c EXCEPT !.gen = 99]}

Tamper ==
    /\ tampers < MaxTampers
    /\ tampers' = tampers + 1
    /\ \E f \in Range(Roles) :
         /\ files[f] # None
         /\ \E c \in Altered(files[f]) : files' = [files EXCEPT ![f] = c]
    /\ UNCHANGED <<input, gen, preflight, validator, builder, verifier, runs>>

Init ==
    /\ input \in Inputs
    /\ files = [f \in Outputs |-> None]
    /\ gen = 0 /\ tampers = 0
    /\ preflight = Idle /\ validator = Idle /\ builder = Idle /\ verifier = Idle
    /\ runs = [t \in Tools |-> 0]

Preflight ==
    \/ \E a \in PreflightArgs : PreflightCheck(a.outs, a.emit, a.force)
    \/ PreflightPlan \/ PreflightSummary \/ PreflightMarkdown
Validator == (\E a \in ValidatorArgs : ValidatorRead(a.out, a.force)) \/ ValidatorWrite
Builder ==
    \/ \E a \in BuilderArgs : BuilderStart(a.roles, a.base, a.force)
    \/ BuilderIndex \/ BuilderExists \/ BuilderVerify \/ BuilderCommit
Verifier ==
    \/ \E a \in VerifierArgs : VerifierStart(a.out, a.base, a.force)
    \/ VerifierEntry \/ VerifierReport \/ VerifierEnds
Next == Preflight \/ Validator \/ Builder \/ Verifier \/ Killed \/ Edit \/ Tamper
Spec == Init /\ [][Next]_vars

-----------------------------------------------------------------------------
(* As long as only the tools write, the artifacts of a committed manifest  *)
(* were all on disk together: one replaced by a forced run while the       *)
(* others were being indexed is noticed by the verification before the     *)
(* commit.  (A file altered by hand and put back is not noticed.)          *)
IndexedTogether ==
    builder.pc = "commit" /\ builder' # builder /\ tampers = 0 =>
      files'["manifest"].entries = builder.together

(* The verifier says ok only when it has read every indexed artifact with  *)
(* the indexed bytes, in a file of the right kind.                         *)
OkMeansIntact ==
    verifier.pc = "ok" =>
      \A r \in DOMAIN verifier.entries :
         /\ verifier.read[r] = verifier.entries[r]
         /\ r # "md" => verifier.read[r].kind = r

(* A tool replaces an existing file only when it was forced, whatever the  *)
(* other tools have written since it started.                              *)
ForcedOnly ==
    \A f \in Outputs :
      (files[f] # None /\ files'[f] # files[f] /\ tampers' = tampers) =>
         \/ preflight # preflight' /\ preflight.force
         \/ validator # validator' /\ validator.force
         \/ builder # builder' /\ builder.force
         \/ verifier # verifier' /\ verifier.force

(* A summary that says a plan was generated is written only once the plan  *)
(* of the same inputs is there: killed or refused in between, the run      *)
(* leaves a plan without a summary and not the other way round.            *)
SummaryAfterPlan ==
    files'["summary"] # files["summary"] /\ tampers' = tampers /\ files'["summary"].planned
      => IF files["plan"] = None THEN tampers > 0
         ELSE files["plan"].gen \in {files'["summary"].gen, 99}

(* Whichever sources the operator has listed, the validator accepts the    *)
(* plan the preflight has written: all but the plans whose inputs live     *)
(* under config/universe, which the preflight does not refuse.             *)
GeneratedPlanAccepted ==
    files["plan"] # None /\ files["plan"].gen # 99 =>
       (PlanValid(files["plan"]) <=> ~files["plan"].promotes)
=============================================================================
