--------------------------- MODULE PrecheckReceipt ---------------------------
(***************************************************************************)
(* The runtime precheck receipt of the paper fast loop:                    *)
(* src/composition/precheck_receipt_schema.py (the rules),                 *)
(* paper_fast_loop.py (the builder), precheck_receipt_verifier.py and      *)
(* verified_precheck_receipt.py (the readers).  A receipt records the      *)
(* fingerprints of four artifacts before and after an inspection, the      *)
(* verdicts, and a digest over its own content.                            *)
(*                                                                         *)
(* SHA-256 over canonical JSON is modelled as the content itself: two      *)
(* contents have one digest exactly when they are equal.                   *)
(***************************************************************************)
EXTENDS Integers, Sequences, SequencesExt

CONSTANTS
    ArtifactNames,  \* PAPER_FAST_LOOP_ARTIFACT_NAMES, in canonical order
    Hex64,          \* the file digests that are 64 hexadecimal characters
    Symbols,        \* the symbols that are six digits
    Instants,       \* the timestamps that parse and carry a timezone
    None

SchemaVersion == 1

JsonSnapshotName == "execution_inputs_snapshot"

SqliteArtifactNames == Range(ArtifactNames) \ {JsonSnapshotName}

AllowedSidecars == <<"-wal", "-shm", "-journal">>

-----------------------------------------------------------------------------
(* Fingerprints.                                                           *)

(* _sidecar_suffixes_valid, parse_sidecar_suffixes: known suffixes, each    *)
(* once, in canonical order.                                                *)
SidecarsValid(suffixes) ==
    suffixes = SelectSeq(AllowedSidecars, LAMBDA x : x \in Range(suffixes))

Unmeasured(fp) == fp.size = None /\ fp.sha256 = None /\ fp.version = None

(* validate_fingerprint_semantics: an absent artifact has no attribute, an  *)
(* irregular one only its sidecars, a regular one is measured; the JSON     *)
(* snapshot has no user_version.                                            *)
FingerprintSemantics(fp) ==
    IF ~fp.present THEN ~fp.regular /\ Unmeasured(fp) /\ fp.sidecars = <<>>
    ELSE IF ~fp.regular THEN Unmeasured(fp) /\ SidecarsValid(fp.sidecars)
    ELSE /\ fp.size # None /\ fp.size >= 0 /\ fp.sha256 \in Hex64
         /\ fp.version # None => fp.version >= 0
         /\ fp.name = JsonSnapshotName => fp.version = None
         /\ fp.name \in Range(ArtifactNames)
         /\ SidecarsValid(fp.sidecars)

(* parse_fingerprint_dict: the rules once more, on a decoded payload, and   *)
(* the name is looked at whether or not the artifact is there.              *)
ParseFingerprint(fp) ==
    /\ SidecarsValid(fp.sidecars)
    /\ \/ ~fp.present /\ Unmeasured(fp) /\ ~fp.regular /\ fp.sidecars = <<>>
       \/ fp.present /\ ~fp.regular /\ Unmeasured(fp)
       \/ /\ fp.present /\ fp.regular
          /\ fp.size # None /\ fp.size >= 0 /\ fp.sha256 \in Hex64
          /\ fp.version = None \/ fp.version >= 0
    /\ IF fp.name = JsonSnapshotName THEN fp.version = None
                                     ELSE fp.name \in SqliteArtifactNames
    /\ FingerprintSemantics(fp)

NamesOf(fps) == [i \in DOMAIN fps |-> fps[i].name]

(* validate_fingerprint_sequence *)
FingerprintSequenceValid(fps) ==
    NamesOf(fps) = ArtifactNames /\ \A i \in DOMAIN fps : FingerprintSemantics(fps[i])

(* parse_fingerprint_list *)
ParseFingerprintList(fps) ==
    /\ Len(fps) = Len(ArtifactNames)
    /\ \A i \in DOMAIN fps : ParseFingerprint(fps[i])
    /\ NamesOf(fps) = ArtifactNames

-----------------------------------------------------------------------------
(* What the verdicts, the reasons and the fingerprints say of each other.   *)
(* A reason is a record [code, artifact].                                   *)

ChangedCode == "precheck_artifact_changed"

ChangedReason(a) == [code |-> ChangedCode, artifact |-> a]

BlankReason == [code |-> "", artifact |-> None]

(* validate_reasons *)
ReasonsValid(reasons) == BlankReason \notin Range(reasons)

(* validate_outcome_values, validate_outcome_semantics,                     *)
(* outcome_semantics_valid                                                  *)
OutcomeSemantics(machine, inspection, reasons) ==
    /\ machine \in {"pass", "no_go"} /\ inspection \in {"ok", "no_go"}
    /\ machine = "pass" => inspection = "ok" /\ reasons = <<>>
    /\ inspection = "no_go" => machine = "no_go"
    /\ machine = "no_go" => reasons # <<>>

(* _changed_artifacts_from_payloads *)
ChangedByFingerprints(before, after) ==
    {before[i].name : i \in {j \in DOMAIN before : before[j] # after[j]}}

ChangedReasons(reasons) == SelectSeq(reasons, LAMBDA x : x.code = ChangedCode)

(* _changed_artifacts_from_reasons: an unknown artifact, or one named       *)
(* twice, makes the reasons invalid.                                        *)
ChangedReasonsValid(reasons) ==
    LET named == [i \in DOMAIN ChangedReasons(reasons) |-> ChangedReasons(reasons)[i].artifact]
    IN  Range(named) \subseteq Range(ArtifactNames) /\ IsInjective(named)

ChangedByReasons(reasons) == {x.artifact : x \in Range(ChangedReasons(reasons))}

(* _validate_observation_fingerprint_semantics *)
ObservationFingerprintSemantics(machine, reasons, before, after) ==
    /\ machine = "pass" => before = after
    /\ ChangedReasonsValid(reasons)
    /\ ChangedByFingerprints(before, after) = ChangedByReasons(reasons)

(* validate_observation_semantics, observation_semantics_valid *)
ObservationSemantics(o) ==
    /\ OutcomeSemantics(o.machine, o.inspection, o.reasons)
    /\ ObservationFingerprintSemantics(o.machine, o.reasons, o.before, o.after)

-----------------------------------------------------------------------------
(* The receipt.                                                             *)

(* precheck_activation_posture: a receipt never authorises anything.        *)
Posture == [authorized |-> FALSE, activation |-> "no_go", approval |-> TRUE, writers |-> TRUE]

PostureOf(r) ==
    [authorized |-> r.authorized, activation |-> r.activation,
     approval |-> r.approval, writers |-> r.writers]


(* build_receipt_hash_payload, its twin on dictionaries, and                *)
(* compute_receipt_sha256: everything but the digest, the posture being     *)
(* put in as the constants and not taken from the receipt.                  *)
HashPayload(r) ==
    [r EXCEPT !.sha256 = None, !.authorized = Posture.authorized,
              !.activation = Posture.activation, !.approval = Posture.approval,
              !.writers = Posture.writers]

(* is_hex64 of a receipt digest: the digests are the payloads themselves.   *)
IsDigest(x) == x # None

(* validate_checked_at, validate_market, validate_symbol *)
IdentityValid(r) == r.checkedAt \in Instants /\ r.market = "KR" /\ r.symbol \in Symbols

(* An observation becomes the fields of a receipt.                          *)
ReceiptOf(o) ==
    [schema |-> SchemaVersion, checkedAt |-> o.checkedAt, market |-> o.market,
     symbol |-> o.symbol, enabled |-> o.enabled, machine |-> o.machine,
     inspection |-> o.inspection, reasons |-> o.reasons, before |-> o.before,
     after |-> o.after, authorized |-> Posture.authorized,
     activation |-> Posture.activation, approval |-> Posture.approval,
     writers |-> Posture.writers, sha256 |-> None]

(* build_runtime_precheck_receipt: the receipt, or None when it raises.     *)
BuildReceipt(o) ==
    IF /\ IdentityValid(o) /\ ReasonsValid(o.reasons)
       /\ FingerprintSequenceValid(o.before) /\ FingerprintSequenceValid(o.after)
       /\ ObservationSemantics(o)
    THEN [ReceiptOf(o) EXCEPT !.sha256 = HashPayload(ReceiptOf(o))]
    ELSE None

(* validate_runtime_precheck_receipt_object: the check a receipt object     *)
(* goes through when evidence is built from it.                             *)
ReceiptObjectValid(r) ==
    /\ r.schema = SchemaVersion
    /\ IdentityValid(r)
    /\ r.enabled
    /\ FingerprintSequenceValid(r.before) /\ FingerprintSequenceValid(r.after)
    /\ ObservationSemantics(r)
    /\ PostureOf(r) = Posture
    /\ IsDigest(r.sha256) /\ HashPayload(r) = r.sha256

(* verify_runtime_precheck_receipt_payload *)
VerifyReceiptPayload(r) ==
    /\ r.schema = SchemaVersion
    /\ IdentityValid(r)
    /\ ReasonsValid(r.reasons)
    /\ PostureOf(r) = Posture
    /\ ParseFingerprintList(r.before) /\ ParseFingerprintList(r.after)
    /\ ObservationSemantics(r)
    /\ IsDigest(r.sha256) /\ HashPayload(r) = r.sha256

(* verify_and_snapshot_precheck_receipt: the payload is copied first, and   *)
(* the copy is verified and turned into a receipt.                          *)
VerifiedReceipt(r) == IF VerifyReceiptPayload(r) THEN r ELSE None

-----------------------------------------------------------------------------
(***************************************************************************)
(* What a qualified activation candidate leaves behind, and what an        *)
(* operator makes of it (src/composition/activation_candidate_evidence.py, *)
(* operator_approval_intent*.py,                                           *)
(* operator_approval_consumption_eligibility*.py): evidence, an approval   *)
(* intent bound to the evidence, an eligibility bound to both, and the     *)
(* artifact that is persisted.  Each carries the digest of its own content *)
(* and the digest of what it rests on.  A digest is modelled by the        *)
(* content it covers; None stands for any other digest.                    *)
(*                                                                         *)
(* The fields that are constants of every honest record (schema versions,  *)
(* scope, "no_go" posture) are kept as one field, `posture'; a record with *)
(* another value there is one a reader must refuse.                        *)
(***************************************************************************)

Sound == "no_go, not authorized"

-----------------------------------------------------------------------------
(* The result of qualifying a candidate, with the results it is made of.    *)

(* _valid_fingerprint_pair *)
ValidFingerprintPair(before, after) ==
    FingerprintSequenceValid(before) /\ FingerprintSequenceValid(after)

(* _machine_proof_receipt_sha256: the revalidation and the fresh precheck   *)
(* are of this candidate, at this instant and over the same artifacts; the  *)
(* digest of the fresh receipt, or None.                                    *)
MachineProofReceiptSha256(reval, precheck, sha, symbol, evaluatedAt) ==
    LET r == precheck.receipt
    IN  IF /\ reval.outcome = "pass" /\ reval.reasons = <<>>
           /\ reval.sha256 = sha /\ reval.symbol = symbol /\ reval.posture = Sound
           /\ precheck.machine = "pass" /\ precheck.reasons = <<>>
           /\ precheck.symbol = symbol /\ precheck.inspection = "ok" /\ precheck.posture = Sound
           /\ r.checkedAt = evaluatedAt /\ r.symbol = symbol
           /\ ValidFingerprintPair(reval.before, reval.after) /\ reval.before = reval.after
           /\ ValidFingerprintPair(precheck.before, precheck.after)
           /\ precheck.before = precheck.after /\ reval.after = precheck.after
           /\ r.before = precheck.before /\ r.after = precheck.after
           /\ ReceiptObjectValid(r)
        THEN r.sha256 ELSE None

(* _evidence_hash_payload *)
EvidenceHashPayload(e) == [e EXCEPT !.sha256 = None, !.posture = Sound]

(* build_activation_candidate_evidence: every part of the result is looked  *)
(* at again, and the parts must be of one candidate.                        *)
BuildActivationCandidateEvidence(q, evaluatedAt) ==
    LET f == q.final
        proof == MachineProofReceiptSha256(f.reval, f.precheck, q.sha256, q.symbol, evaluatedAt)
        e == [evaluatedAt |-> evaluatedAt, receipt |-> q.sha256, fresh |-> proof, symbol |-> q.symbol,
              maxAge |-> q.fresh.maxAge, age |-> q.fresh.age, final |-> f.outcome,
              freshness |-> q.fresh.outcome, posture |-> Sound, sha256 |-> None]
    IN  IF /\ evaluatedAt \in Instants
           /\ q.outcome = "pass" /\ q.reasons = <<>> /\ q.posture = Sound
           /\ f.outcome = "pass" /\ f.reasons = <<>> /\ f.posture = Sound
           /\ q.fresh.outcome = "fresh" /\ q.fresh.posture = Sound
           /\ f.time.outcome = "valid"
           /\ f.sha256 = q.sha256 /\ f.symbol = q.symbol /\ IsDigest(q.sha256) /\ q.symbol \in Symbols
           /\ f.age = q.fresh.age /\ f.time.age = q.fresh.age /\ q.fresh.age <= q.fresh.maxAge
           /\ f.time.checkedAt \in Instants /\ evaluatedAt - f.time.checkedAt = q.fresh.age
           /\ proof # None
        THEN [e EXCEPT !.sha256 = EvidenceHashPayload(e)] ELSE None

(* validate_activation_candidate_evidence_scalars *)
EvidenceValid(e) ==
    /\ e.evaluatedAt \in Instants /\ IsDigest(e.receipt) /\ IsDigest(e.fresh) /\ IsDigest(e.sha256)
    /\ e.symbol \in Symbols /\ e.age \in Nat /\ e.maxAge \in Nat /\ e.age <= e.maxAge
    /\ e.final = "pass" /\ e.freshness = "fresh" /\ e.posture = Sound
    /\ EvidenceHashPayload(e) = e.sha256

-----------------------------------------------------------------------------
(* operator_approval_intent_hash_payload: the declarations and the posture  *)
(* go in as constants.                                                      *)
IntentHashPayload(i) == [i EXCEPT !.sha256 = None, !.posture = Sound, !.declared = TRUE]

(* build_operator_approval_intent from the qualified result, its evidence,  *)
(* the operator's declarations and the time they were made.                 *)
BuildOperatorApprovalIntent(q, e, declared, declaredAt) ==
    LET i == [declaredAt |-> declaredAt, evidence |-> e.sha256, symbol |-> e.symbol,
              declared |-> TRUE, posture |-> Sound, sha256 |-> None]
    IN  IF /\ EvidenceValid(e)
           /\ q.outcome = "pass" /\ q.reasons = <<>> /\ q.posture = Sound
           /\ q.sha256 = e.receipt /\ q.symbol = e.symbol
           /\ declared
           /\ declaredAt \in Instants /\ declaredAt >= e.evaluatedAt
        THEN [i EXCEPT !.sha256 = IntentHashPayload(i)] ELSE None

(* validate_operator_approval_intent_scalars_detailed *)
IntentScalarsValid(i) ==
    /\ i.declaredAt \in Instants /\ IsDigest(i.evidence) /\ i.symbol \in Symbols
    /\ i.declared /\ i.posture = Sound /\ IsDigest(i.sha256)

(* verify_and_snapshot_operator_approval_intent over a copy of the payload. *)
IntentValid(i) == IntentScalarsValid(i) /\ IntentHashPayload(i) = i.sha256

-----------------------------------------------------------------------------
(* Mutant: the intent and the evidence need only name the same symbol.      *)
BindingMatchesSymbol(i, e) == i.symbol = e.symbol

(* _binding_matches *)
BindingMatches(i, e) == i.evidence = e.sha256 /\ i.symbol = e.symbol

(* _time_ordering_reason *)
TimeOrdered(evaluatedAt, declaredAt, now) == evaluatedAt <= declaredAt /\ declaredAt <= now

(* assess_operator_approval_consumption_eligibility: an eligibility or why  *)
(* there is none.                                                           *)
AssessEligibility(i, e, now) ==
    CASE ~IntentValid(i) -> [outcome |-> "invalid", eligibility |-> None]
      [] IntentValid(i) /\ ~EvidenceValid(e) -> [outcome |-> "invalid", eligibility |-> None]
      [] IntentValid(i) /\ EvidenceValid(e)
           /\ ~(BindingMatches(i, e) /\ TimeOrdered(e.evaluatedAt, i.declaredAt, now)) ->
           [outcome |-> "no_go", eligibility |-> None]
      [] OTHER ->
           [outcome |-> "eligible",
            eligibility |-> [intent |-> i.sha256, evidence |-> e.sha256, symbol |-> e.symbol,
                             evaluatedAt |-> e.evaluatedAt, declaredAt |-> i.declaredAt,
                             checkedAt |-> now, posture |-> Sound]]

(* ..._artifact_hash_payload_from_scalars *)
ArtifactHashPayload(a) == [a EXCEPT !.sha256 = None]

(* ..._artifact_content_scalars_detailed *)
ArtifactContentValid(a) ==
    /\ IsDigest(a.intent) /\ IsDigest(a.evidence) /\ a.symbol \in Symbols
    /\ {a.checkedAt, a.evaluatedAt, a.declaredAt} \subseteq Instants /\ a.posture = Sound
    /\ TimeOrdered(a.evaluatedAt, a.declaredAt, a.checkedAt)

(* build_operator_approval_consumption_eligibility_artifact *)
BuildArtifact(result) ==
    IF result.outcome # "eligible" THEN None
    ELSE LET x == result.eligibility
             a == [intent |-> x.intent, evidence |-> x.evidence, symbol |-> x.symbol,
                   evaluatedAt |-> x.evaluatedAt, declaredAt |-> x.declaredAt,
                   checkedAt |-> x.checkedAt, posture |-> x.posture, sha256 |-> None]
         IN  IF ArtifactContentValid(a) THEN [a EXCEPT !.sha256 = ArtifactHashPayload(a)] ELSE None

(* validate_..._artifact_scalars_detailed *)
ArtifactScalarsValid(a) == ArtifactContentValid(a) /\ IsDigest(a.sha256)

(* verify_..._artifact_payload and its snapshot twin.                       *)
ArtifactVerified(a) == ArtifactScalarsValid(a) /\ ArtifactHashPayload(a) = a.sha256

(* _encode: the canonical bytes of a verified artifact.  Canonical JSON is  *)
(* one text per content: bytes are the content and whether the text is the  *)
(* canonical one.                                                           *)
Encode(a) == IF ArtifactVerified(a) THEN [content |-> a, canonical |-> TRUE] ELSE None

(* _decode: bytes that parse, verify, and are what encoding would write.    *)
Decode(b) == IF ArtifactVerified(b.content) /\ b.canonical THEN b.content ELSE None
=============================================================================
