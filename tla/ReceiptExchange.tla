--------------------------- MODULE ReceiptExchange ---------------------------
(***************************************************************************)
(* A precheck receipt between the process that writes it and the ones that *)
(* read it: an observation is built into a receipt, the receipt is kept as *)
(* a file or piped to another command, where one of its fields may be      *)
(* altered, and it is judged by the payload verifier and by the check of   *)
(* receipt objects.                                                        *)
(***************************************************************************)
EXTENDS PrecheckReceipt

CONSTANTS
    Observation,    \* what a precheck may hand to the builder
    Alteration      \* the [field, value] replacements a stored receipt may suffer

VARIABLES phase, obs, original, payload, verdict

vars == <<phase, obs, original, payload, verdict>>

Init ==
    /\ phase = "observed" /\ obs \in Observation
    /\ original = None /\ payload = None /\ verdict = None

(* The builder refuses an observation that contradicts itself.              *)
Build ==
    /\ phase = "observed"
    /\ original' = BuildReceipt(obs) /\ payload' = original'
    /\ phase' = IF original' = None THEN "refused" ELSE "built"
    /\ UNCHANGED <<obs, verdict>>

(* One field of the stored receipt is replaced; the digest is a field too.  *)
Alter(a) ==
    /\ phase = "built"
    /\ payload' = [payload EXCEPT ![a.field] = a.value]
    /\ phase' = "altered"
    /\ UNCHANGED <<obs, original, verdict>>

Judge ==
    /\ phase \in {"built", "altered"}
    /\ verdict' = [payload |-> VerifiedReceipt(payload) # None,
                   object  |-> ReceiptObjectValid(payload)]
    /\ phase' = "judged"
    /\ UNCHANGED <<obs, original, payload>>

Next == Build \/ (\E a \in Alteration : Alter(a)) \/ Judge

Spec == Init /\ [][Next]_vars

-----------------------------------------------------------------------------
(* A receipt the builder returns is accepted by the verifier: neither side  *)
(* has a rule the other lacks (build_runtime_precheck_receipt against       *)
(* verify_runtime_precheck_receipt_payload).                                *)
HonestReceiptVerifies ==
    phase = "judged" /\ payload = original => verdict.payload

(* A receipt of which any one field was changed after it was built is       *)
(* refused, the fields of the activation posture included, although the     *)
(* digest is computed with constants in their place.                        *)
AlteredReceiptRefused ==
    phase = "judged" /\ payload # original => ~verdict.payload

(* The check of receipt objects accepts exactly the enabled receipts that   *)
(* the payload verifier accepts (validate_runtime_precheck_receipt_object). *)
ReadersAgree ==
    phase = "judged" => verdict.object = (verdict.payload /\ payload.enabled)

(* A receipt is built only where the fingerprint rules of the writer and    *)
(* those of the reader say the same of every fingerprint                    *)
(* (validate_fingerprint_semantics, parse_fingerprint_dict).                *)
FingerprintRulesAgree ==
    \A fp \in Range(obs.before) :
        fp.name \in Range(ArtifactNames) => FingerprintSemantics(fp) = ParseFingerprint(fp)
=============================================================================
