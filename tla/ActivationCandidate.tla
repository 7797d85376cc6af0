------------------------- MODULE ActivationCandidate -------------------------
(***************************************************************************)
(* Qualifying an activation candidate                                      *)
(* (src/composition/activation_candidate_revalidation.py,                  *)
(* activation_candidate_final_preflight.py,                                *)
(* activation_candidate_freshness_preflight.py, receipt_time_assessment.py *)
(* and receipt_freshness_policy.py).  A first command runs a precheck and  *)
(* hands out its receipt.  A later command, with the configuration and the *)
(* clock of that moment, fingerprints the artifacts twice, compares them   *)
(* with the receipt, checks the receipt's time, runs a precheck of its     *)
(* own, compares again and evaluates the age.  Nothing stops the writers   *)
(* in between.                                                             *)
(***************************************************************************)
EXTENDS RuntimePrecheck

CONSTANTS
    Policies,       \* receipt_freshness_policy inputs: None or a maximum age
    MaxFaults       \* unreadable artifacts

VARIABLES
    faults,
    c               \* the candidate

vars == <<disk, writes, clock, settings, s, faults, c>>

NoCandidate ==
    [stage |-> "receipt", receipt |-> None, seen |-> None, now |-> 0,
     policy |-> None, settings |-> None, i |-> 1, before |-> <<>>, after |-> <<>>, reasons |-> <<>>]

Init ==
    /\ disk \in FirstDisk /\ writes = 0 /\ clock = 1 /\ settings \in Settings
    /\ s = Begin(clock) /\ faults = 0 /\ c = NoCandidate

-----------------------------------------------------------------------------
(* _is_machine_pass_receipt *)
IsMachinePassReceipt(r) == r.machine = "pass" /\ r.inspection = "ok" /\ r.reasons = <<>>


(* _config_binding_reason; the market is KR in both by their types.         *)
ConfigBindingReason(cfg, r) ==
    CASE ~cfg.enabled -> <<"candidate_config_disabled">>
      [] cfg.enabled /\ r.symbol # cfg.symbol -> <<"candidate_symbol_mismatch">>
      [] cfg.enabled /\ r.symbol = cfg.symbol /\ ~r.enabled -> <<"candidate_enabled_mismatch">>
      [] OTHER -> <<>>

(* _artifact_revalidation_reasons *)
ArtifactRevalidationReasons(before, after, target) ==
    SelectSeq([i \in DOMAIN before |->
                 CASE before[i] # after[i] -> "candidate_current_artifact_drift"
                   [] before[i] = after[i] /\ after[i] # target[i] ->
                        "candidate_receipt_artifact_mismatch"
                   [] OTHER -> "same"],
              LAMBDA x : x # "same")

(* _post_revalidation_drift_reasons *)
PostRevalidationDriftReasons(revalidated, fresh) ==
    SelectSeq([i \in DOMAIN fresh |->
                 IF fresh[i] # revalidated[i] THEN "candidate_post_revalidation_artifact_drift"
                                              ELSE "same"],
              LAMBDA x : x # "same")

(* assess_verified_receipt_time *)
AssessVerifiedReceiptTime(r, now) ==
    IF r.checkedAt > now THEN [outcome |-> "no_go", age |-> None]
                         ELSE [outcome |-> "valid", age |-> now - r.checkedAt]

(* evaluate_receipt_freshness over an assessment that was VALID.            *)
EvaluateReceiptFreshness(assessment, maxAge) ==
    IF assessment.age <= maxAge THEN "fresh" ELSE "stale"

(* The qualified result, as the evidence is built from it.                  *)
QualifiedResult ==
    LET time == AssessVerifiedReceiptTime(c.receipt, c.now)
    IN  [outcome |-> "pass", reasons |-> <<>>, posture |-> Sound, sha256 |-> c.receipt.sha256,
         symbol |-> c.settings.symbol,
         fresh |-> [outcome |-> EvaluateReceiptFreshness(time, c.policy), posture |-> Sound,
                    age |-> time.age, maxAge |-> c.policy],
         final |-> [outcome |-> "pass", reasons |-> <<>>, posture |-> Sound,
                    sha256 |-> c.receipt.sha256, symbol |-> c.settings.symbol, age |-> time.age,
                    time |-> [outcome |-> time.outcome, age |-> time.age,
                              checkedAt |-> c.receipt.checkedAt],
                    reval |-> [outcome |-> "pass", reasons |-> c.reasons, posture |-> Sound,
                               sha256 |-> c.receipt.sha256, symbol |-> c.settings.symbol,
                               before |-> c.before, after |-> c.after],
                    precheck |-> [machine |-> s.receipt.machine, inspection |-> s.receipt.inspection,
                                  reasons |-> s.receipt.reasons, posture |-> Sound,
                                  symbol |-> s.settings.symbol, before |-> s.before,
                                  after |-> s.after, receipt |-> s.receipt]]]

NoGo(why) == [c EXCEPT !.stage = "no_go", !.reasons = why]

-----------------------------------------------------------------------------
(* The first command prints its receipt, or fails without one.              *)
TakeReceipt ==
    /\ c.stage = "receipt" /\ s.pc = "done"
    /\ c' = [c EXCEPT !.stage = "held", !.receipt = s.receipt, !.seen = s.mid]
    /\ s' = Idle
    /\ UNCHANGED <<disk, writes, clock, settings, faults>>

(* Days may pass: the configuration is another, the clock has moved, either *)
(* way.                                                                     *)
Meanwhile ==
    /\ c.stage = "held" /\ s.pc = "idle"
    /\ settings' \in Settings
    /\ \/ Tick
       \/ clock > 0 /\ clock' = clock - 1
    /\ UNCHANGED <<disk, writes, s, faults, c>>

(* freshness_qualify_activation_candidate up to the first fingerprints: the *)
(* policy, the receipt, its outcome and the configuration are judged in     *)
(* this order.                                                              *)
Qualify ==
    /\ c.stage = "held"
    /\ \E p \in Policies :
         c' = CASE p = None -> NoGo(<<"candidate_freshness_policy_invalid">>)
                [] p # None /\ VerifiedReceipt(c.receipt) = None -> NoGo(<<"candidate_receipt_invalid">>)
                [] p # None /\ VerifiedReceipt(c.receipt) # None
                     /\ ~IsMachinePassReceipt(c.receipt) -> NoGo(<<"candidate_receipt_not_pass">>)
                [] OTHER ->
                     LET why == ConfigBindingReason(settings, c.receipt)
                     IN  IF why # <<>> THEN NoGo(why)
                         ELSE [c EXCEPT !.stage = "before", !.policy = p, !.now = clock,
                                        !.settings = settings]
    /\ UNCHANGED <<disk, writes, clock, settings, s, faults>>

(* _fingerprint_artifacts_fail_closed: every artifact is tried, and those   *)
(* that cannot be read are the reasons.                                     *)
Revalidate(round) ==
    /\ c.stage = round
    /\ \E bad \in {b \in BOOLEAN : b => faults < MaxFaults} :
         LET why == IF bad THEN Append(c.reasons, "candidate_artifact_unreadable") ELSE c.reasons
             one == [c EXCEPT ![round] = IF bad THEN @ ELSE Append(@, FingerprintOf(ArtifactNames[c.i])),
                              !.reasons = why, !.i = c.i + 1]
         IN  /\ faults' = IF bad THEN faults + 1 ELSE faults
             /\ c' = IF c.i < Count THEN one
                     ELSE IF why # <<>> THEN NoGo(why)
                     ELSE [one EXCEPT !.i = 1, !.stage = IF round = "before" THEN "after" ELSE "compare"]
    /\ UNCHANGED <<disk, writes, clock, settings, s>>

(* revalidate_verified_activation_candidate after its fingerprints, and the *)
(* time of the receipt; then the candidate's own precheck begins.           *)
Compare ==
    /\ c.stage = "compare"
    /\ LET why == ArtifactRevalidationReasons(c.before, c.after, c.receipt.after)
           time == AssessVerifiedReceiptTime(c.receipt, c.now)
       IN  IF why # <<>> THEN c' = NoGo(why) /\ UNCHANGED s
           ELSE IF time.outcome # "valid"
           THEN c' = NoGo(<<"candidate_receipt_time_in_future">>) /\ UNCHANGED s
           ELSE c' = [c EXCEPT !.stage = "precheck"] /\ s' = Begin(c.now)
    /\ UNCHANGED <<disk, writes, clock, settings, faults>>

(* final_preflight_verified_activation_candidate after the precheck, the    *)
(* freshness of the receipt, and freshness_qualify_and_build_candidate_     *)
(* evidence: without evidence there is no PASS.                             *)
Finish ==
    /\ c.stage = "precheck" /\ s.pc = "done"
    /\ LET drift == PostRevalidationDriftReasons(c.after, s.receipt.after)
       IN  c' = IF s.receipt.machine # "pass" THEN NoGo(<<"candidate_current_precheck">>)
                ELSE IF drift # <<>> THEN NoGo(drift)
                ELSE IF EvaluateReceiptFreshness(AssessVerifiedReceiptTime(c.receipt, c.now), c.policy)
                          # "fresh"
                THEN NoGo(<<"candidate_receipt_stale">>)
                ELSE IF BuildActivationCandidateEvidence(QualifiedResult, c.now) = None
                THEN NoGo(<<"candidate_evidence_generation_invalid">>)
                ELSE [c EXCEPT !.stage = "pass"]
    /\ UNCHANGED <<disk, writes, clock, settings, s, faults>>

UnderWay == c.stage \notin {"pass", "no_go"} /\ s.pc # "raised"

Next ==
    \/ PrecheckStep /\ UNCHANGED <<disk, writes, clock, settings, faults, c>>
    \/ TakeReceipt \/ Meanwhile \/ Qualify \/ Compare \/ Finish
    \/ Revalidate("before") \/ Revalidate("after")
    \/ UnderWay /\ Write /\ UNCHANGED <<clock, settings, s, faults, c>>

Spec == Init /\ [][Next]_vars

-----------------------------------------------------------------------------
(* A qualified candidate (freshness_qualify_activation_candidate PASS over  *)
(* quiescent fingerprints) is the one the receipt is about: nothing was     *)
(* committed to any artifact between the two prechecks, although each read  *)
(* the artifacts one by one, and the state is sound at the later time too.  *)
QualifiedMeansUntouched ==
    c.stage = "pass" /\ Quiescent(c.after) =>
        /\ \A a \in Names : c.seen[a].latest = s.mid[a].latest /\ c.seen[a].content = s.mid[a].content
        /\ InspectDisk([a \in Names |-> [s.mid[a] EXCEPT !.side = FALSE]], c.now) = <<>>

(* The receipt is no older than the policy allows and not of the future,    *)
(* and the configuration it qualifies under is the one it was issued for,   *)
(* however clock and configuration moved between the commands.              *)
QualifiedIsCurrent ==
    c.stage = "pass" =>
        /\ c.receipt.checkedAt \in (c.now - c.policy) .. c.now
        /\ c.settings.enabled /\ c.settings.symbol = c.receipt.symbol

(* Evidence can be made of every qualified result: the checks of its        *)
(* builder, made again on the parts, never disagree with the steps that     *)
(* made them (activation_candidate_evidence.py:473).                        *)
QualifiedIsEvidenced == c.reasons # <<"candidate_evidence_generation_invalid">>

(* A refusal has a cause: with a PASS receipt, the same configuration, a    *)
(* receipt of acceptable age, readable artifacts and a disk nobody touched, *)
(* only the passing of time itself (an expired input or decision) refuses.  *)
RefusedForCause ==
    /\ c.stage = "no_go" /\ c.reasons # <<"candidate_freshness_policy_invalid">>
    /\ IsMachinePassReceipt(c.receipt) /\ c.receipt.enabled /\ faults = 0
    /\ settings.enabled /\ settings.symbol = c.receipt.symbol
    /\ writes = 0
    =>  \/ clock < c.receipt.checkedAt
        \/ \A p \in Policies \ {None} : clock - c.receipt.checkedAt > p
        \/ InspectDisk(disk, clock) # <<>>
=============================================================================
