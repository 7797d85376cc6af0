---------------------------- MODULE ApprovalChain ----------------------------
(***************************************************************************)
(* From qualified candidates to a persisted eligibility artifact.  Several *)
(* candidates are qualified; their parts, their evidence and the intents   *)
(* made from them may be mixed up or changed on the way, once; the clock   *)
(* may be set back between the steps.                                      *)
(***************************************************************************)
EXTENDS PrecheckReceipt

CONSTANTS
    Runs,           \* qualified runs: [symbol, checkedAt, now, maxAge, prints]
    Parts,          \* the part of a result that may come from another run
    MaxClock, MaxChanges,
    MaxKept         \* records of a kind that are kept

VARIABLES
    clock,
    changes,        \* things mixed up or altered so far
    evidences, intents, artifacts, files, decoded

vars == <<clock, changes, evidences, intents, artifacts, files, decoded>>

-----------------------------------------------------------------------------
(* freshness_qualify_activation_candidate PASS, as a value.                 *)
PassReceipt(symbol, at, prints) ==
    BuildReceipt([checkedAt |-> at, market |-> "KR", symbol |-> symbol, enabled |-> TRUE,
                  machine |-> "pass", inspection |-> "ok", reasons |-> <<>>,
                  before |-> prints, after |-> prints])

Qualified(r) ==
    LET receipt == PassReceipt(r.symbol, r.checkedAt, r.prints)
        age == r.now - r.checkedAt
    IN  [outcome |-> "pass", reasons |-> <<>>, posture |-> Sound, sha256 |-> receipt.sha256,
         symbol |-> r.symbol,
         fresh |-> [outcome |-> "fresh", posture |-> Sound, age |-> age, maxAge |-> r.maxAge],
         final |-> [outcome |-> "pass", reasons |-> <<>>, posture |-> Sound,
                    sha256 |-> receipt.sha256, symbol |-> r.symbol, age |-> age,
                    time |-> [outcome |-> "valid", age |-> age, checkedAt |-> r.checkedAt],
                    reval |-> [outcome |-> "pass", reasons |-> <<>>, posture |-> Sound,
                               sha256 |-> receipt.sha256, symbol |-> r.symbol,
                               before |-> r.prints, after |-> r.prints],
                    precheck |-> [machine |-> "pass", inspection |-> "ok", reasons |-> <<>>,
                                  posture |-> Sound, symbol |-> r.symbol,
                                  before |-> r.prints, after |-> r.prints,
                                  receipt |-> PassReceipt(r.symbol, r.now, r.prints)]]]

(* A result with one part of another.                                       *)
Mixed(q, part, other) ==
    CASE part = "none" -> q
      [] part = "final" -> [q EXCEPT !.final = other.final]
      [] part = "time" -> [q EXCEPT !.final.time = other.final.time]
      [] part = "reval" -> [q EXCEPT !.final.reval = other.final.reval]
      [] part = "precheck" -> [q EXCEPT !.final.precheck = other.final.precheck]
      [] part = "receipt" -> [q EXCEPT !.final.precheck.receipt = other.final.precheck.receipt]

(* A record with one field changed, its digest left as it was.              *)
Alterations(x) ==
    {[x EXCEPT ![f] = v] : f \in DOMAIN x \cap {"declaredAt", "evaluatedAt", "checkedAt"}, v \in Instants}
    \cup {[x EXCEPT ![f] = None] : f \in DOMAIN x \cap {"evidence", "intent", "receipt", "fresh", "sha256"}}
    \cup {[x EXCEPT ![f] = v] : f \in DOMAIN x \cap {"symbol"}, v \in Symbols}
    \cup {[x EXCEPT ![f] = "authorized"] : f \in DOMAIN x \cap {"posture"}}
    \cup {[x EXCEPT ![f] = FALSE] : f \in DOMAIN x \cap {"declared"}}
    \cup {[x EXCEPT ![f] = 0] : f \in DOMAIN x \cap {"age"}}

(* What a step may be given for x: x, or something else while changes are   *)
(* left.                                                                    *)
Given(x, others) ==
    {[item |-> x, cost |-> 0]}
    \cup {[item |-> y, cost |-> 1] : y \in IF changes < MaxChanges THEN others \ {x} ELSE {}}

Room(set) == Cardinality(set) < MaxKept

Keep(set, x) == IF x = None THEN set ELSE set \cup {x}

-----------------------------------------------------------------------------
Init ==
    /\ clock \in 0 .. MaxClock /\ changes = 0
    /\ evidences = {} /\ intents = {} /\ artifacts = {} /\ files = {} /\ decoded = {}

SetClock == \E t \in (0 .. MaxClock) \ {clock} :
    clock' = t /\ UNCHANGED <<changes, evidences, intents, artifacts, files, decoded>>

(* freshness_qualify_and_build_candidate_evidence: qualified and evidenced  *)
(* with one `now'; build_activation_candidate_evidence on its own may be    *)
(* handed a result whose parts are of two runs.                             *)
Evidence ==
    \E r, other \in Runs, part \in Parts :
        /\ Room(evidences) /\ r.now = clock /\ (part = "none" <=> r = other)
        /\ part # "none" => changes < MaxChanges
        /\ evidences' = Keep(evidences, BuildActivationCandidateEvidence(
                                Mixed(Qualified(r), part, Qualified(other)), clock))
        /\ changes' = IF part = "none" THEN changes ELSE changes + 1
        /\ UNCHANGED <<clock, intents, artifacts, files, decoded>>

(* build_operator_approval_intent *)
Declare ==
    /\ Room(intents)
    /\ \E r \in Runs, e0 \in evidences, declared \in BOOLEAN :
         \E e \in Given(e0, Alterations(e0)) :
            /\ intents' = Keep(intents, BuildOperatorApprovalIntent(Qualified(r), e.item, declared, clock))
            /\ changes' = changes + e.cost
            /\ UNCHANGED <<clock, evidences, artifacts, files, decoded>>

(* assess_..._eligibility and the artifact built from its result.           *)
Assess ==
    /\ artifacts = {}
    /\ \E i0 \in intents, e0 \in evidences :
         \E i \in Given(i0, Alterations(i0)), e \in Given(e0, Alterations(e0)) :
            /\ i.cost + e.cost <= 1
            /\ artifacts' = Keep(artifacts, BuildArtifact(AssessEligibility(i.item, e.item, clock)))
            /\ changes' = changes + i.cost + e.cost
            /\ UNCHANGED <<clock, evidences, intents, files, decoded>>

(* encode_verified_..._artifact *)
Persist ==
    /\ files = {}
    /\ \E a0 \in artifacts :
         \E a \in Given(a0, Alterations(a0)) :
            /\ files' = Keep(files, Encode(a.item))
            /\ changes' = changes + a.cost
            /\ UNCHANGED <<clock, evidences, intents, artifacts, decoded>>

(* decode_..._artifact_payload, of the bytes or of bytes changed since.     *)
Load ==
    /\ decoded = {}
    /\ \E b0 \in files :
         \E b \in Given(b0, {[b0 EXCEPT !.content = x] : x \in Alterations(b0.content)}
                            \cup {[b0 EXCEPT !.canonical = FALSE]}) :
            /\ decoded' = Keep(decoded, Decode(b.item))
            /\ changes' = changes + b.cost
            /\ UNCHANGED <<clock, evidences, intents, artifacts, files>>

Next == SetClock \/ Evidence \/ Declare \/ Assess \/ Persist \/ Load

Spec == Init /\ [][Next]_vars

-----------------------------------------------------------------------------
(* Evidence is of one qualified run: the receipt, the fresh receipt, the    *)
(* symbol and the instant are those of a run that was qualified then, even  *)
(* when its parts were handed over mixed                                    *)
(* (build_activation_candidate_evidence).                                   *)
EvidenceIsOfOneRun ==
    \A e \in evidences : \E r \in Runs :
        e = BuildActivationCandidateEvidence(Qualified(r), r.now) /\ e.evaluatedAt = r.now

(* What a reader of the persisted artifact accepts goes back, digest by     *)
(* digest, to an intent an operator declared and to the evidence it was     *)
(* declared on, and nothing on the way was changed.                         *)
AcceptedTraces ==
    \A a \in decoded : \E i \in intents, e \in evidences :
        /\ a.intent = i.sha256 /\ a.evidence = e.sha256 /\ i.evidence = e.sha256
        /\ a.symbol = e.symbol /\ i.symbol = e.symbol
        /\ a \in artifacts

(* The times of an accepted artifact are in order however the clock was     *)
(* set: the receipt, its evidence within the maximum age, the declaration,  *)
(* the assessment.                                                          *)
AcceptedInOrder ==
    \A a \in decoded :
        /\ a.evidence.evaluatedAt <= a.intent.declaredAt /\ a.intent.declaredAt <= a.checkedAt
        /\ a.evidence.evaluatedAt - a.evidence.receipt.checkedAt \in 0 .. a.evidence.maxAge

(* Nothing honest is refused: a qualified run has its evidence, evidence    *)
(* declared on in time has its intent, and so on to the decoded artifact.   *)
HonestAccepted ==
    /\ \A r \in Runs : BuildActivationCandidateEvidence(Qualified(r), r.now) # None
    /\ \A e \in evidences, r \in Runs :
         r.now = e.evaluatedAt /\ r.symbol = e.symbol /\ Qualified(r).sha256 = e.receipt
           /\ clock >= e.evaluatedAt
         => BuildOperatorApprovalIntent(Qualified(r), e, TRUE, clock) # None
    /\ \A i \in intents, e \in evidences :
         i.evidence = e.sha256 /\ clock >= i.declaredAt =>
             BuildArtifact(AssessEligibility(i, e, clock)) # None
    /\ \A a \in artifacts : Encode(a) # None /\ Decode(Encode(a)) = a
=============================================================================
