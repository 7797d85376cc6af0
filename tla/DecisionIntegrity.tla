-------------------------- MODULE DecisionIntegrity --------------------------
(***************************************************************************)
(* One stored decision, column by column, and its two readers: the store's *)
(* own reader, which the fast loop uses                                    *)
(* (src/orchestration/active_decision_store.py), and the inspector of the  *)
(* precheck, which must judge it without constructing the store            *)
(* (src/composition/sqlite_inspector.py).  A decision is published, one    *)
(* column of its row or its pointer may then change on disk, and both      *)
(* readers look at it.                                                     *)
(*                                                                         *)
(* A digest is its content.  A timestamp is an instant with an offset, and *)
(* its two texts are kept apart: datetime.isoformat writes UTC as +00:00   *)
(* and pydantic's JSON writes it as Z.                                     *)
(***************************************************************************)
EXTENDS Integers

CONSTANTS
    Candidate,      \* what may be handed to publish
    Now,            \* the instant of the publication
    Market, Symbol, \* the configured pointer key
    ColumnChange,   \* the [field, value] changes a row may suffer
    None

VARIABLES phase, candidate, row, pointer, altered, read, inspected

vars == <<phase, candidate, row, pointer, altered, read, inspected>>

-----------------------------------------------------------------------------
(* Texts.  A stamp is [at, offset]; a text is [at, suffix].                 *)

IsoFormat(ts) == [at |-> ts.at, suffix |-> IF ts.offset = 0 THEN "+00:00" ELSE "+09:00"]

(* model_dump(mode="json") of a datetime; pydantic is a library.            *)
JsonFormat(ts) == [at |-> ts.at, suffix |-> IF ts.offset = 0 THEN "Z" ELSE "+09:00"]

NotATime == [at |-> 0, suffix |-> "naive"]

(* _parse_stored_datetime, _parse_required_aware_datetime                   *)
Parses(text) == text.suffix # "naive"

-----------------------------------------------------------------------------
(* Publication.                                                             *)

(* DecisionTriggerBundle._validate_match *)
BundleMatches(d, p) ==
    IF d.action = "hold" THEN p = None
    ELSE /\ p # None
         /\ p.decision = d.id /\ p.market = d.market /\ p.symbol = d.symbol
         /\ p.universe = d.universe /\ p.action = d.action
         /\ p.created.at >= d.created.at /\ p.from.at >= d.created.at

(* load_decision_bundle and _validate_and_prepare: the candidate may be     *)
(* published.                                                               *)
Prepared(c) ==
    /\ c.from.at <= c.until.at
    /\ c.schemaOk /\ c.passed /\ c.decision.action \in {"buy", "sell", "hold"}
    /\ BundleMatches(c.decision, c.plan)
    /\ c.decision.market = Market
    /\ c.decision.created.at <= c.from.at
    /\ c.plan # None => c.from = c.plan.from /\ c.until = c.plan.until

(* _bundle_to_json *)
BundleJson(c) ==
    [decision |-> [c.decision EXCEPT !.created = JsonFormat(@)],
     plan     |-> IF c.plan = None THEN None
                  ELSE [c.plan EXCEPT !.created = JsonFormat(@), !.from = JsonFormat(@),
                                      !.until = JsonFormat(@)],
     from     |-> IsoFormat(c.from), until |-> IsoFormat(c.until)]

(* _publication_id *)
PublicationId(market, symbol, id, created, hash) == <<market, symbol, id, created, hash>>

(* The row _publish_decision inserts.                                       *)
RowOf(c) ==
    [publication |-> PublicationId(c.decision.market, c.decision.symbol, c.decision.id,
                                   IsoFormat(c.decision.created), BundleJson(c)),
     market |-> c.decision.market, symbol |-> c.decision.symbol, decision |-> c.decision.id,
     plan |-> IF c.plan = None THEN None ELSE c.plan.id,
     created |-> IsoFormat(c.decision.created), from |-> IsoFormat(c.from),
     until |-> IsoFormat(c.until), bundle |-> BundleJson(c), hash |-> BundleJson(c),
     source |-> c.source, published |-> IsoFormat(Now)]

-----------------------------------------------------------------------------
(* The two readers.                                                         *)

(* deserialize_validated_bundle: the stored JSON becomes a valid bundle.    *)
Deserializes(json) ==
    /\ json.decision.action \in {"buy", "sell", "hold"} /\ Parses(json.decision.created)
    /\ BundleMatches(json.decision, json.plan)

PlanIdOf(json) == IF json.plan = None THEN None ELSE json.plan.id

(* _row_to_active_bundle: TRUE when the bundle is returned, FALSE when it   *)
(* raises PublicationError.  A parsed created_at is formatted again, so a   *)
(* column in another spelling gives another publication id.                 *)
RowToActiveBundle(r) ==
    /\ r.bundle = r.hash
    /\ Deserializes(r.bundle)
    /\ Parses(r.from) /\ Parses(r.until) /\ Parses(r.created) /\ Parses(r.published)
    /\ PublicationId(r.market, r.symbol, r.decision,
                     [r.created EXCEPT !.suffix = IF @ = "Z" THEN "+00:00" ELSE @], r.hash)
         = r.publication
    /\ r.bundle.from = r.from /\ r.bundle.until = r.until
    /\ r.bundle.decision.market = r.market /\ r.bundle.decision.symbol = r.symbol
    /\ r.bundle.decision.id = r.decision /\ PlanIdOf(r.bundle) = r.plan
    /\ r.bundle.decision.created.at = r.created.at

(* read_active: the pointer's version is taken whatever key it is for.      *)
ReadActive ==
    CASE pointer = None -> "none"
      [] pointer # None /\ pointer # row.publication -> "error"
      [] OTHER -> IF RowToActiveBundle(row) THEN "bundle" ELSE "error"

(* Mutant: the inspector stops before it rebuilds the model.                *)
VerifyActiveVersionShallow(r) ==
    IF r.market # Market \/ r.symbol # Symbol THEN "identity_mismatch"
    ELSE IF r.bundle # r.hash THEN "corrupt"
    ELSE IF PublicationId(r.market, r.symbol, r.decision, r.created, r.hash) # r.publication
         THEN "corrupt"
    ELSE "ok"

(* _verify_active_version: the verdicts in the order of the code.  The      *)
(* created_at of the bundle is compared as text.                            *)
VerifyActiveVersion(r) ==
    LET d == r.bundle.decision
        p == r.bundle.plan
    IN  IF r.market # Market \/ r.symbol # Symbol THEN "identity_mismatch"
        ELSE IF r.bundle # r.hash THEN "corrupt"
        ELSE IF PublicationId(r.market, r.symbol, r.decision, r.created, r.hash) # r.publication
             THEN "corrupt"
        ELSE IF \/ r.bundle.from # r.from \/ r.bundle.until # r.until
                \/ ~Parses(r.from) \/ ~Parses(r.until) \/ r.from.at > r.until.at
                \/ ~Parses(r.published)
             THEN "corrupt"
        ELSE IF \/ d.market # r.market \/ d.symbol # r.symbol \/ d.id # r.decision
                \/ PlanIdOf(r.bundle) # r.plan \/ d.created # r.created
             THEN "identity_mismatch"
        ELSE IF p # None /\ (p.market # r.market \/ p.symbol # r.symbol \/ p.decision # d.id)
             THEN "identity_mismatch"
        ELSE IF \/ d.action \in {"buy", "sell"} /\ p = None
                \/ d.action = "hold" /\ p # None
             THEN "plan_consistency_mismatch"
        ELSE IF ~Deserializes(r.bundle) THEN "corrupt"
        ELSE "ok"

(* inspect_active_decision *)
InspectActiveDecision ==
    CASE pointer = None -> "absent"
      [] pointer # None /\ pointer # row.publication -> "dangling"
      [] OTHER -> VerifyActiveVersion(row)

-----------------------------------------------------------------------------
Init ==
    /\ phase = "idle" /\ candidate \in Candidate
    /\ row = None /\ pointer = None /\ altered = "nothing"
    /\ read = "unread" /\ inspected = "unread"

(* publish, into an empty store: the version is inserted and the pointer of *)
(* its key set in one transaction.  `pointer' is that of the configured key.*)
Publish ==
    /\ phase = "idle"
    /\ IF Prepared(candidate) /\ candidate.until.at > Now.at
       THEN /\ row' = RowOf(candidate)
            /\ pointer' = IF candidate.decision.symbol = Symbol THEN row'.publication ELSE None
            /\ phase' = "published"
       ELSE UNCHANGED <<row, pointer>> /\ phase' = "rejected"
    /\ UNCHANGED <<candidate, altered, read, inspected>>

(* The configured pointer comes to reference the version of another key.    *)
AlterPointer ==
    /\ phase = "published" /\ pointer = None
    /\ pointer' = row.publication
    /\ altered' = "pointer" /\ phase' = "altered"
    /\ UNCHANGED <<candidate, row, read, inspected>>

(* A column of the row changes on disk.                                     *)
AlterColumn(ch) ==
    /\ phase = "published" /\ row[ch.field] # ch.value
    /\ row' = [row EXCEPT ![ch.field] = ch.value]
    /\ altered' = ch.field /\ phase' = "altered"
    /\ UNCHANGED <<candidate, pointer, read, inspected>>

(* A whole bundle is replaced together with its digest.                     *)
AlterBundle(c) ==
    /\ phase = "published" /\ BundleJson(c) # row.bundle
    /\ row' = [row EXCEPT !.bundle = BundleJson(c), !.hash = BundleJson(c)]
    /\ altered' = "bundle" /\ phase' = "altered"
    /\ UNCHANGED <<candidate, pointer, read, inspected>>

(* Both readers look at the row the configured pointer leads to.            *)
Look ==
    /\ phase \in {"published", "altered", "rejected"}
    /\ read' = ReadActive /\ inspected' = InspectActiveDecision
    /\ phase' = "done"
    /\ UNCHANGED <<candidate, row, pointer, altered>>

Next == Publish \/ AlterPointer \/ (\E ch \in ColumnChange : AlterColumn(ch))
                \/ (\E c \in Candidate : AlterBundle(c)) \/ Look

Spec == Init /\ [][Next]_vars

-----------------------------------------------------------------------------
(* What publish accepted, the store's reader returns.                       *)
PublishedIsReadable ==
    phase = "done" /\ pointer # None /\ altered = "nothing" => read = "bundle"

(* A row of which one column, or the bundle with its digest, was changed is *)
(* returned by no reader; published_at and source_payload_hash are the only *)
(* columns that nothing binds.  A pointer to the version of another key     *)
(* only the inspector refuses.                                              *)
AlteredRowRefused ==
    phase = "done" /\ altered \notin {"nothing", "published", "source"} =>
        (altered = "pointer" \/ read # "bundle") /\ inspected # "ok"

(* The inspector never reports a decision sound that the runtime reader     *)
(* cannot load ("never report integrity_ok for a bundle the runtime reader  *)
(* cannot load", sqlite_inspector.py:776).                                  *)
InspectorNeverLenient ==
    phase = "done" /\ inspected = "ok" => read = "bundle"

(* A decision the inspector passes is for the configured key and its plan   *)
(* fits its action.                                                         *)
SoundDecisionIsConfigured ==
    phase = "done" /\ inspected = "ok" =>
        /\ row.bundle.decision.symbol = Symbol
        /\ (row.plan = None) = (row.bundle.decision.action = "hold")

=============================================================================
